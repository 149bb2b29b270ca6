-------------------------- MODULE MCPubsubMessages --------------------------
(* Small instances of PubsubMessages for TLC. *)
EXTENDS PubsubMessages

CONSTANTS topic, f, g, o

OneTopic == {topic}
TwoCallbacks == {f, g}
ThreeListeners ==
    { [type |-> topic, callback |-> f, once |-> FALSE],
      [type |-> topic, callback |-> f, once |-> TRUE],
      [type |-> topic, callback |-> g, once |-> TRUE] }
NoObjects == {}
OneObject == {o}

Message(from, signature, key, seqno) ==
    [topic |-> topic, from |-> from, signature |-> signature, key |-> key, seqno |-> seqno]

\* Signed, unsigned, and unreadable for its empty seqno.
ThreeMessages ==
    { Message("key", "sender", Absent, "eight"), Message("key", Absent, Absent, Absent),
      Message("hash", "bad", "sender", "empty") }
NoMessages == {}

Config(policy, emitSelf, canRelay) ==
    [policy |-> policy, emitSelf |-> emitSelf, canRelay |-> canRelay]
TwoConfigs == { Config("StrictSign", TRUE, TRUE), Config("StrictNoSign", FALSE, FALSE) }
SigningConfig == {Config("StrictSign", FALSE, FALSE)}
=============================================================================

-------------------------- MODULE AtomicPeerStore --------------------------
(***************************************************************************)
(* What the peer store promises: every method takes effect on one peer's     *)
(* entry in one step, computed from the entry as it is at that step, and     *)
(* the events of a change are dispatched, or lost with an error, before the  *)
(* next change of any peer.  Locks, loads and callers do not appear, and     *)
(* what the methods compute is a parameter.                                 *)
(***************************************************************************)
CONSTANTS
    PeerIds,
    NoEntry,
    Outcomes(_, _),     (* what a method for a peer can make of its entry   *)
    AtFirst,            (* what a listener knows of a peer at first         *)
    Hear(_, _),         (* what it knows after the events of an outcome     *)
    Miss(_, _),         (* and when they are lost                          *)
    NotDue              (* no change waits for its events to be dispatched  *)

VARIABLES
    store,      (* the entry of each peer                                  *)
    due,        (* the change whose events have not been dispatched        *)
    heard       (* what a listener knows of each peer                      *)

vars == <<store, due, heard>>

Init ==
    /\ store = [p \in PeerIds |-> NoEntry]
    /\ due = NotDue
    /\ heard = [p \in PeerIds |-> AtFirst]

Change(p) ==
    /\ due = NotDue
    /\ \E outcome \in Outcomes(p, store[p]) :
          /\ store' = [store EXCEPT ![p] = outcome.entry]
          /\ due' = [peer |-> p, outcome |-> outcome]
    /\ UNCHANGED heard

Settle(h) ==
    /\ due # NotDue
    /\ heard' = [heard EXCEPT ![due.peer] = h]
    /\ due' = NotDue
    /\ UNCHANGED store

Dispatch == Settle(Hear(heard[due.peer], due.outcome))

Lose == Settle(Miss(heard[due.peer], due.outcome))

Next == (\E p \in PeerIds : Change(p)) \/ Dispatch \/ Lose

Spec == Init /\ [][Next]_vars
=============================================================================

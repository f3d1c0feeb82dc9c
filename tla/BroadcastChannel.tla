-------------------------- MODULE BroadcastChannel --------------------------
(***************************************************************************)
(* What the executor and its workers expect of a MessageQueue: one writer, *)
(* every reader receives every message once and in order, and the writer   *)
(* is never more than Capacity messages ahead of a reader it has to wait   *)
(* for.  A reader whose dequeue gave up between the two halves of a large  *)
(* message has lost its place: nothing is promised to it any more.         *)
(***************************************************************************)
EXTENDS Naturals, Sequences

CONSTANTS Reader,       \* all readers
          Local,        \* the readers the writer waits for
          Capacity      \* messages the channel holds for them

VARIABLES sent,         \* number of messages sent: they are 1 .. sent
          got,          \* what each reader has received, a sequence
          strayed       \* readers that lost their place

ChanInit == sent = 0 /\ got = [r \in Reader |-> <<>>] /\ strayed = {}

(* A reader may have one message in its hands. *)
Send ==
    /\ \A r \in Local \ strayed : sent - Len(got[r]) <= Capacity
    /\ sent' = sent + 1 /\ UNCHANGED <<got, strayed>>

Receive(r) ==
    /\ \E m \in 1 .. sent :
        /\ r \in strayed \/ m = Len(got[r]) + 1
        /\ got' = [got EXCEPT ![r] = Append(@, m)]
    /\ UNCHANGED <<sent, strayed>>

Stray(r) == strayed' = strayed \cup {r} /\ UNCHANGED <<sent, got>>

ChanNext == Send \/ \E r \in Reader : Receive(r) \/ Stray(r)

ChanSpec == ChanInit /\ [][ChanNext]_<<sent, got, strayed>>
=============================================================================

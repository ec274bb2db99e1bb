------------------------------- MODULE PortsBus -------------------------------
(***************************************************************************)
(* Ports implements FanoutBus when every edge has one writer, as in the    *)
(* wiring the engine builds.  The broadcast happens at the step that       *)
(* writes the Enqueued record: from then on the packet counts as being on  *)
(* the edges whose permits are still to be committed.                      *)
(***************************************************************************)
EXTENDS Ports

(* Each edge belongs to the fan-out of one writer: no PortsOut is cloned.  *)
ExclusiveFanouts ==
  \A w, v \in Writers : w # v => Elems(Fanout[w]) \cap Elems(Fanout[v]) = {}

(* w has recorded its packet and still has to commit it on e.              *)
Committing(w, e) ==
  /\ pc[w] = "committing"
  /\ \E i \in (released[w] + 1)..held[w] : Fanout[w][i] = e

BusLog ==
  [e \in Edges |->
     IF \E w \in Writers : Committing(w, e)
     THEN Append(committed[e], Current(CHOOSE w \in Writers : Committing(w, e)))
     ELSE committed[e]]

Bus == INSTANCE FanoutBus WITH
  log     <- BusLog,
  read    <- taken,
  senders <- {w \in Writers : pc[w] # "dropped"},
  ended   <- {r \in Readers : rpc[r] = "closed"},
  gone    <- {r \in Readers : rpc[r] = "dropped"}

(* The reserve-then-commit protocol of ports.rs is indistinguishable from  *)
(* an indivisible, bounded, ordered broadcast with an honest end of input. *)
ImplementsBus == Bus!BusSpec
=============================================================================

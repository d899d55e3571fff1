-------------------------- MODULE DeliveryLedger ---------------------------
(***************************************************************************)
(* What the outreach flow promises about each email draft, without the     *)
(* processes, the locks or the order of reads: a draft leaves the open     *)
(* state at most once, through one channel.  The automatic channel hands   *)
(* the message to the server at most once and may then learn an outcome,   *)
(* never one that contradicts what the server did; a draft whose outcome   *)
(* is never learned stays reserved.  Records of a manual batch are made    *)
(* together.                                                               *)
(***************************************************************************)
EXTENDS Naturals

CONSTANT Drafts

VARIABLES ledger,   \* where each draft stands
          taken     \* how many messages for the draft the server took

Settled == {"ACCEPTED", "TRANSIENT_FAILURE", "PERMANENT_FAILURE", "UNKNOWN"}
Standing == {"OPEN", "RESERVED", "MANUAL"} \union Settled

LedgerInit ==
    /\ ledger = [d \in Drafts |-> "OPEN"]
    /\ taken = [d \in Drafts |-> 0]

Reserve(d) ==
    /\ ledger[d] = "OPEN"
    /\ ledger' = [ledger EXCEPT ![d] = "RESERVED"]
    /\ UNCHANGED taken

Take(d) ==
    /\ ledger[d] = "RESERVED"
    /\ taken[d] = 0
    /\ taken' = [taken EXCEPT ![d] = 1]
    /\ UNCHANGED ledger

(* An acceptance is recorded only for a message that was taken, a failure  *)
(* only for one that was not.                                              *)
Learn(d, outcome) ==
    /\ ledger[d] = "RESERVED"
    /\ outcome \in Settled
    /\ outcome = "ACCEPTED" => taken[d] = 1
    /\ outcome \in {"TRANSIENT_FAILURE", "PERMANENT_FAILURE"} => taken[d] = 0
    /\ ledger' = [ledger EXCEPT ![d] = outcome]
    /\ UNCHANGED taken

RecordManually(drafts) ==
    /\ drafts # {}
    /\ \A d \in drafts : ledger[d] = "OPEN"
    /\ ledger' = [d \in Drafts |-> IF d \in drafts THEN "MANUAL" ELSE ledger[d]]
    /\ UNCHANGED taken

LedgerNext ==
    \/ \E d \in Drafts : Reserve(d) \/ Take(d) \/ \E o \in Settled : Learn(d, o)
    \/ \E drafts \in SUBSET Drafts : RecordManually(drafts)

LedgerSpec == LedgerInit /\ [][LedgerNext]_<<ledger, taken>>
=============================================================================

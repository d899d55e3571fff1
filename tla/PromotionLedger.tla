-------------------------- MODULE PromotionLedger --------------------------
(***************************************************************************)
(* What candidate promotion promises about the companies it makes, without *)
(* the processes, the locks or the reviews: a candidate is linked at most  *)
(* once while its company exists, to a company of its own host; and a      *)
(* company is made for it only if its host has none.  Contact candidates   *)
(* are promised the same of contacts and their addresses.                  *)
(***************************************************************************)
EXTENDS Naturals

CONSTANTS Candidates, Companies, NoCompany, NoHost, HostOf, Hosts

VARIABLES link,  \* the company of each candidate
          place  \* the existing companies, with their hosts

Existing == DOMAIN place

LedgerInit ==
    /\ link = [c \in Candidates |-> NoCompany]
    /\ place = [k \in {} |-> NoHost]

Add(k, host) ==
    /\ k \in Companies \ Existing
    /\ place' = [j \in Existing \union {k} |-> IF j = k THEN host ELSE place[j]]

(* Somebody adds a company by hand, whatever its host.                     *)
CreateByHand(k, host) == Add(k, host) /\ UNCHANGED link

(* Deleting a company clears the links to it.                              *)
Delete(k) ==
    /\ k \in Existing
    /\ place' = [j \in Existing \ {k} |-> place[j]]
    /\ link' = [c \in Candidates |-> IF link[c] = k THEN NoCompany ELSE link[c]]

Attach(c, k) ==
    /\ link[c] = NoCompany
    /\ link' = [link EXCEPT ![c] = k]

PromoteInto(c, k) ==
    /\ k \in Existing
    /\ place[k] = HostOf[c]
    /\ HostOf[c] # NoHost
    /\ Attach(c, k)
    /\ UNCHANGED place

PromoteNew(c, k) ==
    /\ HostOf[c] = NoHost \/ \A j \in Existing : place[j] # HostOf[c]
    /\ Add(k, HostOf[c])
    /\ Attach(c, k)

LedgerNext ==
    \E k \in Companies :
        \/ \E host \in Hosts \union {NoHost} : CreateByHand(k, host)
        \/ Delete(k)
        \/ \E c \in Candidates : PromoteInto(c, k) \/ PromoteNew(c, k)

LedgerSpec == LedgerInit /\ [][LedgerNext]_<<link, place>>
=============================================================================

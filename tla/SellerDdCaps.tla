---------------------------- MODULE SellerDdCaps ----------------------------
(***************************************************************************)
(* lib/seller-dd/caps.ts: the reservation of a test payment, its release and *)
(* the loss ledger, as operators over the ledger's keys.                     *)
(*                                                                         *)
(* A test payment is a signed authorization of our own wallet: it can land    *)
(* until it expires, whoever holds it.  So its reservation is made before it   *)
(* is signed and given back only when it was never signed, or has expired      *)
(* unused.  All test payments have one price, to one host, on one UTC day: the *)
(* day, lifetime and unsettled counters move together (spent, in payments), as *)
(* the host and the address counters do (hosts).                             *)
(***************************************************************************)
EXTENDS Integers, FiniteSets

CONSTANTS Reqs,       \* requests, each with a fresh request id
          Cap,        \* payments in the smallest of the three spend caps
          HostCap,    \* PER_HOST_DAILY
          TestValid   \* ticks a test payment stays valid

ASSUME CapsAssumption == {Cap, HostCap} \subseteq Nat /\ TestValid \in Nat \ {0}

VARIABLES
  spent,     \* dd:spendu:<day>, dd:spendu:lifetime, brief:unsettled:<day>
  hosts,     \* dd:host:<domain>:<day>, dd:ip:<ip>:<day>
  rec,       \* dd:res:<id> of these requests
  open,      \* dd:open, scored by the end of the validity
  index,     \* dd:nonce:<nonce>
  released,  \* dd:released:<id>
  loss,      \* what each request adds to dd:lossu:<day>
  lossRec,   \* dd:lossrec:<id>
  test,      \* the test payments on the chain: none, signed, landed
  expires    \* their validBefore

counters == <<spent, hosts>>
booking  == <<rec, open, index, released>>
losses   == <<loss, lossRec>>
pays     == <<test, expires>>
ledger   == <<counters, booking, losses, pays>>

CapsInit ==
  /\ spent = 0 /\ hosts = 0
  /\ rec = {} /\ open = {} /\ index = {} /\ released = {}
  /\ loss = [r \in Reqs |-> 0] /\ lossRec = {}
  /\ test = [r \in Reqs |-> "none"] /\ expires = [r \in Reqs |-> 0]

----------------------------------------------------------------------------
(* reserveTestPay. *)

Fits == spent < Cap /\ hosts < HostCap
\* spendReserveMulti: every counter or none.
TakeAll == Fits /\ spent' = spent + 1 /\ hosts' = hosts + 1

\* The three writes after it, the first n of them: dd:open comes last.
Book(r, n) ==
  /\ rec' = IF n >= 1 THEN rec \cup {r} ELSE rec
  /\ index' = IF n >= 2 THEN index \cup {r} ELSE index
  /\ open' = IF n >= 3 THEN open \cup {r} ELSE open
  /\ UNCHANGED released

----------------------------------------------------------------------------
(* The two releases. *)

\* Mutant: a release leaves no marker.
MutMarked(r) == FALSE

Marked(r) == r \in released
\* adjustOnce: nothing when the request's marker is there already.
Once(r, n, h, drop, deindex) ==
  IF Marked(r)
    THEN UNCHANGED <<counters, booking>>
    ELSE /\ released' = released \cup {r}
         /\ spent' = spent - n /\ hosts' = hosts - h
         /\ open' = open \ {r} /\ rec' = rec \ drop /\ index' = index \ deindex

\* Never signed: all counters and keys.
ReleaseUnsigned(r) == Once(r, 1, 1, {r}, {r})

\* Mutant: a reservation is given back as soon as it reads unused.
MutExpired(r, now) == TRUE

Expired(r, now) == now >= expires[r]
\* Expired and unused: the money counters; the host's and the nonce stay.
ReleaseUnused(r) == Once(r, 1, 0, {r}, {})

----------------------------------------------------------------------------
(* The loss ledger.  recordLoss writes the entry, the day's total and, for a    *)
(* loss that is not confirmed, the key releaseLoss looks for.  The first n of   *)
(* the writes after the entry are done.                                      *)

RecordLoss(r, confirmed, n) ==
  /\ loss' = IF n >= 1 THEN [loss EXCEPT ![r] = @ + 1] ELSE loss
  /\ lossRec' = IF n >= 2 /\ ~confirmed THEN lossRec \cup {r} ELSE lossRec

ReleaseLoss(r, n) ==
  IF r \notin lossRec
    THEN UNCHANGED losses
    ELSE /\ loss' = IF n >= 1 THEN [loss EXCEPT ![r] = @ - 1] ELSE loss
         /\ lossRec' = IF n >= 2 THEN lossRec \ {r} ELSE lossRec

----------------------------------------------------------------------------
(* The chain. *)

\* Signed at the end of the reservation, valid from its start.
SignTest(r) == test' = [test EXCEPT ![r] = "signed"]
LandTest(r, now) == /\ test[r] = "signed" /\ now < expires[r]
                    /\ test' = [test EXCEPT ![r] = "landed"]
=============================================================================

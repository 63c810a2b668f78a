------------------------ MODULE TableRegistryInvariants ------------------------
(***************************************************************************)
(* What is true between any two steps of the registry's operations: the    *)
(* inductive strengthening of the safety properties of TableRegistry, in   *)
(* named parts.  TLC checks them on small instances, and                   *)
(* TableRegistryProofs proves them for every instance.                     *)
(***************************************************************************)
EXTENDS TableRegistry

LocOK == loc \in [Workers -> Operation]

-----------------------------------------------------------------------------
(* Control: which operation is where, with which local variables set.        *)

SweepOps      == {"create", "sweep"}
TgtPcs        == {"get", "expire", "sweepIndex", "cmpRead", "cmpCounter", "cmpSubmit",
                  "staleSubmit"}
CreateOnlyPcs == {"fallback", "sweepQuery", "readCounter", "recount", "recountWrite",
                  "submit", "platform", "finRead", "finWrite"}
StalePcs      == {"staleNext", "staleSubmit"}
BatchPcs      == {"sweepNext", "sweepIndex", "decRead", "decWrite"}
CreatePcs     == {"platform", "finRead", "finWrite", "relRead", "relDelete"}
CompletePcs   == {"cmpRead", "cmpCounter", "cmpSubmit"}

ControlOf(l) ==
  /\ l.pc \in {"index", "unindex", "get"} => l.req \in Keys
  /\ l.pc = "expire" /\ l.op # "read" => l.req \in Keys
  /\ l.pc \in TgtPcs => l.tgt \in Inv
  /\ l.pc \in CreateOnlyPcs => l.op = "create"
  /\ l.pc \in {"relRead", "relDelete"} => l.op = "release"
  /\ l.pc \in CreatePcs \/ l.op = "create" => l.id \in Inv
  /\ l.pc \in {"sweepNext", "sweepIndex"} => l.op \in SweepOps
  /\ l.pc \in {"decRead", "decWrite"} => l.op \in SweepOps \cup {"release"}
  /\ l.pc = "submit" => l.cnt < Quota
  /\ l.pc = "recount" => l.cnt >= Quota
  /\ l.pc \in StalePcs <=> l.op = "stale"
  /\ l.pc \in CompletePcs => l.op = "complete"
  /\ l.op = "stale" => l.batch \subseteq Inv
  /\ l.batch # {} => l.pc \in BatchPcs \cup StalePcs

Control == \A w \in Workers : ControlOf(loc[w])

-----------------------------------------------------------------------------
(* Rows: what an operation knows of the rows it has in hand.                 *)

(* While the counter's ETag is current, the copy of the counter is exact. *)
CopyPcs == {"decWrite", "recount", "recountWrite", "submit", "cmpSubmit", "staleSubmit"}
Copies  == \A w \in Workers : Counter \in fresh[w] => loc[w].pc \in CopyPcs /\ loc[w].cnt = counter

DistinctIds == \A v, w \in Workers : v # w /\ loc[v].id # None => loc[w].id # loc[v].id

FreeRows == \A i \in Inv : state[i] = "free" =>
  age[i] = 0 /\ i \notin retained /\ \A k \in Keys : index[k] # i

(* Until the transaction commits, no row has the id of the new investigation. *)
Unborn == \A w \in Workers :
  loc[w].op = "create" /\ loc[w].pc \notin CreatePcs => state[loc[w].id] = "free"

Lapsing(i) == i \in Present /\ Expired(i)

(* What an operation learned from a row stays true while its ETag does. *)
HeldBy(w) ==
  /\ loc[w].op \in SweepOps => \A i \in loc[w].batch \cap fresh[w] \cap Inv :
       Lapsing(i) /\ (i \in loc[w].slots => i \in Open)
  /\ loc[w].pc = "expire" /\ loc[w].tgt \in fresh[w] => Lapsing(loc[w].tgt)
  /\ loc[w].op = "stale" =>
       \A i \in (loc[w].batch \cup {loc[w].tgt}) \cap fresh[w] : i \in Inv => i \in Uncertain
  /\ loc[w].pc \in CompletePcs => state[loc[w].tgt] \notin {"free", "reserved"}
  /\ loc[w].pc \in {"cmpCounter", "cmpSubmit"} /\ loc[w].tgt \in fresh[w] => loc[w].tgt \in Open
  /\ loc[w].pc = "relDelete" /\ loc[w].id \in fresh[w] => state[loc[w].id] = "reserved"
Held == \A w \in Workers : HeldBy(w)

(* Between the reservation and its settlement nobody else moves the record,  *)
(* unless its finalize was applied and the answer lost.  This is where an    *)
(* operation slower than the grace period breaks the code.                   *)
Settling == \A w \in Workers : loc[w].pc \in CreatePcs =>
  /\ age[loc[w].id] = 0 /\ loc[w].id \in loc[w].recent
  /\ state[loc[w].id] # "reserved" => loc[w].pc \in {"finRead", "finWrite"} /\ loc[w].id \in doubtful

(* Until the platform is asked, its answer cannot be waited for. *)
Unasked ==
  /\ \A i \in Inv : state[i] = "free" => i \notin asked
  /\ \A w \in Workers : loc[w].pc \in {"platform", "relRead", "relDelete"}
       => loc[w].id \notin asked
  /\ \A w \in Workers : loc[w].pc \in CreatePcs => state[loc[w].id] # "free"

-----------------------------------------------------------------------------
(* Keyed: what an operation about to delete an index row knows of its key.   *)

FreeKeys == \A i \in Inv : state[i] = "free" => keyOf[i] = None

KnownBy(w) ==
  /\ loc[w].pc = "get" => keyOf[loc[w].tgt] = loc[w].req
  /\ loc[w].pc = "expire" =>
       age[loc[w].tgt] >= 2 /\ (loc[w].op # "read" => keyOf[loc[w].tgt] = loc[w].req)
  /\ loc[w].pc = "unindex" => Spent(loc[w].req)
  /\ loc[w].pc = "sweepIndex" => age[loc[w].tgt] >= 2
  /\ loc[w].op \in SweepOps =>
       /\ loc[w].batch \cap fresh[w] \cap Keys \subseteq StaleIndex
       /\ \A i \in loc[w].batch \cap Inv : age[i] >= 2
  /\ loc[w].pc = "finWrite" /\ loc[w].id \in fresh[w] => loc[w].id \in Present
Known == \A w \in Workers : KnownBy(w)

Keyed == FreeKeys /\ KeyKeepsItsRecord /\ Known

-----------------------------------------------------------------------------
(* Counts: the counter against the rows.                                     *)

(* A recount still to be written saw every held slot, but for the slips. *)
Tallies == \A w \in Workers :
  ~blind /\ loc[w].pc = "recountWrite" /\ Counter \in fresh[w]
    => loc[w].tally + slips >= Cardinality(Open) + Cardinality(owing)

Counts == CounterCovers /\ Tallies /\ QuotaHonoured

Structure == TypeOK /\ Control /\ Copies
Rows      == DistinctIds /\ FreeRows /\ Unborn /\ Held

(* The inductive invariant.  Settling needs that no operation outlasts the   *)
(* gap between two deadlines of a row.                                       *)
IndInv ==
  /\ Structure /\ Rows /\ IndexAgrees /\ Keyed /\ Unasked /\ Counts
  /\ ~SlowOperations => Settling /\ (~SilentDeletes => NothingSlips)
=============================================================================

------------------------------ MODULE BlobStore ------------------------------
(***************************************************************************)
(* BadgerStore: records in the Badger database name body files under       *)
(* blobs/, and every operation touches the two in separate steps.  A body  *)
(* is born as a temporary file (streamFill, Fetch), is renamed into blobs/ *)
(* (ImportBody), is named by a record (PutEntry, PutChunk) and is removed  *)
(* by whoever finds it replaced or deleted.  A transaction is atomic; the  *)
(* process may die between any two steps and the store is then opened      *)
(* again (NewBadgerStore, pruneOrphanBodies).                              *)
(*                                                                         *)
(* A key stands for a "resp|" or "rchunk|" key, which the store treats     *)
(* alike.  Records are abstracted to the body they name.                   *)
(***************************************************************************)
EXTENDS Naturals

CONSTANTS Proc,    \* goroutines that call the store
          Key,     \* record keys
          Body,    \* base names of body files
          None,    \* no record, no body
          Ops,     \* the operations callers use
          Faults   \* what may go wrong

AllOps == {"fill", "reuse", "delete", "read"}

\* expire: Badger drops a record whose TTL has passed.   crash: the process dies.
\* late:   InvalidAt has passed already when PutEntry writes the record.
\* remove: os.Remove fails other than with ErrNotExist.
\* name:   os.CreateTemp chooses, at random, a name that is free in tmp/ but
\*         already used in blobs/; ImportBody keeps the base name.
AllFaults == {"expire", "crash", "late", "remove", "name"}

ASSUME NoneIsNotABody == None \notin Body
ASSUME KnownOps == Ops \subseteq AllOps /\ Faults \subseteq AllFaults

VARIABLES db,      \* db[k]: the body the record of k names, or None: no record
          bodies,  \* names of the files in blobs/
          temps,   \* names of the files in tmp/
          used,    \* names ever given out
          phase,   \* "up", "down", or while opening: "prune", then "tidy"
          kept,    \* pruneOrphanBodies' referenced: names seen in records
          left,    \* files that the opening has yet to look at
          at,      \* at[p]: the step p is about to take
          kind,    \* kind[p]: whether p stores a new body or one already stored
          key,     \* key[p]: the key p writes
          new,     \* new[p]: the body p imports, stores, undoes or reads
          keys,    \* keys[p]: the keys p deletes
          doomed,  \* doomed[p]: bodies p read from records and will remove
          born,    \* history: names given out since the process started
          risked   \* history: bodies that a revalidation put back, or whose
                   \* PutEntry failed after its transaction

disk == <<bodies, temps, used>>
opening == <<phase, kept, left>>
local == <<at, kind, key, new, keys, doomed>>
history == <<born, risked>>
vars == <<db, disk, opening, local, history>>

Steps ==
  {"idle", "temp", "put", "update", "unlink", "undo", "delete", "sweep", "reading"}

Init ==
  /\ db = [k \in Key |-> None]
  /\ bodies = {}
  /\ temps = {}
  /\ used = {}
  /\ phase = "up"
  /\ kept = {}
  /\ left = {}
  /\ at = [p \in Proc |-> "idle"]
  /\ kind = [p \in Proc |-> "fill"]
  /\ key = [p \in Proc |-> None]
  /\ new = [p \in Proc |-> None]
  /\ keys = [p \in Proc |-> {}]
  /\ doomed = [p \in Proc |-> {}]
  /\ born = {}
  /\ risked = {}

\* Where a goroutine has a body in hand.
Holding == {"temp", "put", "update", "unlink", "undo"}

Goto(p, s) == at' = [at EXCEPT ![p] = s]

Referenced == {db[k] : k \in Key} \ {None}

-----------------------------------------------------------------------------
(* A fill: temporary file, import, PutEntry *)

FreshInTmp(b) == b \notin temps  \* mutant: names repeat, as a counter reset at start would

FreshName(b) == b \notin temps /\ (b \notin used \/ "name" \in Faults)

\* streamFill and Fetch: os.CreateTemp.
NewTemp(p, k, b) ==
  /\ phase = "up" /\ at[p] = "idle" /\ "fill" \in Ops
  /\ FreshName(b)
  /\ temps' = temps \cup {b}
  /\ used' = used \cup {b}
  /\ Goto(p, "temp")
  /\ kind' = [kind EXCEPT ![p] = "fill"]
  /\ key' = [key EXCEPT ![p] = k]
  /\ new' = [new EXCEPT ![p] = b]
  /\ born' = born \cup {b}
  /\ UNCHANGED <<db, bodies, opening, keys, doomed, risked>>

\* AbortFill, or CompleteFill decides not to store: cleanupResponsePath.
DiscardTemp(p) ==
  /\ phase = "up" /\ at[p] = "temp"
  /\ temps' = temps \ {new[p]}
  /\ Goto(p, "idle")
  /\ UNCHANGED <<db, bodies, used, opening, kind, key, new, keys, doomed, history>>

\* ImportBody fails (the request's context is cancelled, say): CompleteFill
\* returns the error and nobody removes the temporary file.
ImportFails(p) ==
  /\ phase = "up" /\ at[p] = "temp"
  /\ Goto(p, "idle")
  /\ UNCHANGED <<db, disk, opening, kind, key, new, keys, doomed, history>>

ImportsNothing(p) ==  \* mutant: the rename is forgotten
  /\ phase = "up" /\ at[p] = "temp"
  /\ Goto(p, "put")
  /\ UNCHANGED <<db, disk, opening, kind, key, new, keys, doomed, history>>

\* os.Rename replaces whatever file has that name in blobs/.
ImportBody(p) ==
  /\ phase = "up" /\ at[p] = "temp"
  /\ temps' = temps \ {new[p]}
  /\ bodies' = bodies \cup {new[p]}
  /\ Goto(p, "put")
  /\ UNCHANGED <<db, used, opening, kind, key, new, keys, doomed, history>>

\* TouchChunkPrefix and completeRevalidation put back a record that names the
\* body of the record they read some time ago, the latter perhaps under another
\* key: that of the revalidating request (updatedKey).
Reuse(p, k, to) ==
  /\ phase = "up" /\ at[p] = "idle" /\ "reuse" \in Ops
  /\ db[k] # None
  /\ Goto(p, "put")
  /\ kind' = [kind EXCEPT ![p] = "reuse"]
  /\ key' = [key EXCEPT ![p] = to]
  /\ new' = [new EXCEPT ![p] = db[k]]
  /\ UNCHANGED <<db, disk, opening, keys, doomed, history>>

PutReadUnchecked(p) ==  \* mutant: removes an empty path when there was no record
  /\ phase = "up" /\ at[p] = "put"
  /\ doomed' = [doomed EXCEPT ![p] = {db[key[p]]} \ {new[p]}]
  /\ Goto(p, "update")
  /\ UNCHANGED <<db, disk, opening, kind, key, new, keys, history>>

\* PutEntry: the record there now names a body that will have to go.
PutRead(p) ==
  /\ phase = "up" /\ at[p] = "put"
  /\ doomed' = [doomed EXCEPT ![p] = {db[key[p]]} \ {None, new[p]}]
  /\ Goto(p, "update")
  /\ UNCHANGED <<db, disk, opening, kind, key, new, keys, history>>

OnErrorAlways(p) == "undo"  \* mutant: a revalidation cleans up as a fill does

\* What the caller of PutEntry does about an error: CompleteFill and
\* fetchAndMaybeStoreChunk remove the new body, completeRevalidation and
\* TouchChunkPrefix do nothing.
OnError(p) == IF kind[p] = "fill" THEN "undo" ELSE "idle"

\* PutEntry fails before its transaction commits.
PutFails(p) ==
  /\ phase = "up" /\ at[p] \in {"put", "update"}
  /\ Goto(p, OnError(p))
  /\ UNCHANGED <<db, disk, opening, kind, key, new, keys, doomed, history>>

\* PutEntry's transaction: sets the record, or deletes the key when InvalidAt
\* has passed already.
PutCommit(p, expired) ==
  /\ phase = "up" /\ at[p] = "update"
  /\ expired => "late" \in Faults
  /\ db' = [db EXCEPT ![key[p]] = IF expired THEN None ELSE new[p]]
  /\ Goto(p, "unlink")
  /\ risked' = IF kind[p] = "reuse" THEN risked \cup {new[p]} ELSE risked
  /\ UNCHANGED <<disk, opening, kind, key, new, keys, doomed, born>>

UnlinksCurrent(p) ==  \* mutant: reads what to remove after the transaction
  /\ phase = "up" /\ at[p] = "unlink"
  /\ bodies' = bodies \ {db[key[p]]}
  /\ Goto(p, "idle")
  /\ UNCHANGED <<db, temps, used, opening, kind, key, new, keys, doomed, history>>

\* PutEntry removes the replaced body.
Unlink(p) ==
  /\ phase = "up" /\ at[p] = "unlink"
  /\ bodies' = bodies \ doomed[p]
  /\ Goto(p, "idle")
  /\ UNCHANGED <<db, temps, used, opening, kind, key, new, keys, doomed, history>>

\* removeBodyPath fails: PutEntry returns an error although it has committed.
UnlinkFails(p) ==
  /\ phase = "up" /\ at[p] = "unlink" /\ "remove" \in Faults
  /\ doomed[p] \cap bodies # {}
  /\ Goto(p, OnError(p))
  /\ risked' = risked \cup {new[p]}
  /\ UNCHANGED <<db, disk, opening, kind, key, new, keys, doomed, born>>

\* CompleteFill after a failed storeResponse: cleanupResponsePath.
Undo(p) ==
  /\ phase = "up" /\ at[p] = "undo"
  /\ bodies' = bodies \ {new[p]}
  /\ Goto(p, "idle")
  /\ UNCHANGED <<db, temps, used, opening, kind, key, new, keys, doomed, history>>

-----------------------------------------------------------------------------
(* Delete and DeletePrefix *)

DeleteRemovesFirst(p, k) ==  \* mutant: removes the body before the record
  /\ phase = "up" /\ at[p] = "idle" /\ "delete" \in Ops
  /\ keys' = [keys EXCEPT ![p] = {k}]
  /\ doomed' = [doomed EXCEPT ![p] = {}]
  /\ bodies' = bodies \ {db[k]}
  /\ Goto(p, "delete")
  /\ UNCHANGED <<db, temps, used, opening, kind, key, new, history>>

\* Delete reads the record of one key, and deletes the key in any case.
DeleteRead(p, k) ==
  /\ phase = "up" /\ at[p] = "idle" /\ "delete" \in Ops
  /\ keys' = [keys EXCEPT ![p] = {k}]
  /\ doomed' = [doomed EXCEPT ![p] = {db[k]} \ {None}]
  /\ Goto(p, "delete")
  /\ UNCHANGED <<db, disk, opening, kind, key, new, history>>

\* DeletePrefix collects, in one View, the keys that are there and their bodies.
PrefixRead(p, prefix) ==
  /\ phase = "up" /\ at[p] = "idle" /\ "delete" \in Ops
  /\ \E k \in prefix : db[k] # None
  /\ keys' = [keys EXCEPT ![p] = {k \in prefix : db[k] # None}]
  /\ doomed' = [doomed EXCEPT ![p] = {db[k] : k \in prefix} \ {None}]
  /\ Goto(p, "delete")
  /\ UNCHANGED <<db, disk, opening, kind, key, new, history>>

DeleteCommit(p) ==
  /\ phase = "up" /\ at[p] = "delete"
  /\ db' = [k \in Key |-> IF k \in keys[p] THEN None ELSE db[k]]
  /\ Goto(p, "sweep")
  /\ UNCHANGED <<disk, opening, kind, key, new, keys, doomed, history>>

\* One body after the other; errors are ignored.
Sweep(p, b) ==
  /\ phase = "up" /\ at[p] = "sweep"
  /\ b \in doomed[p]
  /\ \/ bodies' = bodies \ {b}
     \/ "remove" \in Faults /\ UNCHANGED bodies
  /\ doomed' = [doomed EXCEPT ![p] = @ \ {b}]
  /\ UNCHANGED <<db, temps, used, opening, at, kind, key, new, keys, history>>

SweepDone(p) ==
  /\ phase = "up" /\ at[p] = "sweep"
  /\ doomed[p] = {}
  /\ Goto(p, "idle")
  /\ UNCHANGED <<db, disk, opening, kind, key, new, keys, doomed, history>>

-----------------------------------------------------------------------------
(* A hit: Start returns the path of the body, writeResult opens it later *)

HitRead(p, k) ==
  /\ phase = "up" /\ at[p] = "idle" /\ "read" \in Ops
  /\ db[k] # None
  /\ new' = [new EXCEPT ![p] = db[k]]
  /\ Goto(p, "reading")
  /\ UNCHANGED <<db, disk, opening, kind, key, keys, doomed, history>>

HitOpen(p) ==
  /\ phase = "up" /\ at[p] = "reading"
  /\ Goto(p, "idle")
  /\ UNCHANGED <<db, disk, opening, kind, key, new, keys, doomed, history>>

-----------------------------------------------------------------------------
(* Expiry, crash, and opening again *)

Expire(k) ==
  /\ "expire" \in Faults
  /\ db[k] # None
  /\ db' = [db EXCEPT ![k] = None]
  /\ UNCHANGED <<disk, opening, local, history>>

\* The process is gone, and with it whatever its goroutines were about to do.
Dies ==
  /\ phase' = "down"
  /\ at' = [p \in Proc |-> "idle"]
  /\ kind' = [p \in Proc |-> "fill"]
  /\ key' = [p \in Proc |-> None]
  /\ new' = [p \in Proc |-> None]
  /\ keys' = [p \in Proc |-> {}]
  /\ doomed' = [p \in Proc |-> {}]
  /\ kept' = {}
  /\ left' = {}
  /\ born' = {}
  /\ UNCHANGED <<db, disk, risked>>

Crash == "crash" \in Faults /\ phase # "down" /\ Dies

\* NewBadgerStore: pruneOrphanBodies first collects every name in a record,
PruneStart ==
  /\ phase = "down"
  /\ phase' = "prune"
  /\ kept' = Referenced
  /\ left' = bodies
  /\ UNCHANGED <<db, disk, local, history>>

\* then walks blobs/ and removes every other file.
PruneBody(b) ==
  /\ phase = "prune"
  /\ b \in left
  /\ left' = left \ {b}
  /\ bodies' = bodies \ ({b} \ kept)
  /\ UNCHANGED <<db, temps, used, phase, kept, local, history>>

PruneCutShort ==  \* mutant: the walk may end before it has seen every file
  /\ phase = "prune"
  /\ phase' = "tidy"
  /\ left' = temps
  /\ UNCHANGED <<db, disk, kept, local, history>>

PruneDone ==
  /\ phase = "prune"
  /\ left = {}
  /\ phase' = "tidy"
  /\ left' = temps
  /\ UNCHANGED <<db, disk, kept, local, history>>

\* newUpstreamFetcher empties tmp/ (cleanupDirectoryFiles),
TidyTemp(b) ==
  /\ phase = "tidy"
  /\ b \in left
  /\ left' = left \ {b}
  /\ temps' = temps \ {b}
  /\ UNCHANGED <<db, bodies, used, phase, kept, local, history>>

\* and the router serves.
Opened ==
  /\ phase = "tidy"
  /\ left = {}
  /\ phase' = "up"
  /\ UNCHANGED <<db, disk, kept, left, local, history>>

\* A removal fails: NewRouter returns the error and main exits.
OpeningFails ==
  /\ "remove" \in Faults
  /\ \/ phase = "prune" /\ left \ kept # {}
     \/ phase = "tidy" /\ left # {}
  /\ Dies

-----------------------------------------------------------------------------
Put(p) ==
  \/ PutRead(p)
  \/ PutFails(p)
  \/ \E expired \in BOOLEAN : PutCommit(p, expired)
  \/ Unlink(p)
  \/ UnlinkFails(p)
  \/ Undo(p)

Fill(p) ==
  \/ \E k \in Key, b \in Body : NewTemp(p, k, b)
  \/ DiscardTemp(p)
  \/ ImportFails(p)
  \/ ImportBody(p)
  \/ \E k, to \in Key : Reuse(p, k, to)

Remove(p) ==
  \/ \E k \in Key : DeleteRead(p, k)
  \/ \E prefix \in SUBSET Key : PrefixRead(p, prefix)
  \/ DeleteCommit(p)
  \/ \E b \in Body : Sweep(p, b)
  \/ SweepDone(p)

Hit(p) == (\E k \in Key : HitRead(p, k)) \/ HitOpen(p)

Restart ==
  \/ Crash
  \/ PruneStart
  \/ \E b \in Body : PruneBody(b)
  \/ PruneDone
  \/ \E b \in Body : TidyTemp(b)
  \/ Opened
  \/ OpeningFails

Next ==
  \/ \E p \in Proc : Fill(p) \/ Put(p) \/ Remove(p) \/ Hit(p)
  \/ \E k \in Key : Expire(k)
  \/ Restart

Spec == Init /\ [][Next]_vars

-----------------------------------------------------------------------------
(* Properties *)

\* Every variable has its type.
TypeOK ==
  /\ db \in [Key -> Body \cup {None}]
  /\ bodies \in SUBSET Body /\ temps \in SUBSET Body /\ used \in SUBSET Body
  /\ phase \in {"up", "down", "prune", "tidy"}
  /\ kept \in SUBSET Body /\ left \in SUBSET Body
  /\ at \in [Proc -> Steps]
  /\ kind \in [Proc -> {"fill", "reuse"}]
  /\ key \in [Proc -> Key \cup {None}]
  /\ new \in [Proc -> Body \cup {None}]
  /\ \A p \in Proc : at[p] \in Holding =>
       key[p] \in Key /\ new[p] \in Body
  /\ keys \in [Proc -> SUBSET Key]
  /\ doomed \in [Proc -> SUBSET Body]
  /\ born \in SUBSET Body /\ risked \in SUBSET Body

\* A record never names a body file that is not there, whatever callers run at
\* the same time and wherever the process dies: import before the transaction
\* that names the body, removal only after the one that drops it (PutEntry,
\* Delete, DeletePrefix, pruneOrphanBodies, CompleteFill's cleanup).
EntryHasBody == Referenced \subseteq bodies

\* Two records never share a body: removing the one's body would take the
\* other's away (ImportBody keeps the temporary file's base name).
BodiesNotShared ==
  \A k, l \in Key : db[k] = db[l] /\ db[k] # None => k = l

\* Removing a body never takes it from a record that names it, in the same step
\* or before (the removals of PutEntry, Delete, DeletePrefix and the prune all
\* act on what they read earlier).
RemovesOnlyOrphans ==
  [][(bodies \ bodies') \cap Referenced' = {}]_vars

\* What can go wrong stays with its cause: a record names a body that is not
\* there only if a revalidation has put that very body back (it may have been
\* replaced or purged meanwhile), or if PutEntry reported an error for it after
\* its transaction, so that CompleteFill removed what the record names.  No
\* crash, expiry, delete, prune or other failure costs any other record its body.
DamageIsConfined == Referenced \ risked \subseteq bodies

\* Leaks last until the next start at most: while the store is up, a file that
\* an earlier process left is there only if a record named it at the opening.
OrphansAreNew ==
  phase = "up" => bodies \subseteq kept \cup born /\ temps \subseteq born

-----------------------------------------------------------------------------
(* The inductive invariant, for names that are not given out twice           *)

\* Names are fresh, os.CreateTemp's random choice never hits one in blobs/.
NamesAreFresh == "name" \notin Faults

\* Callers store only bodies of their own, and removals do not fail.
OwnBodiesOnly ==
  /\ "reuse" \notin Ops
  /\ "remove" \notin Faults

\* p has a new body in hand that no transaction has published.
Writing(p) ==
  /\ kind[p] = "fill"
  /\ at[p] \in {"temp", "put", "update", "undo"}
  /\ new[p] \notin risked

\* A body on its way into the store is on disk, no record names it, nobody
\* else works with it and nobody means to remove it.
NewIsPrivate ==
  \A p \in Proc : Writing(p) =>
    /\ new[p] \in used
    /\ new[p] \notin Referenced
    /\ \A q \in Proc : new[p] \notin doomed[q]
    /\ \A q \in Proc : at[q] \in Holding /\ new[q] = new[p] => q = p
    /\ at[p] \in {"put", "update"} => new[p] \in bodies

\* Only the body of a revalidation, or of an error after the transaction, is in
\* the hands of a caller that did not bring it.
UndoesOwn ==
  \A p \in Proc :
    /\ at[p] = "temp" \/ at[p] = "undo" => kind[p] = "fill"
    /\ at[p] \in {"temp", "put", "update"} /\ kind[p] = "fill" => new[p] \notin risked

\* Records share no body that has not been put back.
SharedIsRisked ==
  \A k, l \in Key : db[k] = db[l] /\ db[k] \notin risked \cup {None} => k = l

\* Before its transaction, what a caller means to remove is named by no record
\* that the transaction leaves alone; after it, by no record at all.
DoomedIsOwn ==
  \A p \in Proc :
    /\ at[p] = "update" => \A k \in Key : db[k] \in doomed[p] \ risked => k = key[p]
    /\ at[p] = "delete" => \A k \in Key : db[k] \in doomed[p] \ risked => k \in keys[p]
    /\ at[p] \in {"unlink", "sweep"} => (doomed[p] \ risked) \cap Referenced = {}

\* Names in use have been given out.
NamesUsed ==
  /\ Referenced \subseteq used /\ risked \subseteq used
  /\ \A p \in Proc : /\ doomed[p] \subseteq used
                     /\ at[p] \in Holding => new[p] \in used

\* While the store opens, every record's body is among those to keep.
KeptCoversRecords == phase = "prune" => Referenced \subseteq kept

\* Nobody works with the store while it is closed.
IdleUnlessUp == phase # "up" => \A p \in Proc : at[p] = "idle"

\* Nothing is at risk unless callers put bodies back or removals fail.
RiskIsTaken ==
  /\ "reuse" \notin Ops => \A p \in Proc : kind[p] = "fill"
  /\ OwnBodiesOnly => risked = {}

\* The strengthening the safety properties need, preserved by every step.
IInv ==
  /\ TypeOK
  /\ DamageIsConfined
  /\ SharedIsRisked
  /\ NewIsPrivate
  /\ UndoesOwn
  /\ DoomedIsOwn
  /\ NamesUsed
  /\ KeptCoversRecords
  /\ IdleUnlessUp
  /\ RiskIsTaken

\* What OrphansAreNew rests on, with any callers and faults: the opening looks
\* at every file, and what a caller imports was born in its own process.
OpeningInv ==
  /\ OrphansAreNew
  /\ phase = "prune" => bodies \subseteq kept \cup left
  /\ phase = "tidy" => bodies \subseteq kept /\ temps \subseteq left
  /\ DOMAIN at = Proc /\ DOMAIN new = Proc
  /\ \A p \in Proc : at[p] = "temp" => new[p] \in born
  /\ IdleUnlessUp
=============================================================================

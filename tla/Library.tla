------------------------------ MODULE Library ------------------------------
(***************************************************************************)
(* Uploads, idempotency keys, deletion and the trash: the life of an       *)
(* uploaded file outside the ingestion pipeline.                           *)
(*                                                                         *)
(*   services/idempotency.py    the key of a request and its replay        *)
(*   api/v1/documents.py        upload_document and _do_upload             *)
(*   services/ingest.py         submit: deduplicate, store, register       *)
(*   services/lifecycle.py      delete, restore, drop, purge               *)
(*                                                                         *)
(* An original is stored under the hash of its content, once for all       *)
(* knowledge bases; a document row belongs to one knowledge base; the path *)
(* of its original is a setting of its own.  Rows, settings and objects    *)
(* are in three stores with no transaction across them, so every call is a *)
(* step.  Uploads over HTTP run on the event loop and never overlap each   *)
(* other; imports, deletions, restores and the maintenance run on threads. *)
(***************************************************************************)
EXTENDS Naturals, Sequences

CONSTANTS
    Kbs,        \* knowledge bases
    Contents,   \* contents of files (their SHA-256)
    Keys,       \* idempotency keys a client may send
    Imports,    \* threads that submit without a key (sources, tools, notes)
    Threads,    \* threads that delete, restore, drop and purge
    Nothing,    \* no key, no answer, no object, no setting
    MaxDocs,    \* bound: documents ever created
    MaxTrash,   \* bound: entries in the trash at a time
    MaxFaults   \* bound: crashes and failed database calls

ASSUME LibraryAssumption ==
    /\ Nothing \notin Keys \union Contents \union Kbs \union Nat
    /\ Nothing \notin [asked : [kb : Kbs, hash : Contents], answer : Nat \union {Nothing}]
    /\ "request" \notin Imports
    /\ MaxDocs \in Nat /\ MaxTrash \in Nat /\ MaxFaults \in Nat

Uploaders == {"request"} \union Imports

VARIABLES
    kbs,        \* knowledge bases that exist
    docs,       \* documents ever created, in order: their base and content
    rows,       \* the documents that have a row
    paths,      \* the documents whose original_path setting is recorded
    originals,  \* contents under originals/ in the object store
    trash,      \* places for entries: the object, its row, its base setting
    keys,       \* what each key was used for, and the answer hung on it
    up,         \* the upload each uploader runs, or its answer under a key
    ops,        \* the operation each thread runs
    faults,     \* crashes and failed calls so far
    stored,     \* history: contents ever written
    discarded,  \* history: contents thrown away, or expired, since last written
    torn,       \* history: trash entries an operation was cut off at
    stuck       \* history: keys a fault left without an answer

files == <<kbs, docs, rows, paths, originals, trash, stored, discarded>>
vars == <<files, keys, up, ops, faults, torn, stuck>>

Docs == 1..Len(docs)
Entries == 1..MaxTrash
Blank == [object |-> Nothing, listed |-> FALSE, base |-> Nothing]

Idle == [at |-> "idle"]

\* get_document_by_hash: the row of this content in this knowledge base.
Having(kb, h) == {d \in rows : docs[d] = [kb |-> kb, hash |-> h]}

Init ==
    /\ kbs = Kbs
    /\ docs = <<>> /\ rows = {} /\ paths = {}
    /\ originals = {} /\ trash = [e \in Entries |-> Blank]
    /\ keys = [k \in Keys |-> Nothing]
    /\ up = [u \in Uploaders |-> Idle]
    /\ ops = [t \in Threads |-> Idle]
    /\ faults = 0
    /\ stored = {} /\ discarded = {} /\ torn = {} /\ stuck = {}

-----------------------------------------------------------------------------
(* Steps on the stores that several operations share. *)

StoreOriginal(h) ==
    /\ originals' = originals \union {h}
    /\ stored' = stored \union {h}
    /\ discarded' = discarded \ {h}
    /\ UNCHANGED <<kbs, docs, rows, paths, trash>>

\* Mutant: The row is only refused for its content.
CreatableAnywhere(kb, h) == Having(kb, h) = {}

\* create_document: refused when the base is gone (foreign key) or has the
\* content already (UNIQUE).
Creatable(kb, h) == kb \in kbs /\ Having(kb, h) = {}

CreateRow(kb, h) ==
    /\ Len(docs) < MaxDocs
    /\ docs' = Append(docs, [kb |-> kb, hash |-> h])
    /\ rows' = rows \union {Len(docs) + 1}
    /\ UNCHANGED <<kbs, paths, originals, trash, stored, discarded>>

RecordPath(d) ==
    /\ paths' = paths \union {d}
    /\ UNCHANGED <<kbs, docs, rows, originals, trash, stored, discarded>>

-----------------------------------------------------------------------------
(* Upload. *)

Running(u) == up[u].at \notin {"idle", "told"}

\* The event loop runs one upload to its end; an import is one thread.
Free(u) == ~Running(u)

Advance(u, at) == up' = [up EXCEPT ![u].at = at]

Uploading(key, kb, h, at, d) ==
    [at |-> at, key |-> key, asked |-> [kb |-> kb, hash |-> h], doc |-> d]

\* Mutant: The key is taken for proof that the request is the same.
JudgedByKey(key, asked) == keys[key].answer

\* begin found the key taken: refuse another content and a request that is
\* still running, replay the answer otherwise.
Judged(key, asked) ==
    IF keys[key].asked # asked THEN Nothing ELSE keys[key].answer

\* begin takes the key, or the answer under it is replayed, or 409.
Receive(u, key, kb, h) ==
    /\ Free(u)
    /\ u \in Imports => key = Nothing
    /\ LET asked == [kb |-> kb, hash |-> h] IN
       IF key = Nothing \/ keys[key] = Nothing
       THEN /\ up' = [up EXCEPT ![u] = Uploading(key, kb, h, "look", 0)]
            /\ keys' = IF key = Nothing THEN keys ELSE
                       [keys EXCEPT ![key] = [asked |-> asked, answer |-> Nothing]]
       ELSE /\ UNCHANGED keys
            /\ up' = [up EXCEPT ![u] =
                       IF Judged(key, asked) = Nothing THEN Idle
                       ELSE Uploading(key, kb, h, "told", Judged(key, asked))]
    /\ UNCHANGED <<files, ops, faults, torn, stuck>>

\* submit: the base must exist; a content it has already is a duplicate.
Look(u) ==
    /\ up[u].at = "look"
    /\ LET had == Having(up[u].asked.kb, up[u].asked.hash) IN
       \/ /\ up[u].asked.kb \notin kbs
          /\ Advance(u, "release")
       \/ /\ up[u].asked.kb \in kbs /\ had = {}
          /\ Advance(u, "write")
       \/ /\ up[u].asked.kb \in kbs
          /\ \E d \in had : up' = [up EXCEPT ![u].at = "complete", ![u].doc = d]
    /\ UNCHANGED <<files, keys, ops, faults, torn, stuck>>

Write(u) ==
    /\ up[u].at = "write"
    /\ StoreOriginal(up[u].asked.hash)
    /\ Advance(u, "create")
    /\ UNCHANGED <<keys, ops, faults, torn, stuck>>

\* Mutant: Only a failure to queue gives the key back.
CreateOrGiveUp(u) ==
    /\ up[u].at = "create"
    /\ LET asked == up[u].asked IN
       \/ /\ Creatable(asked.kb, asked.hash)
          /\ CreateRow(asked.kb, asked.hash)
          /\ up' = [up EXCEPT ![u].at = "path", ![u].doc = Len(docs) + 1]
       \/ /\ ~Creatable(asked.kb, asked.hash)
          /\ up' = [up EXCEPT ![u] = Idle]
          /\ UNCHANGED files
    /\ UNCHANGED <<keys, ops, faults, torn, stuck>>

Create(u) ==
    /\ up[u].at = "create"
    /\ LET asked == up[u].asked IN
       \/ /\ Creatable(asked.kb, asked.hash)
          /\ CreateRow(asked.kb, asked.hash)
          /\ up' = [up EXCEPT ![u].at = "path", ![u].doc = Len(docs) + 1]
       \/ /\ ~Creatable(asked.kb, asked.hash)
          /\ Advance(u, "release")
          /\ UNCHANGED files
    /\ UNCHANGED <<keys, ops, faults, torn, stuck>>

SetPath(u) ==
    /\ up[u].at = "path"
    /\ RecordPath(up[u].doc)
    /\ Advance(u, "enqueue")
    /\ UNCHANGED <<keys, ops, faults, torn, stuck>>

\* enqueue_ingest reads the document first: NotFoundError when a deletion was
\* faster.
Enqueue(u) ==
    /\ up[u].at = "enqueue"
    /\ Advance(u, IF up[u].doc \in rows THEN "complete" ELSE "release")
    /\ UNCHANGED <<files, keys, ops, faults, torn, stuck>>

\* Any step of the upload may raise instead; what was stored before stays.
Fail(u) ==
    /\ up[u].at \in {"look", "write", "create", "path", "enqueue"}
    /\ faults < MaxFaults
    /\ faults' = faults + 1
    /\ Advance(u, "release")
    /\ UNCHANGED <<files, keys, ops, torn, stuck>>

\* save_idempotent_response updates the row if it is there; an error is
\* swallowed.  The answer goes out either way.
Complete(u) ==
    /\ up[u].at = "complete"
    /\ LET key == up[u].key IN
       \/ /\ key \in Keys
          /\ keys' = IF keys[key] = Nothing THEN keys
                     ELSE [keys EXCEPT ![key].answer = up[u].doc]
          /\ UNCHANGED <<faults, stuck>>
       \/ /\ key \in Keys /\ faults < MaxFaults
          /\ faults' = faults + 1
          /\ stuck' = stuck \union {key}
          /\ UNCHANGED keys
       \/ key = Nothing /\ UNCHANGED <<keys, faults, stuck>>
    /\ up' = [up EXCEPT ![u] = IF @.key = Nothing THEN Idle ELSE [@ EXCEPT !.at = "told"]]
    /\ UNCHANGED <<files, ops, torn>>

\* The exception handler of upload_document; only a key without an answer goes.
\* An error of the release is swallowed too, and the key stays taken.
Release(u) ==
    /\ up[u].at = "release"
    /\ \/ /\ keys' = [k \in Keys |->
                       IF k = up[u].key /\ keys[k] # Nothing /\ keys[k].answer = Nothing
                       THEN Nothing ELSE keys[k]]
          /\ UNCHANGED <<faults, stuck>>
       \/ /\ up[u].key \in Keys /\ faults < MaxFaults
          /\ faults' = faults + 1
          /\ stuck' = stuck \union {up[u].key}
          /\ UNCHANGED keys
    /\ up' = [up EXCEPT ![u] = Idle]
    /\ UNCHANGED <<files, ops, torn>>

\* purge_expired: keys older than a day.  No request runs for a day.
PurgeKey(k) ==
    /\ keys[k] # Nothing
    /\ \A u \in Uploaders : Running(u) => up[u].key # k
    /\ keys' = [keys EXCEPT ![k] = Nothing]
    /\ stuck' = stuck \ {k}
    /\ UNCHANGED <<files, up, ops, faults, torn>>

-----------------------------------------------------------------------------
(* Deletion of a document. *)

Op(t, kind, at) == ops[t].at = at /\ ops[t].kind = kind
Step(t, at) == ops' = [ops EXCEPT ![t].at = at]
Done(t) == ops' = [ops EXCEPT ![t] = Idle]
Quiet == UNCHANGED <<keys, up, faults, torn, stuck>>

\* delete_document reads the row, then clears index and vectors.
DeleteDocument(t, d) ==
    /\ ops[t] = Idle
    /\ d \in rows
    /\ ops' = [ops EXCEPT ![t] = [kind |-> "delete", at |-> "move", doc |-> d, entry |-> 0]]
    /\ Quiet /\ UNCHANGED files

\* Entry ids are unique; a place is used again once nothing refers to it.
Unused(e) ==
    /\ trash[e] = Blank /\ e \notin torn
    /\ \A t \in Threads : ops[t] # Idle =>
         /\ ops[t].kind \in {"delete", "restore", "drop"} => ops[t].entry # e
         /\ ops[t].kind = "purge" => e \notin ops[t].rest

\* An entry is made only for an original that was there to be moved.
Movable(d) == d \in paths /\ docs[d].hash \in originals

\* Mutant: An entry is made although there was nothing to move.
MoveOrListAnyway(t) ==
    /\ Op(t, "delete", "move")
    /\ LET d == ops[t].doc IN
       \E e \in {f \in Entries : Unused(f)} :
         /\ originals' = IF Movable(d) THEN originals \ {docs[d].hash} ELSE originals
         /\ trash' = [trash EXCEPT ![e].object =
                        IF Movable(d) THEN docs[d].hash ELSE Nothing]
         /\ ops' = [ops EXCEPT ![t].at = "list", ![t].entry = e]
         /\ UNCHANGED <<kbs, docs, rows, paths, stored, discarded>>
    /\ Quiet

MoveToTrash(t) ==
    /\ Op(t, "delete", "move")
    /\ LET d == ops[t].doc IN
       \/ /\ Movable(d)
          /\ originals' = originals \ {docs[d].hash}
          /\ \E e \in {f \in Entries : Unused(f)} :
               /\ trash' = [trash EXCEPT ![e].object = docs[d].hash]
               /\ ops' = [ops EXCEPT ![t].at = "list", ![t].entry = e]
          /\ UNCHANGED <<kbs, docs, rows, paths, stored, discarded>>
       \/ /\ ~Movable(d)
          /\ Step(t, "unrow")
          /\ UNCHANGED files
    /\ Quiet

\* add_to_trash, then the settings that say where it belongs.
ListEntry(t) ==
    /\ Op(t, "delete", "list")
    /\ trash' = [trash EXCEPT ![ops[t].entry].listed = TRUE]
    /\ Step(t, "name")
    /\ Quiet /\ UNCHANGED <<kbs, docs, rows, paths, originals, stored, discarded>>

NameEntry(t) ==
    /\ Op(t, "delete", "name")
    /\ trash' = [trash EXCEPT ![ops[t].entry].base = docs[ops[t].doc].kb]
    /\ Step(t, "unrow")
    /\ Quiet /\ UNCHANGED <<kbs, docs, rows, paths, originals, stored, discarded>>

DeleteRow(t) ==
    /\ Op(t, "delete", "unrow")
    /\ rows' = rows \ {ops[t].doc}
    /\ Done(t)
    /\ Quiet /\ UNCHANGED <<kbs, docs, paths, originals, trash, stored, discarded>>

-----------------------------------------------------------------------------
(* Deletion of a knowledge base: the originals of the documents listed at  *)
(* the start go one by one, past the trash; then the row, and by cascade   *)
(* whatever rows the base has by then.                                     *)

DeleteBase(t, kb) ==
    /\ ops[t] = Idle
    /\ kb \in kbs
    /\ ops' = [ops EXCEPT ![t] =
         [kind |-> "deletebase", at |-> "purge", base |-> kb,
          rest |-> {d \in rows : docs[d].kb = kb}]]
    /\ Quiet /\ UNCHANGED files

PurgeContent(t) ==
    /\ Op(t, "deletebase", "purge")
    /\ \E d \in ops[t].rest :
         /\ ops' = [ops EXCEPT ![t].rest = @ \ {d}]
         /\ IF d \in rows /\ Movable(d)
            THEN /\ originals' = originals \ {docs[d].hash}
                 /\ discarded' = discarded \union {docs[d].hash}
            ELSE UNCHANGED <<originals, discarded>>
    /\ Quiet /\ UNCHANGED <<kbs, docs, rows, paths, trash, stored>>

DropBase(t) ==
    /\ Op(t, "deletebase", "purge")
    /\ ops[t].rest = {}
    /\ kbs' = kbs \ {ops[t].base}
    /\ rows' = {d \in rows : docs[d].kb # ops[t].base}
    /\ Done(t)
    /\ Quiet /\ UNCHANGED <<docs, paths, originals, trash, stored, discarded>>

-----------------------------------------------------------------------------
(* Restore and drop.  Both find the entry in the list, both end by deleting *)
(* the object and then the entry.                                          *)

OnEntry(kind, at, e) ==
    [kind |-> kind, at |-> at, entry |-> e, doc |-> 0,
     content |-> [kb |-> trash[e].base, hash |-> trash[e].object]]

\* Mutant: The content is taken out of the trash before it is back in its place.
RestoreByMove(t, e) ==
    /\ ops[t] = Idle
    /\ trash[e].listed
    /\ trash[e].object # Nothing /\ trash[e].base # Nothing
    /\ ops' = [ops EXCEPT ![t] = OnEntry("restore", "write", e)]
    /\ trash' = [trash EXCEPT ![e].object = Nothing]
    /\ Quiet /\ UNCHANGED <<kbs, docs, rows, paths, originals, stored, discarded>>

\* The object must be there, and the entry must say where it belongs.
Restore(t, e) ==
    /\ ops[t] = Idle
    /\ trash[e].listed
    /\ trash[e].object # Nothing /\ trash[e].base # Nothing
    /\ ops' = [ops EXCEPT ![t] = OnEntry("restore", "write", e)]
    /\ Quiet /\ UNCHANGED files

WriteBack(t) ==
    /\ Op(t, "restore", "write")
    /\ StoreOriginal(ops[t].content.hash)
    /\ Step(t, "create")
    /\ Quiet

\* The row is refused when the base is gone or the content was uploaded again.
RestoreRow(t) ==
    /\ Op(t, "restore", "create")
    /\ LET kb == ops[t].content.kb
           h  == ops[t].content.hash IN
       \/ /\ Creatable(kb, h)
          /\ CreateRow(kb, h)
          /\ ops' = [ops EXCEPT ![t].at = "path", ![t].doc = Len(docs) + 1]
       \/ /\ ~Creatable(kb, h)
          /\ Done(t) /\ UNCHANGED files
    /\ Quiet

RestorePath(t) ==
    /\ Op(t, "restore", "path")
    /\ RecordPath(ops[t].doc)
    /\ Step(t, "clear")
    /\ Quiet

DropEntry(t, e) ==
    /\ ops[t] = Idle
    /\ trash[e].listed
    /\ ops' = [ops EXCEPT ![t] = OnEntry("drop", "clear", e)]
    /\ Quiet /\ UNCHANGED files

\* _delete_trash_objects: an object that is gone is no error.
ClearEntry(t) ==
    /\ ops[t].at = "clear" /\ ops[t].kind \in {"restore", "drop"}
    /\ LET e == ops[t].entry IN
       /\ trash' = [trash EXCEPT ![e].object = Nothing]
       /\ discarded' = IF ops[t].kind = "drop" /\ trash[e].object # Nothing
                       THEN discarded \union {trash[e].object} ELSE discarded
    /\ Step(t, "unlist")
    /\ Quiet /\ UNCHANGED <<kbs, docs, rows, paths, originals, stored>>

\* delete_trash.  A drop also deletes the settings; a restore leaves them, but
\* nothing asks for the settings of an entry that is not listed.
UnlistEntry(t) ==
    /\ ops[t].at = "unlist"
    /\ trash' = [trash EXCEPT ![ops[t].entry].listed = FALSE,
                              ![ops[t].entry].base = Nothing]
    /\ Done(t)
    /\ Quiet /\ UNCHANGED <<kbs, docs, rows, paths, originals, stored, discarded>>

-----------------------------------------------------------------------------
(* Maintenance: the rows of all expired entries go in one transaction, then *)
(* their objects one by one.                                               *)

PurgeTrash(t, expired) ==
    /\ ops[t] = Idle
    /\ expired # {} /\ \A e \in expired : trash[e].listed
    /\ trash' = [e \in Entries |->
                   IF e \in expired THEN [trash[e] EXCEPT !.listed = FALSE, !.base = Nothing] ELSE trash[e]]
    /\ discarded' = discarded \union ({trash[e].object : e \in expired} \ {Nothing})
    /\ ops' = [ops EXCEPT ![t] = [kind |-> "purge", at |-> "objects", rest |-> expired]]
    /\ Quiet /\ UNCHANGED <<kbs, docs, rows, paths, originals, stored>>

PurgeObject(t) ==
    /\ Op(t, "purge", "objects")
    /\ \E e \in ops[t].rest :
         /\ trash' = [trash EXCEPT ![e].object = Nothing]
         /\ IF ops[t].rest = {e} THEN Done(t)
            ELSE ops' = [ops EXCEPT ![t].rest = @ \ {e}]
    /\ Quiet /\ UNCHANGED <<kbs, docs, rows, paths, originals, stored, discarded>>

-----------------------------------------------------------------------------
\* The entries an operation under way has half put in or half taken out.
Handling(t) ==
    CASE ops[t] = Idle -> {}
      [] ops[t].kind = "delete" -> IF ops[t].at \in {"list", "name"} THEN {ops[t].entry} ELSE {}
      [] ops[t].kind \in {"restore", "drop"} -> IF ops[t].at = "unlist" THEN {ops[t].entry} ELSE {}
      [] OTHER -> {}

InHand == UNION {Handling(t) : t \in Threads}

Holding == {up[u].key : u \in {v \in Uploaders : Running(v)}} \ {Nothing}

\* A step of the operation raises; nobody undoes the steps before it.
Abandon(t) ==
    /\ ops[t] # Idle
    /\ faults < MaxFaults
    /\ faults' = faults + 1
    /\ torn' = torn \union Handling(t)
    /\ Done(t)
    /\ UNCHANGED <<files, keys, up, stuck>>

\* The process dies: what the stores hold stays, and nobody resumes anything.
Crash ==
    /\ faults < MaxFaults
    /\ faults' = faults + 1
    /\ torn' = torn \union InHand
    /\ stuck' = stuck \union Holding
    /\ up' = [u \in Uploaders |-> Idle]
    /\ ops' = [t \in Threads |-> Idle]
    /\ UNCHANGED <<files, keys>>

UploadStep(u) ==
    \/ Look(u) \/ Write(u) \/ Create(u) \/ SetPath(u)
    \/ Enqueue(u) \/ Fail(u) \/ Complete(u) \/ Release(u)

ThreadStep(t) ==
    \/ MoveToTrash(t) \/ ListEntry(t) \/ NameEntry(t) \/ DeleteRow(t)
    \/ PurgeContent(t) \/ DropBase(t)
    \/ WriteBack(t) \/ RestoreRow(t) \/ RestorePath(t)
    \/ ClearEntry(t) \/ UnlistEntry(t) \/ PurgeObject(t)

Next ==
    \/ \E u \in Uploaders :
         \/ UploadStep(u)
         \/ \E key \in Keys \union {Nothing}, kb \in Kbs, h \in Contents : Receive(u, key, kb, h)
    \/ \E t \in Threads :
         \/ ThreadStep(t) \/ Abandon(t)
         \/ \E d \in Docs : DeleteDocument(t, d)
         \/ \E kb \in Kbs : DeleteBase(t, kb)
         \/ \E e \in Entries : Restore(t, e) \/ DropEntry(t, e)
         \/ \E expired \in SUBSET Entries : PurgeTrash(t, expired)
    \/ \E k \in Keys : PurgeKey(k)
    \/ Crash

Spec == Init /\ [][Next]_vars

-----------------------------------------------------------------------------
(* Properties. *)

\* Every variable keeps its type: rows and settings name documents that were
\* created, an operation under way names documents and entries that exist.
TypeOK ==
    /\ kbs \subseteq Kbs
    /\ docs \in Seq([kb : Kbs, hash : Contents]) /\ Len(docs) <= MaxDocs
    /\ rows \subseteq Docs /\ paths \subseteq Docs
    /\ {originals, stored, discarded} \subseteq SUBSET Contents
    /\ trash \in [Entries -> [object : Contents \union {Nothing}, listed : BOOLEAN,
                             base : Kbs \union {Nothing}]]
    /\ keys \in [Keys -> [asked : [kb : Kbs, hash : Contents],
                          answer : Docs \union {Nothing}] \union {Nothing}]
    /\ \A u \in Uploaders : up[u] # Idle =>
         /\ up[u].key \in Keys \union {Nothing} /\ up[u].doc \in Docs \union {0}
         /\ up[u].at \in {"complete", "told", "path", "enqueue"} => up[u].doc # 0
    /\ \A t \in Threads : InHand \subseteq Entries
    /\ faults \in 0..MaxFaults /\ torn \subseteq Entries /\ stuck \subseteq Keys
    /\ \A d, e \in rows : docs[d] = docs[e] => d = e
    /\ \A d \in rows : docs[d].kb \in kbs

\* An answer names a document of the content and the base that were sent, and
\* all answers under one key name the same document, whether the request ran,
\* found a duplicate, or was replayed (idempotency.py:77-105).
AnswersAgree ==
    \A u \in Uploaders : up[u].at = "told" =>
      /\ docs[up[u].doc] = up[u].asked
      /\ LET key == up[u].key IN
         keys[key] # Nothing /\ keys[key].answer # Nothing => keys[key].answer = up[u].doc

\* A key without an answer belongs to a request that is running: a client is
\* told to wait for nothing only after a crash, or after the answer could not be
\* saved or the key not be given back (documents.py:211-219,
\* idempotency.py:109-119 and 129-138); every other way a request can end,
\* with whatever else in between, leaves its key answered or free.
KeysAreReleased ==
    \A k \in Keys :
      keys[k] # Nothing /\ keys[k].answer = Nothing => k \in Holding \union stuck

\* restore takes an entry that says where it belongs; it succeeds as long as
\* that base exists and has no document of the content.  Deleting a base
\* strands the entries of its documents: they stay listed and keep their
\* object until they are dropped or expire, but restore refuses them.
Restorable(e) == trash[e].listed /\ trash[e].base \in kbs
Stranded(e) == trash[e].listed /\ trash[e].base \in Kbs \ kbs

\* What was stored is not lost unless somebody threw it away: its original is
\* in place, or it is in an entry that can be restored as long as the base it
\* was deleted from exists.  The one other exception is a deletion that was cut
\* off between moving the original and listing it (lifecycle.py:176-195,
\* 313-334).
ContentReachable ==
    \A h \in stored \ discarded :
      \/ h \in originals
      \/ \E e \in Entries :
           /\ trash[e].object = h
           /\ Restorable(e) \/ Stranded(e) \/ e \in InHand \union torn

\* Whatever the trash lists has its original and says which base it belongs to:
\* restore never gives "the original is gone" or "the base is not recorded"
\* (lifecycle.py:289-315) as the reason for a refusal, except while an operation
\* is at the entry or after one was cut off.  That the base still exists is not
\* claimed: see Stranded.
ListedIsComplete ==
    \A e \in Entries \ (InHand \union torn) :
      trash[e].listed => trash[e].object # Nothing /\ trash[e].base # Nothing

\* lifecycle.py:150-152 clears index and vectors because both can be rebuilt
\* from the original at any time: a document that nobody is deleting has one.
Leaving(d) ==
    \E t \in Threads : ops[t] # Idle /\
      \/ ops[t].kind = "delete" /\ ops[t].doc = d
      \/ ops[t].kind = "deletebase" /\ ops[t].base = docs[d].kb

OriginalAtHand ==
    \A d \in rows \intersect paths : docs[d].hash \in originals \/ Leaving(d)

=============================================================================

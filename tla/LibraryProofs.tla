--------------------------- MODULE LibraryProofs ---------------------------
(***************************************************************************)
(* The safety properties of Library for any bases, contents, keys, threads *)
(* and bounds.  The argument has three layers, each resting on the ones    *)
(* before: Typed says what the stores and the operations under way look    *)
(* like, KeysMatch ties keys, requests and answers together, and           *)
(* PlacesMatch with Reachable follows an original through the trash.       *)
(***************************************************************************)
EXTENDS Library, TLAPS

Request == [kb : Kbs, hash : Contents]
KeyRecord == [asked : Request, answer : Nat \union {Nothing}]
Place == [object : Contents \union {Nothing}, listed : BOOLEAN,
          base : Kbs \union {Nothing}]

Upload == [at : {"look", "write", "create", "path", "enqueue", "complete", "release", "told"},
           key : Keys \union {Nothing}, asked : Request, doc : Nat]

Deletion == [kind : {"delete"}, at : {"move", "list", "name", "unrow"},
             doc : Nat, entry : Nat]
BaseDeletion == [kind : {"deletebase"}, at : {"purge"}, base : Kbs, rest : SUBSET Nat]
Content == [kb : Kbs \union {Nothing}, hash : Contents \union {Nothing}]
Restoration == [kind : {"restore"}, at : {"write", "create", "path", "clear", "unlist"},
                entry : Entries, doc : Nat, content : Content]
Dropping == [kind : {"drop"}, at : {"clear", "unlist"},
             entry : Entries, doc : Nat, content : Content]
Purge == [kind : {"purge"}, at : {"objects"}, rest : SUBSET Entries]

StoresTyped ==
    /\ kbs \subseteq Kbs
    /\ docs \in Seq(Request) /\ Len(docs) <= MaxDocs
    /\ rows \subseteq Docs /\ paths \subseteq Docs
    /\ \A d \in rows : docs[d].kb \in kbs
    /\ \A d, e \in rows : docs[d] = docs[e] => d = e
    /\ originals \subseteq Contents /\ stored \subseteq Contents /\ discarded \subseteq Contents
    /\ trash \in [Entries -> Place]
    /\ faults \in 0..MaxFaults /\ torn \subseteq Entries

KeysTyped ==
    /\ keys \in [Keys -> KeyRecord \union {Nothing}]
    /\ stuck \subseteq Keys
    /\ \A k \in Keys : keys[k] # Nothing => keys[k].answer \in Docs \union {Nothing}

UploadsTyped ==
    /\ up \in [Uploaders -> Upload \union {Idle}]
    /\ \A u \in Uploaders : up[u] # Idle =>
         /\ up[u].key = Nothing \/ u = "request"
         /\ up[u].doc \in Docs \union {0}
         /\ up[u].at \in {"path", "enqueue", "complete", "told"} =>
              up[u].doc \in Docs /\ docs[up[u].doc] = up[u].asked

OpsTyped ==
    /\ ops \in [Threads -> Deletion \union BaseDeletion \union Restoration
                           \union Dropping \union Purge \union {Idle}]
    /\ \A t \in Threads :
         /\ ops[t].at \in {"move", "list", "name", "unrow"} => ops[t].doc \in Docs
         /\ ops[t].at \in {"list", "name"} => ops[t].entry \in Entries
         /\ ops[t].at = "path" => ops[t].doc \in Docs
         /\ ops[t].at \in {"write", "create"} => ops[t].content \in Request

Typed == StoresTyped /\ KeysTyped /\ UploadsTyped /\ OpsTyped

\* The answer under a key is a document of what the key was taken for.
AnswersFit ==
    \A k \in Keys : keys[k] # Nothing /\ keys[k].answer # Nothing =>
      docs[keys[k].answer] = keys[k].asked

\* What a running request asks is what its key was taken for, and nobody else
\* has answered it.
RequestsFit ==
    \A u \in Uploaders : Running(u) /\ up[u].key # Nothing =>
      /\ keys[up[u].key] # Nothing
      /\ keys[up[u].key].asked = up[u].asked
      /\ keys[up[u].key].answer = Nothing

OnlyKeysAreTold == \A u \in Uploaders : up[u].at = "told" => up[u].key # Nothing

KeysMatch == AnswersFit /\ RequestsFit /\ OnlyKeysAreTold /\ AnswersAgree /\ KeysAreReleased

\* An operation other than a deletion is at work on the entry.
Touches(o, e) ==
    \/ o.at \in {"write", "create", "path", "clear", "unlist"} /\ o.entry = e
    \/ o.at = "objects" /\ e \in o.rest

\* It does without the object of the entry from now on, or is to delete it.
Spends(o, e) ==
    \/ o.at \in {"create", "path"} /\ o.entry = e
    \/ o.at = "clear" /\ o.kind = "restore" /\ o.entry = e
    \/ o.at = "objects" /\ e \in o.rest

Making(t, e, at) == ops[t].at = at /\ ops[t].entry = e

\* An entry that is not listed yet has its object, and nobody else knows it.
FreshIsKept ==
    \A t \in Threads, e \in Entries : Making(t, e, "list") =>
      /\ trash[e].object # Nothing /\ ~trash[e].listed
      /\ \A s \in Threads \ {t} :
           ~Touches(ops[s], e) /\ ~Making(s, e, "list") /\ ~Making(s, e, "name")

\* An operation knows what the entry holds until it is emptied.
Knows(o) ==
    /\ o.at \in {"write", "create", "path", "clear", "unlist"} =>
         trash[o.entry].object \in {o.content.hash, Nothing}
    /\ o.at = "unlist" => trash[o.entry].object = Nothing
    /\ o.at = "objects" => \A e \in o.rest : ~trash[e].listed

EntryIsKnown == \A t \in Threads : Knows(ops[t])

\* What is listed is complete, but for what is being made or unmade.
ListedIsKept ==
    \A e \in Entries : trash[e].listed =>
      \/ e \in torn
      \/ /\ trash[e].object # Nothing \/ \E t \in Threads : Making(t, e, "unlist")
         /\ trash[e].base # Nothing \/ \E t \in Threads : Making(t, e, "name")

PlacesMatch == FreshIsKept /\ EntryIsKnown /\ ListedIsKept

\* An entry that says where it belongs.
Homed(e) == trash[e].listed /\ trash[e].base # Nothing

\* An entry whose object stays: it is complete, or is being made, or was torn
\* while it was being made.
Kept(e) ==
    \/ Homed(e)
    \/ e \in torn
    \/ \E t \in Threads : Making(t, e, "list")
    \/ trash[e].listed /\ \E t \in Threads : Making(t, e, "name")

Safe(e) == Kept(e) /\ \A t \in Threads : ~Spends(ops[t], e)

Reachable ==
    \A h \in stored \ discarded :
      h \in originals \/ \E e \in Entries : trash[e].object = h /\ Safe(e)

IInv == Typed /\ KeysMatch /\ PlacesMatch /\ Reachable

-----------------------------------------------------------------------------
(* Typed.                                                                   *)

\* Documents are only ever added.
DocsKept ==
    /\ docs' \in Seq(Request) /\ Len(docs) <= Len(docs')
    /\ \A d \in Docs : docs'[d] = docs[d]

\* A document is what somebody asked to be stored.
LEMMA DocIs ==
  ASSUME StoresTyped, NEW d \in Docs
  PROVE  docs[d] \in Request /\ docs[d].kb \in Kbs /\ docs[d].hash \in Contents
<1>1. docs[d] \in Request
  BY DEF StoresTyped, Docs
<1>2. QED
  BY <1>1 DEF Request

\* Without a new document all documents are kept.
LEMMA SameDocs ==
  ASSUME StoresTyped, UNCHANGED docs
  PROVE  DocsKept
  BY DEF StoresTyped, DocsKept, Docs

\* A new row is appended with what was asked for.
LEMMA NewDoc ==
  ASSUME StoresTyped, NEW kb \in Kbs, NEW h \in Contents, CreateRow(kb, h)
  PROVE  /\ DocsKept
         /\ Len(docs') = Len(docs) + 1
         /\ docs'[Len(docs) + 1] = [kb |-> kb, hash |-> h]
         /\ Len(docs) + 1 \in Docs' /\ Len(docs) + 1 \notin Docs
<1> DEFINE r == [kb |-> kb, hash |-> h]
<1>1. r \in Request
  BY DEF Request
<1>2. docs \in Seq(Request) /\ docs' = Append(docs, r)
  BY DEF StoresTyped, CreateRow
<1> HIDE DEF r
<1>3. /\ docs' \in Seq(Request) /\ Len(docs') = Len(docs) + 1
      /\ docs'[Len(docs) + 1] = r
      /\ \A d \in 1..Len(docs) : docs'[d] = docs[d]
  BY <1>1, <1>2
<1>4. Len(docs) \in Nat
  BY <1>2
<1>5. QED
  BY <1>3, <1>4 DEF Docs, DocsKept, r

\* The steps on the stores that uploads and restores share keep their types.
LEMMA OriginalTyped ==
  ASSUME StoresTyped, NEW h \in Contents, StoreOriginal(h), UNCHANGED <<faults, torn>>
  PROVE  StoresTyped'
  BY DEF StoresTyped, StoreOriginal, Docs

\* A row that the tables accept keeps every base free of duplicates.
LEMMA RowTyped ==
  ASSUME StoresTyped, NEW kb \in Kbs, NEW h \in Contents, Creatable(kb, h),
         CreateRow(kb, h), UNCHANGED <<faults, torn>>
  PROVE  StoresTyped'
<1> DEFINE n == Len(docs) + 1
<1>1. /\ DocsKept /\ Len(docs') = n /\ docs'[n] = [kb |-> kb, hash |-> h]
      /\ n \in Docs' /\ n \notin Docs
  BY NewDoc
<1>2. Docs \subseteq Docs' /\ rows' = rows \union {n} /\ paths' = paths /\ kbs' = kbs
  BY <1>1 DEF DocsKept, Docs, CreateRow, StoresTyped
<1>3. rows' \subseteq Docs' /\ paths' \subseteq Docs'
  BY <1>1, <1>2 DEF StoresTyped
<1>4. \A d \in rows : docs'[d] = docs[d] /\ d # n
  BY <1>1 DEF DocsKept, StoresTyped
<1>5. \A d \in rows' : docs'[d].kb \in kbs'
  BY <1>1, <1>2, <1>4 DEF StoresTyped, Creatable
<1>6. \A d \in rows : docs[d] # [kb |-> kb, hash |-> h]
  BY DEF Creatable, Having
<1>7. \A d, e \in rows' : docs'[d] = docs'[e] => d = e
  BY <1>1, <1>2, <1>4, <1>6 DEF StoresTyped
<1>8. docs' \in Seq(Request) /\ Len(docs') <= MaxDocs
  BY <1>1, LibraryAssumption DEF DocsKept, CreateRow, StoresTyped
<1>9. QED
  BY <1>2, <1>3, <1>5, <1>7, <1>8 DEF StoresTyped, CreateRow

\* A path is recorded for a document that was created.
LEMMA PathTyped ==
  ASSUME StoresTyped, NEW d \in Docs, RecordPath(d), UNCHANGED <<faults, torn>>
  PROVE  StoresTyped'
  BY DEF StoresTyped, RecordPath, Docs

\* So does a step that leaves the stores alone.
LEMMA FilesTyped ==
  ASSUME StoresTyped, UNCHANGED files, faults' \in 0..MaxFaults, torn' \subseteq Entries
  PROVE  StoresTyped' /\ DocsKept
<1>1. StoresTyped'
  BY DEF StoresTyped, files, Docs
<1>2. QED
  BY <1>1, SameDocs DEF files

\* What is not touched stays typed while documents are added.
LEMMA RestTyped ==
  ASSUME StoresTyped, DocsKept
  PROVE  /\ KeysTyped /\ UNCHANGED <<keys, stuck>> => KeysTyped'
         /\ UploadsTyped /\ UNCHANGED up => UploadsTyped'
         /\ OpsTyped /\ UNCHANGED ops => OpsTyped'
<1>1. Docs \subseteq Docs'
  BY DEF StoresTyped, DocsKept, Docs
<1>2. KeysTyped /\ UNCHANGED <<keys, stuck>> => KeysTyped'
  BY <1>1 DEF KeysTyped
<1>3. UploadsTyped /\ UNCHANGED up => UploadsTyped'
  BY <1>1 DEF UploadsTyped, DocsKept
<1>4. OpsTyped /\ UNCHANGED ops => OpsTyped'
  BY <1>1 DEF OpsTyped
<1>5. QED
  BY <1>2, <1>3, <1>4

-----------------------------------------------------------------------------
(* Uploads keep Typed.                                                      *)

\* An upload that is not idle is a record of its kind.
LEMMA UploadIs ==
  ASSUME UploadsTyped, NEW u \in Uploaders, up[u].at # "idle"
  PROVE  up[u] \in Upload /\ up[u] # Idle
  BY DEF UploadsTyped, Idle

\* One upload changes, into nothing or into a record that keeps the rules.
LEMMA UploadChanges ==
  ASSUME StoresTyped, UploadsTyped, DocsKept,
         NEW u \in Uploaders, NEW r \in Upload \union {Idle},
         up' = [up EXCEPT ![u] = r],
         r # Idle => /\ r.key = Nothing \/ u = "request"
                     /\ r.doc \in Docs' \union {0}
                     /\ r.at \in {"path", "enqueue", "complete", "told"} =>
                          r.doc \in Docs' /\ docs'[r.doc] = r.asked
  PROVE  UploadsTyped'
<1>1. Docs \subseteq Docs'
  BY DEF StoresTyped, DocsKept, Docs
<1>2. UploadsTyped!1'
  BY DEF UploadsTyped
<1>3. ASSUME NEW v \in Uploaders, up'[v] # Idle
      PROVE  /\ up'[v].key = Nothing \/ v = "request"
             /\ up'[v].doc \in Docs' \union {0}
             /\ up'[v].at \in {"path", "enqueue", "complete", "told"} =>
                  up'[v].doc \in Docs' /\ docs'[up'[v].doc] = up'[v].asked
  <2>1. CASE v = u
    BY <1>3, <2>1 DEF UploadsTyped
  <2>2. CASE v # u
    <3>1. up'[v] = up[v]
      BY <2>2 DEF UploadsTyped
    <3>2. QED
      BY <1>1, <1>3, <3>1 DEF UploadsTyped, DocsKept
  <2>3. QED
    BY <2>1, <2>2
<1>4. QED
  BY <1>2, <1>3 DEF UploadsTyped

\* A running upload takes its next step.
LEMMA UploadAdvances ==
  ASSUME StoresTyped, UploadsTyped, DocsKept,
         NEW u \in Uploaders, Running(u),
         NEW at \in {"look", "write", "create", "path", "enqueue", "complete", "release", "told"},
         NEW d \in Docs' \union {0},
         at \in {"path", "enqueue", "complete", "told"} => d \in Docs' /\ docs'[d] = up[u].asked,
         up' = [up EXCEPT ![u].at = at, ![u].doc = d]
  PROVE  UploadsTyped'
<1> DEFINE r == [up[u] EXCEPT !.at = at, !.doc = d]
<1>1. up[u] \in Upload /\ up[u] # Idle
  BY UploadIs DEF Running
<1>2. d \in Nat
  BY DEF DocsKept, Docs
<1>3. r \in Upload /\ r.at = at /\ r.doc = d /\ r.key = up[u].key /\ r.asked = up[u].asked
  BY <1>1, <1>2 DEF Upload
<1>4. up' = [up EXCEPT ![u] = r]
  BY <1>1 DEF UploadsTyped
<1>5. up[u].key = Nothing \/ u = "request"
  BY <1>1 DEF UploadsTyped
<1> HIDE DEF r
<1>6. QED
  BY <1>3, <1>4, <1>5, UploadChanges

\* A request starts its upload, or is told the answer under its key.
LEMMA ReceiveTyped ==
  ASSUME Typed, NEW u \in Uploaders, NEW key \in Keys \union {Nothing},
         NEW kb \in Kbs, NEW h \in Contents,
         KeysMatch, Receive(u, key, kb, h)
  PROVE  Typed'
<1> DEFINE asked == [kb |-> kb, hash |-> h]
<1>1. asked \in Request
  BY DEF Request
<1>2. StoresTyped' /\ DocsKept
  BY FilesTyped DEF Typed, Receive, StoresTyped
<1>3. OpsTyped'
  BY <1>2, RestTyped DEF Typed, Receive
<1>4. key = Nothing \/ u = "request"
  BY DEF Receive, Uploaders
<1>5. CASE key = Nothing \/ keys[key] = Nothing
  <2> DEFINE r == Uploading(key, kb, h, "look", 0)
  <2>1. r \in Upload /\ r.at = "look" /\ r.key = key /\ r.doc = 0
    BY <1>1 DEF Upload, Uploading
  <2>2. up' = [up EXCEPT ![u] = r]
    BY <1>5 DEF Receive
  <2> HIDE DEF r
  <2>3. UploadsTyped'
    BY <1>2, <1>4, <2>1, <2>2, UploadChanges DEF Typed
  <2>4. stuck' = stuck /\ docs' = docs
    BY DEF Receive, files
  <2>5. \/ keys' = keys
        \/ key \in Keys /\ keys' = [keys EXCEPT ![key] = [asked |-> asked, answer |-> Nothing]]
    BY <1>5 DEF Receive
  <2>6. [asked |-> asked, answer |-> Nothing] \in KeyRecord
    BY <1>1 DEF KeyRecord
  <2>7. KeysTyped'
    BY <2>4, <2>5, <2>6 DEF Typed, KeysTyped, Docs
  <2>8. QED
    BY <1>2, <1>3, <2>3, <2>7 DEF Typed
<1>6. CASE ~(key = Nothing \/ keys[key] = Nothing)
  <2>1. keys' = keys /\ stuck' = stuck
    BY <1>6 DEF Receive
  <2>2. KeysTyped'
    BY <1>2, <2>1, RestTyped DEF Typed
  <2>3. CASE Judged(key, asked) = Nothing
    <3>1. up' = [up EXCEPT ![u] = Idle]
      BY <1>6, <2>3 DEF Receive
    <3>2. UploadsTyped'
      BY <1>2, <3>1, UploadChanges DEF Typed
    <3>3. QED
      BY <1>2, <1>3, <2>2, <3>2 DEF Typed
  <2>4. CASE Judged(key, asked) # Nothing
    <3> DEFINE d == keys[key].answer
               r == Uploading(key, kb, h, "told", d)
    <3>1. keys[key].asked = asked /\ d # Nothing /\ Judged(key, asked) = d /\ key \in Keys
      BY <1>6, <2>4 DEF Judged
    <3>2. d \in Docs /\ docs[d] = asked
      BY <1>6, <3>1 DEF Typed, KeysTyped, KeysMatch, AnswersFit
    <3>3. up' = [up EXCEPT ![u] = r]
      BY <1>6, <2>4, <3>1 DEF Receive
    <3>4. d \in Nat /\ d \in Docs' /\ docs'[d] = asked
      BY <1>2, <3>2 DEF DocsKept, Docs, Typed, StoresTyped
    <3>5. r \in Upload /\ r.key = key /\ r.doc = d /\ r.asked = asked
      BY <1>1, <3>4 DEF Upload, Uploading
    <3> HIDE DEF r, d
    <3>6. UploadsTyped'
      BY <1>2, <1>4, <3>3, <3>4, <3>5, UploadChanges DEF Typed
    <3>7. QED
      BY <1>2, <1>3, <2>2, <3>6 DEF Typed
  <2>5. QED
    BY <2>3, <2>4
<1>7. QED
  BY <1>5, <1>6

\* The same when the document it speaks of stays what it is.
LEMMA UploadMovesOn ==
  ASSUME StoresTyped, UploadsTyped, DocsKept,
         NEW u \in Uploaders, Running(u),
         NEW at \in {"look", "write", "create", "path", "enqueue", "complete", "release", "told"},
         at \in {"path", "enqueue", "complete", "told"} =>
           up[u].at \in {"path", "enqueue", "complete", "told"},
         Advance(u, at)
  PROVE  UploadsTyped'
<1>1. up[u] \in Upload /\ up[u] # Idle
  BY UploadIs DEF Running
<1>2. up' = [up EXCEPT ![u].at = at, ![u].doc = up[u].doc]
  BY <1>1 DEF UploadsTyped, Advance, Upload
<1>3. /\ up[u].doc \in Docs' \union {0}
      /\ at \in {"path", "enqueue", "complete", "told"} =>
           up[u].doc \in Docs' /\ docs'[up[u].doc] = up[u].asked
  BY <1>1 DEF UploadsTyped, DocsKept, StoresTyped, Docs
<1>4. QED
  BY <1>2, <1>3, UploadAdvances

\* What is asked is a base and a content.
LEMMA AskedIs ==
  ASSUME UploadsTyped, NEW u \in Uploaders, Running(u)
  PROVE  /\ up[u].asked.kb \in Kbs /\ up[u].asked.hash \in Contents
         /\ up[u].asked = [kb |-> up[u].asked.kb, hash |-> up[u].asked.hash]
         /\ up[u].key \in Keys \union {Nothing} /\ up[u] # Idle
         /\ up[u].key = Nothing \/ u = "request"
         /\ up[u].doc \in Docs \union {0}
  BY UploadIs DEF Running, Upload, Request, UploadsTyped

\* The duplicate an upload finds is a document of what was asked.
LEMMA LookTyped == ASSUME Typed, NEW u \in Uploaders, Look(u) PROVE Typed'
<1>1. Running(u)
  BY DEF Look, Running
<1>2. StoresTyped' /\ DocsKept
  BY FilesTyped DEF Typed, Look, StoresTyped
<1>3. KeysTyped' /\ OpsTyped'
  BY <1>2, RestTyped DEF Typed, Look
<1>4. ASSUME NEW d \in Having(up[u].asked.kb, up[u].asked.hash),
             up' = [up EXCEPT ![u].at = "complete", ![u].doc = d]
      PROVE  UploadsTyped'
  <2>1. d \in Docs /\ docs[d] = up[u].asked
    BY <1>1, AskedIs DEF Having, Typed, StoresTyped
  <2>2. d \in Docs' /\ docs'[d] = up[u].asked
    BY <1>2, <2>1 DEF DocsKept, Docs, Typed, StoresTyped
  <2>3. QED
    BY <1>1, <1>2, <1>4, <2>2, UploadAdvances DEF Typed
<1>5. ASSUME NEW at \in {"release", "write"}, Advance(u, at)
      PROVE  UploadsTyped'
  BY <1>1, <1>2, <1>5, UploadMovesOn DEF Typed
<1>6. UploadsTyped'
  BY <1>4, <1>5 DEF Look
<1>7. QED
  BY <1>2, <1>3, <1>6 DEF Typed

\* Storing the original.
LEMMA WriteTyped == ASSUME Typed, NEW u \in Uploaders, Write(u) PROVE Typed'
<1>1. Running(u)
  BY DEF Write, Running
<1>2. up[u].asked.hash \in Contents
  BY <1>1, AskedIs DEF Typed
<1>3. StoresTyped' /\ DocsKept
  BY <1>2, OriginalTyped, SameDocs DEF Typed, Write, StoreOriginal
<1>4. KeysTyped' /\ OpsTyped'
  BY <1>3, RestTyped DEF Typed, Write
<1>5. UploadsTyped'
  BY <1>1, <1>3, UploadMovesOn DEF Typed, Write
<1>6. QED
  BY <1>3, <1>4, <1>5 DEF Typed

\* The new row is a document of what was asked.
LEMMA CreateTyped == ASSUME Typed, NEW u \in Uploaders, Create(u) PROVE Typed'
<1>1. Running(u)
  BY DEF Create, Running
<1> DEFINE kb == up[u].asked.kb
           h == up[u].asked.hash
<1>2. kb \in Kbs /\ h \in Contents /\ up[u].asked = [kb |-> kb, hash |-> h]
  BY <1>1, AskedIs DEF Typed
<1>3. CASE Creatable(kb, h)
  <2>1. CreateRow(kb, h) /\ up' = [up EXCEPT ![u].at = "path", ![u].doc = Len(docs) + 1]
    BY <1>3 DEF Create
  <2>2. UNCHANGED <<keys, ops, faults, torn, stuck>>
    BY DEF Create
  <2>3. StoresTyped'
    BY <1>2, <1>3, <2>1, <2>2, RowTyped DEF Typed
  <2>4. /\ DocsKept /\ Len(docs) + 1 \in Docs' /\ docs'[Len(docs) + 1] = up[u].asked
    BY <1>2, <2>1, NewDoc DEF Typed
  <2>5. UploadsTyped'
    BY <1>1, <2>1, <2>4, UploadAdvances DEF Typed
  <2>6. QED
    BY <2>2, <2>3, <2>4, <2>5, RestTyped DEF Typed
<1>4. CASE ~Creatable(kb, h)
  <2>1. Advance(u, "release") /\ UNCHANGED files /\ UNCHANGED <<keys, ops, faults, torn, stuck>>
    BY <1>4 DEF Create
  <2>2. StoresTyped' /\ DocsKept
    BY <2>1, FilesTyped DEF Typed, StoresTyped
  <2>3. UploadsTyped'
    BY <1>1, <2>1, <2>2, UploadMovesOn DEF Typed
  <2>4. QED
    BY <2>1, <2>2, <2>3, RestTyped DEF Typed
<1>5. QED
  BY <1>3, <1>4

\* Recording the path.
LEMMA SetPathTyped == ASSUME Typed, NEW u \in Uploaders, SetPath(u) PROVE Typed'
<1>1. Running(u)
  BY DEF SetPath, Running
<1>2. up[u].doc \in Docs
  BY <1>1, AskedIs DEF Typed, UploadsTyped, SetPath
<1>3. StoresTyped' /\ DocsKept
  BY <1>2, PathTyped, SameDocs DEF Typed, SetPath, RecordPath
<1>4. KeysTyped' /\ OpsTyped'
  BY <1>3, RestTyped DEF Typed, SetPath
<1>5. UploadsTyped'
  BY <1>1, <1>3, UploadMovesOn DEF Typed, SetPath
<1>6. QED
  BY <1>3, <1>4, <1>5 DEF Typed

\* One more fault is still within the bound.
LEMMA OneMoreFault ==
  ASSUME StoresTyped, faults < MaxFaults, faults' = faults + 1
  PROVE  faults' \in 0..MaxFaults
  BY LibraryAssumption DEF StoresTyped

\* Queueing the ingestion.
LEMMA EnqueueTyped == ASSUME Typed, NEW u \in Uploaders, Enqueue(u) PROVE Typed'
<1>1. up[u].at = "enqueue" /\ Running(u)
  BY DEF Enqueue, Running
<1>2. StoresTyped' /\ DocsKept
  BY FilesTyped DEF Typed, Enqueue, StoresTyped
<1>3. KeysTyped' /\ OpsTyped'
  BY <1>2, RestTyped DEF Typed, Enqueue
<1>4. Advance(u, "complete") \/ Advance(u, "release")
  BY DEF Enqueue
<1>5. UploadsTyped'
  BY <1>1, <1>2, <1>4, UploadMovesOn DEF Typed
<1>6. QED
  BY <1>2, <1>3, <1>5 DEF Typed

\* A step that raises instead.
LEMMA FailTyped == ASSUME Typed, NEW u \in Uploaders, Fail(u) PROVE Typed'
<1>1. Running(u) /\ Advance(u, "release")
  BY DEF Fail, Running
<1>2. faults' \in 0..MaxFaults
  BY OneMoreFault DEF Typed, Fail
<1>3. StoresTyped' /\ DocsKept
  BY <1>2, FilesTyped DEF Typed, Fail, StoresTyped
<1>4. KeysTyped' /\ OpsTyped'
  BY <1>3, RestTyped DEF Typed, Fail
<1>5. UploadsTyped'
  BY <1>1, <1>3, UploadMovesOn DEF Typed
<1>6. QED
  BY <1>3, <1>4, <1>5 DEF Typed

\* The answer hung on the key is a document.
LEMMA CompleteTyped == ASSUME Typed, NEW u \in Uploaders, Complete(u) PROVE Typed'
<1>1. Running(u) /\ up[u].at = "complete"
  BY DEF Complete, Running
<1>2. faults' \in 0..MaxFaults
  BY OneMoreFault DEF Typed, StoresTyped, Complete
<1>3. StoresTyped' /\ DocsKept
  BY <1>2, FilesTyped DEF Typed, Complete, StoresTyped
<1>4. OpsTyped'
  BY <1>3, RestTyped DEF Typed, Complete
<1>5. up[u].doc \in Docs /\ docs' = docs
  BY <1>1, AskedIs DEF Typed, UploadsTyped, Complete, files
<1>6. KeysTyped'
  <2>1. \/ keys' = keys
        \/ /\ up[u].key \in Keys /\ keys[up[u].key] # Nothing
           /\ keys' = [keys EXCEPT ![up[u].key].answer = up[u].doc]
    BY DEF Complete
  <2>2. stuck' \subseteq Keys
    BY DEF Complete, Typed, KeysTyped
  <2>3. up[u].doc \in Nat
    BY <1>5 DEF Docs, Typed, StoresTyped
  <2>4. QED
    BY <1>5, <2>1, <2>2, <2>3 DEF Typed, KeysTyped, KeyRecord, Docs
<1>7. CASE up[u].key = Nothing
  <2>1. up' = [up EXCEPT ![u] = Idle]
    BY <1>7 DEF Complete
  <2>2. QED
    BY <1>3, <1>4, <1>6, <2>1, UploadChanges DEF Typed
<1>8. CASE up[u].key # Nothing
  <2>1. Advance(u, "told")
    BY <1>8 DEF Complete, Advance, Typed, UploadsTyped
  <2>2. QED
    BY <1>1, <1>3, <1>4, <1>6, <2>1, UploadMovesOn DEF Typed
<1>9. QED
  BY <1>7, <1>8

\* Giving the key back.
LEMMA ReleaseTyped == ASSUME Typed, NEW u \in Uploaders, Release(u) PROVE Typed'
<1>1. StoresTyped' /\ DocsKept
  BY OneMoreFault, FilesTyped DEF Typed, Release, StoresTyped
<1>2. OpsTyped'
  BY <1>1, RestTyped DEF Typed, Release
<1>3. UploadsTyped'
  BY <1>1, UploadChanges DEF Typed, Release
<1>4. KeysTyped'
  BY DEF Typed, KeysTyped, Release, files, Docs
<1>5. QED
  BY <1>1, <1>2, <1>3, <1>4 DEF Typed

\* Purging an old key.
LEMMA PurgeKeyTyped == ASSUME Typed, NEW k \in Keys, PurgeKey(k) PROVE Typed'
<1>1. StoresTyped' /\ DocsKept
  BY FilesTyped DEF Typed, PurgeKey, StoresTyped
<1>2. OpsTyped' /\ UploadsTyped'
  BY <1>1, RestTyped DEF Typed, PurgeKey
<1>3. KeysTyped'
  BY DEF Typed, KeysTyped, PurgeKey, files, Docs
<1>4. QED
  BY <1>1, <1>2, <1>3 DEF Typed

-----------------------------------------------------------------------------
(* Operations on threads keep Typed.                                        *)

\* The step an operation is at tells its kind.
LEMMA OpIs ==
  ASSUME OpsTyped, NEW t \in Threads
  PROVE  /\ ops[t].at \in {"move", "list", "name", "unrow"} => ops[t] \in Deletion
         /\ ops[t].at = "purge" => ops[t] \in BaseDeletion
         /\ ops[t].at \in {"write", "create", "path"} => ops[t] \in Restoration
         /\ ops[t].at \in {"clear", "unlist"} => ops[t] \in Restoration \union Dropping
         /\ ops[t].at = "objects" => ops[t] \in Purge
         /\ ops[t].at # "idle" => ops[t] # Idle
  BY DEF OpsTyped, Deletion, BaseDeletion, Restoration, Dropping, Purge, Idle

\* One operation changes, into nothing or into a record that keeps the rules.
LEMMA OpChanges ==
  ASSUME StoresTyped, OpsTyped, DocsKept,
         NEW t \in Threads,
         NEW r \in Deletion \union BaseDeletion \union Restoration
                    \union Dropping \union Purge \union {Idle},
         ops' = [ops EXCEPT ![t] = r],
         r.at \in {"move", "list", "name", "unrow"} => r.doc \in Docs',
         r.at \in {"list", "name"} => r.entry \in Entries,
         r.at = "path" => r.doc \in Docs',
         r.at \in {"write", "create"} => r.content \in Request
  PROVE  OpsTyped'
<1>1. Docs \subseteq Docs'
  BY DEF StoresTyped, DocsKept, Docs
<1>2. OpsTyped!1'
  BY DEF OpsTyped
<1>3. ASSUME NEW s \in Threads
      PROVE  /\ ops'[s].at \in {"move", "list", "name", "unrow"} => ops'[s].doc \in Docs'
             /\ ops'[s].at \in {"list", "name"} => ops'[s].entry \in Entries
             /\ ops'[s].at = "path" => ops'[s].doc \in Docs'
             /\ ops'[s].at \in {"write", "create"} => ops'[s].content \in Request
  <2>1. CASE s = t
    BY <2>1 DEF OpsTyped
  <2>2. CASE s # t
    <3>1. ops'[s] = ops[s]
      BY <2>2 DEF OpsTyped
    <3>2. QED
      BY <1>1, <3>1 DEF OpsTyped
  <2>3. QED
    BY <2>1, <2>2
<1>4. QED
  BY <1>2, <1>3 DEF OpsTyped

\* The end of an operation.
LEMMA OpEnds ==
  ASSUME StoresTyped, OpsTyped, DocsKept, NEW t \in Threads, Done(t)
  PROVE  OpsTyped'
<1>1. Idle.at = "idle"
  BY DEF Idle
<1>2. QED
  BY <1>1, OpChanges DEF Done

\* A deletion takes its next step.
LEMMA DeletionSteps ==
  ASSUME StoresTyped, OpsTyped, DocsKept, NEW t \in Threads,
         ops[t].at \in {"move", "list", "name", "unrow"},
         NEW at \in {"list", "name", "unrow"}, NEW e \in Nat,
         at \in {"list", "name"} => e \in Entries,
         ops' = [ops EXCEPT ![t].at = at, ![t].entry = e]
  PROVE  OpsTyped'
<1> DEFINE r == [ops[t] EXCEPT !.at = at, !.entry = e]
<1>1. ops[t] \in Deletion /\ ops[t].doc \in Docs
  BY OpIs DEF OpsTyped
<1>2. r \in Deletion /\ r.at = at /\ r.entry = e /\ r.doc = ops[t].doc
  BY <1>1 DEF Deletion
<1>3. ops' = [ops EXCEPT ![t] = r]
  BY <1>1 DEF OpsTyped
<1>4. r.doc \in Docs'
  BY <1>1, <1>2 DEF StoresTyped, DocsKept, Docs
<1> HIDE DEF r
<1>5. QED
  BY <1>2, <1>3, <1>4, OpChanges

\* The same when the deletion stays with its entry.
LEMMA DeletionMovesOn ==
  ASSUME StoresTyped, OpsTyped, DocsKept, NEW t \in Threads,
         ops[t].at \in {"move", "list", "name", "unrow"},
         NEW at \in {"name", "unrow"},
         at = "name" => ops[t].at \in {"list", "name"},
         Step(t, at)
  PROVE  OpsTyped'
<1>1. ops[t] \in Deletion
  BY OpIs
<1>2. ops' = [ops EXCEPT ![t].at = at, ![t].entry = ops[t].entry]
  BY <1>1 DEF Step, OpsTyped, Deletion
<1>3. ops[t].entry \in Nat /\ (at = "name" => ops[t].entry \in Entries)
  BY <1>1 DEF Deletion, OpsTyped
<1>4. QED
  BY <1>2, <1>3, DeletionSteps

\* A restoration or a drop takes its next step.
LEMMA EntryOpSteps ==
  ASSUME StoresTyped, OpsTyped, DocsKept, NEW t \in Threads,
         ops[t].at \in {"write", "create", "path", "clear"},
         NEW at \in {"create", "path", "clear", "unlist"}, NEW d \in Nat,
         ops[t].at = "clear" => at = "unlist",
         at = "create" => ops[t].at = "write",
         at = "path" => d \in Docs',
         ops' = [ops EXCEPT ![t].at = at, ![t].doc = d]
  PROVE  OpsTyped'
<1> DEFINE r == [ops[t] EXCEPT !.at = at, !.doc = d]
<1>1. /\ ops[t] \in Restoration \union Dropping
      /\ ops[t].at \in {"write", "create", "path"} => ops[t] \in Restoration
      /\ ops[t].at = "write" => ops[t].content \in Request
  BY OpIs DEF OpsTyped
<1>2. r \in Restoration \union Dropping /\ r.at = at /\ r.doc = d /\ r.content = ops[t].content
  BY <1>1 DEF Restoration, Dropping
<1>3. ops' = [ops EXCEPT ![t] = r]
  BY <1>1 DEF OpsTyped
<1>4. at = "create" => r.content \in Request
  BY <1>1, <1>2
<1> HIDE DEF r
<1>5. QED
  BY <1>2, <1>3, <1>4, OpChanges

\* The same when the operation stays with its document.
LEMMA EntryOpMovesOn ==
  ASSUME StoresTyped, OpsTyped, DocsKept, NEW t \in Threads,
         ops[t].at \in {"write", "create", "path", "clear"},
         NEW at \in {"create", "clear", "unlist"},
         ops[t].at = "clear" => at = "unlist",
         at = "create" => ops[t].at = "write",
         Step(t, at)
  PROVE  OpsTyped'
<1>1. ops[t] \in Restoration \union Dropping
  BY OpIs
<1>2. ops' = [ops EXCEPT ![t].at = at, ![t].doc = ops[t].doc] /\ ops[t].doc \in Nat
  BY <1>1 DEF Step, OpsTyped, Restoration, Dropping
<1>3. QED
  BY <1>2, EntryOpSteps

\* The deletion of a document.
LEMMA DeletionTyped ==
  ASSUME Typed, NEW t \in Threads,
         \/ \E d \in Docs : DeleteDocument(t, d)
         \/ MoveToTrash(t) \/ ListEntry(t) \/ NameEntry(t) \/ DeleteRow(t)
  PROVE  Typed'
<1> USE DEF Typed
<1>1. ASSUME NEW d \in Docs, DeleteDocument(t, d) PROVE Typed'
  <2>1. StoresTyped' /\ DocsKept
    BY <1>1, FilesTyped DEF DeleteDocument, Quiet, StoresTyped
  <2> DEFINE r == [kind |-> "delete", at |-> "move", doc |-> d, entry |-> 0]
  <2>2. r \in Deletion /\ r.doc \in Docs' /\ r.at = "move"
    BY <2>1 DEF Deletion, StoresTyped, DocsKept, Docs
  <2>3. ops' = [ops EXCEPT ![t] = r]
    BY <1>1 DEF DeleteDocument
  <2> HIDE DEF r
  <2>4. OpsTyped'
    BY <2>1, <2>2, <2>3, OpChanges
  <2>5. QED
    BY <1>1, <2>1, <2>4, RestTyped DEF DeleteDocument, Quiet
<1>2. CASE MoveToTrash(t)
  <2>1. UNCHANGED <<keys, up, faults, torn, stuck, docs>>
    BY <1>2 DEF MoveToTrash, Quiet, files
  <2>2. DocsKept
    BY <2>1, SameDocs
  <2>3. ASSUME NEW e \in Entries,
               trash' = [trash EXCEPT ![e].object = docs[ops[t].doc].hash],
               ops' = [ops EXCEPT ![t].at = "list", ![t].entry = e],
               originals' = originals \ {docs[ops[t].doc].hash},
               UNCHANGED <<kbs, docs, rows, paths, stored, discarded>>
        PROVE  StoresTyped' /\ OpsTyped'
    <3>1. ops[t].doc \in Docs
      BY <1>2, OpIs DEF MoveToTrash, Op, OpsTyped
    <3>2. docs[ops[t].doc].hash \in Contents
      BY <3>1, DocIs
    <3>3. StoresTyped'
      BY <2>1, <2>3, <3>2 DEF StoresTyped, Place, Docs
    <3>4. e \in Nat
      BY DEF Entries
    <3>5. OpsTyped'
      BY <1>2, <2>2, <2>3, <3>4, DeletionSteps DEF MoveToTrash, Op
    <3>6. QED
      BY <3>3, <3>5
  <2>4. ASSUME Step(t, "unrow"), UNCHANGED files
        PROVE  StoresTyped' /\ OpsTyped'
    <3>1. StoresTyped'
      BY <2>1, <2>4, FilesTyped DEF StoresTyped
    <3>2. OpsTyped'
      BY <1>2, <2>2, <2>4, DeletionMovesOn DEF MoveToTrash, Op
    <3>3. QED
      BY <3>1, <3>2
  <2>5. StoresTyped' /\ OpsTyped'
    BY <1>2, <2>3, <2>4 DEF MoveToTrash
  <2>6. QED
    BY <2>1, <2>2, <2>5, RestTyped
<1>3. CASE ListEntry(t)
  <2>1. UNCHANGED <<keys, up, faults, torn, stuck, docs>> /\ ops[t].at = "list"
    BY <1>3 DEF ListEntry, Quiet, Op
  <2>2. DocsKept
    BY <2>1, SameDocs
  <2>3. ops[t].entry \in Entries
    BY <2>1 DEF OpsTyped
  <2>4. StoresTyped'
    BY <1>3, <2>3 DEF ListEntry, Quiet, StoresTyped, Place, Docs
  <2>5. OpsTyped'
    BY <1>3, <2>1, <2>2, DeletionMovesOn DEF ListEntry
  <2>6. QED
    BY <2>1, <2>2, <2>4, <2>5, RestTyped
<1>4. CASE NameEntry(t)
  <2>1. UNCHANGED <<keys, up, faults, torn, stuck, docs>> /\ ops[t].at = "name"
    BY <1>4 DEF NameEntry, Quiet, Op
  <2>2. DocsKept
    BY <2>1, SameDocs
  <2>3. ops[t].entry \in Entries /\ ops[t].doc \in Docs
    BY <2>1 DEF OpsTyped
  <2>4. docs[ops[t].doc].kb \in Kbs
    BY <2>3, DocIs
  <2>5. StoresTyped'
    BY <1>4, <2>3, <2>4 DEF NameEntry, Quiet, StoresTyped, Place, Docs
  <2>6. OpsTyped'
    BY <1>4, <2>1, <2>2, DeletionMovesOn DEF NameEntry
  <2>7. QED
    BY <2>1, <2>2, <2>5, <2>6, RestTyped
<1>5. CASE DeleteRow(t)
  <2>1. UNCHANGED <<keys, up, faults, torn, stuck, docs>>
    BY <1>5 DEF DeleteRow, Quiet
  <2>2. DocsKept
    BY <2>1, SameDocs
  <2>3. StoresTyped'
    BY <1>5 DEF DeleteRow, Quiet, StoresTyped, Docs
  <2>4. OpsTyped'
    BY <1>5, <2>2, OpEnds DEF DeleteRow
  <2>5. QED
    BY <2>1, <2>2, <2>3, <2>4, RestTyped
<1>6. QED
  BY <1>1, <1>2, <1>3, <1>4, <1>5

\* The deletion of a knowledge base: no row outlives its base.
LEMMA BaseDeletionTyped ==
  ASSUME Typed, NEW t \in Threads,
         (\E kb \in Kbs : DeleteBase(t, kb)) \/ PurgeContent(t) \/ DropBase(t)
  PROVE  Typed'
<1> USE DEF Typed
<1>1. ASSUME NEW kb \in Kbs, DeleteBase(t, kb) PROVE Typed'
  <2>1. StoresTyped' /\ DocsKept
    BY <1>1, FilesTyped DEF DeleteBase, Quiet, StoresTyped
  <2> DEFINE r == [kind |-> "deletebase", at |-> "purge", base |-> kb,
                   rest |-> {d \in rows : docs[d].kb = kb}]
  <2>2. r \in BaseDeletion /\ r.at = "purge"
    <3>1. rows \subseteq Nat
      BY DEF StoresTyped, Docs
    <3>2. {d \in rows : docs[d].kb = kb} \subseteq Nat
      BY <3>1
    <3>3. QED
      BY <3>2 DEF BaseDeletion
  <2>3. ops' = [ops EXCEPT ![t] = r]
    BY <1>1 DEF DeleteBase
  <2> HIDE DEF r
  <2>4. OpsTyped'
    BY <2>1, <2>2, <2>3, OpChanges
  <2>5. QED
    BY <1>1, <2>1, <2>4, RestTyped DEF DeleteBase, Quiet
<1>2. CASE PurgeContent(t)
  <2>1. UNCHANGED <<keys, up, faults, torn, stuck, docs>> /\ ops[t].at = "purge"
    BY <1>2 DEF PurgeContent, Quiet, Op
  <2>2. DocsKept
    BY <2>1, SameDocs
  <2>3. PICK d \in ops[t].rest :
          /\ ops' = [ops EXCEPT ![t].rest = @ \ {d}]
          /\ IF d \in rows /\ Movable(d)
             THEN /\ originals' = originals \ {docs[d].hash}
                  /\ discarded' = discarded \union {docs[d].hash}
             ELSE UNCHANGED <<originals, discarded>>
    BY <1>2 DEF PurgeContent
  <2>4. originals' \subseteq Contents /\ discarded' \subseteq Contents
    <3>1. d \in rows => docs[d].hash \in Contents
      BY DocIs DEF StoresTyped
    <3>2. QED
      BY <2>3, <3>1 DEF StoresTyped
  <2>5. StoresTyped'
    BY <1>2, <2>1, <2>4 DEF PurgeContent, StoresTyped, Docs
  <2> DEFINE r == [ops[t] EXCEPT !.rest = ops[t].rest \ {d}]
  <2>6. ops[t] \in BaseDeletion
    BY <2>1, OpIs
  <2>7. r \in BaseDeletion /\ r.at = "purge"
    BY <2>1, <2>6 DEF BaseDeletion
  <2>8. ops' = [ops EXCEPT ![t] = r]
    BY <2>3 DEF OpsTyped
  <2> HIDE DEF r
  <2>9. OpsTyped'
    BY <2>2, <2>7, <2>8, OpChanges
  <2>10. QED
    BY <2>1, <2>2, <2>5, <2>9, RestTyped
<1>3. CASE DropBase(t)
  <2>1. UNCHANGED <<keys, up, faults, torn, stuck, docs>>
    BY <1>3 DEF DropBase, Quiet
  <2>2. DocsKept
    BY <2>1, SameDocs
  <2>3. StoresTyped'
    BY <1>3 DEF DropBase, Quiet, StoresTyped, Docs
  <2>4. OpsTyped'
    BY <1>3, <2>2, OpEnds DEF DropBase
  <2>5. QED
    BY <2>1, <2>2, <2>3, <2>4, RestTyped
<1>4. QED
  BY <1>1, <1>2, <1>3

\* What a thread is told to do with an entry.
LEMMA OnEntryIs ==
  ASSUME StoresTyped, NEW e \in Entries
  PROVE  /\ OnEntry("restore", "write", e) \in Restoration
         /\ OnEntry("drop", "clear", e) \in Dropping
         /\ trash[e].object # Nothing /\ trash[e].base # Nothing =>
              OnEntry("restore", "write", e).content \in Request
<1>1. trash[e] \in Place
  BY DEF StoresTyped
<1>2. QED
  BY <1>1 DEF Place, OnEntry, Restoration, Dropping, Content, Request

\* Restorations and drops.
LEMMA EntryTyped ==
  ASSUME Typed, NEW t \in Threads,
         \/ \E e \in Entries : Restore(t, e) \/ DropEntry(t, e)
         \/ WriteBack(t) \/ RestoreRow(t) \/ RestorePath(t)
         \/ ClearEntry(t) \/ UnlistEntry(t)
  PROVE  Typed'
<1> USE DEF Typed
<1>1. ASSUME NEW e \in Entries, Restore(t, e) \/ DropEntry(t, e) PROVE Typed'
  <2>1. UNCHANGED files /\ Quiet
    BY <1>1 DEF Restore, DropEntry
  <2>2. StoresTyped' /\ DocsKept
    BY <2>1, FilesTyped DEF Quiet, StoresTyped
  <2>3. CASE Restore(t, e)
    <3> DEFINE r == OnEntry("restore", "write", e)
    <3>1. r \in Restoration /\ r.content \in Request /\ r.at = "write"
      BY <2>3, OnEntryIs DEF Restore, OnEntry
    <3>2. ops' = [ops EXCEPT ![t] = r]
      BY <2>3 DEF Restore
    <3> HIDE DEF r
    <3>3. QED
      BY <2>1, <2>2, <3>1, <3>2, OpChanges, RestTyped DEF Quiet
  <2>4. CASE DropEntry(t, e)
    <3> DEFINE r == OnEntry("drop", "clear", e)
    <3>1. r \in Dropping /\ r.at = "clear"
      BY OnEntryIs DEF OnEntry
    <3>2. ops' = [ops EXCEPT ![t] = r]
      BY <2>4 DEF DropEntry
    <3> HIDE DEF r
    <3>3. QED
      BY <2>1, <2>2, <3>1, <3>2, OpChanges, RestTyped DEF Quiet
  <2>5. QED
    BY <1>1, <2>3, <2>4
<1>2. CASE WriteBack(t)
  <2>1. ops[t].at = "write" /\ StoreOriginal(ops[t].content.hash) /\ Step(t, "create") /\ Quiet
    BY <1>2 DEF WriteBack, Op
  <2>2. ops[t].content.hash \in Contents
    BY <2>1 DEF OpsTyped, Request
  <2>3. StoresTyped' /\ DocsKept
    BY <2>1, <2>2, OriginalTyped, SameDocs DEF Quiet, StoreOriginal
  <2>4. OpsTyped'
    BY <2>1, <2>3, EntryOpMovesOn
  <2>5. QED
    BY <2>1, <2>3, <2>4, RestTyped DEF Quiet
<1>3. CASE RestoreRow(t)
  <2> DEFINE kb == ops[t].content.kb
             h == ops[t].content.hash
  <2>1. ops[t].at = "create" /\ Quiet
    BY <1>3 DEF RestoreRow, Op
  <2>2. kb \in Kbs /\ h \in Contents
    BY <2>1 DEF OpsTyped, Request
  <2>3. CASE Creatable(kb, h)
    <3>1. CreateRow(kb, h) /\ ops' = [ops EXCEPT ![t].at = "path", ![t].doc = Len(docs) + 1]
      BY <1>3, <2>3 DEF RestoreRow
    <3>2. StoresTyped'
      BY <2>1, <2>2, <2>3, <3>1, RowTyped DEF Quiet
    <3>3. DocsKept /\ Len(docs) + 1 \in Docs'
      BY <2>2, <3>1, NewDoc
    <3>4. Len(docs) + 1 \in Nat
      BY DEF StoresTyped
    <3>5. OpsTyped'
      BY <2>1, <3>1, <3>3, <3>4, EntryOpSteps
    <3>6. QED
      BY <2>1, <3>2, <3>3, <3>5, RestTyped DEF Quiet
  <2>4. CASE ~Creatable(kb, h)
    <3>1. Done(t) /\ UNCHANGED files
      BY <1>3, <2>4 DEF RestoreRow
    <3>2. StoresTyped' /\ DocsKept
      BY <2>1, <3>1, FilesTyped DEF Quiet, StoresTyped
    <3>3. OpsTyped'
      BY <3>1, <3>2, OpEnds
    <3>4. QED
      BY <2>1, <3>2, <3>3, RestTyped DEF Quiet
  <2>5. QED
    BY <2>3, <2>4
<1>4. CASE RestorePath(t)
  <2>1. ops[t].at = "path" /\ RecordPath(ops[t].doc) /\ Step(t, "clear") /\ Quiet
    BY <1>4 DEF RestorePath, Op
  <2>2. ops[t].doc \in Docs
    BY <2>1 DEF OpsTyped
  <2>3. StoresTyped' /\ DocsKept
    BY <2>1, <2>2, PathTyped, SameDocs DEF Quiet, RecordPath
  <2>4. OpsTyped'
    BY <2>1, <2>3, EntryOpMovesOn
  <2>5. QED
    BY <2>1, <2>3, <2>4, RestTyped DEF Quiet
<1>5. CASE ClearEntry(t)
  <2>1. UNCHANGED <<keys, up, faults, torn, stuck, docs>> /\ ops[t].at = "clear"
    BY <1>5 DEF ClearEntry, Quiet
  <2>2. DocsKept
    BY <2>1, SameDocs
  <2>3. ops[t].entry \in Entries
    BY <2>1, OpIs DEF Restoration, Dropping
  <2>4. trash[ops[t].entry] \in Place
    BY <2>3 DEF StoresTyped
  <2>5. StoresTyped'
    BY <1>5, <2>1, <2>3, <2>4 DEF ClearEntry, StoresTyped, Place, Docs
  <2>6. OpsTyped'
    BY <1>5, <2>1, <2>2, EntryOpMovesOn DEF ClearEntry
  <2>7. QED
    BY <2>1, <2>2, <2>5, <2>6, RestTyped
<1>6. CASE UnlistEntry(t)
  <2>1. UNCHANGED <<keys, up, faults, torn, stuck, docs>> /\ ops[t].at = "unlist"
    BY <1>6 DEF UnlistEntry, Quiet
  <2>2. DocsKept
    BY <2>1, SameDocs
  <2>3. StoresTyped'
    BY <1>6, <2>1 DEF UnlistEntry, StoresTyped, Place, Docs
  <2>4. OpsTyped'
    BY <1>6, <2>2, OpEnds DEF UnlistEntry
  <2>5. QED
    BY <2>1, <2>2, <2>3, <2>4, RestTyped
<1>7. QED
  BY <1>1, <1>2, <1>3, <1>4, <1>5, <1>6

\* The purge of expired entries.
LEMMA MaintenanceTyped ==
  ASSUME Typed, NEW t \in Threads,
         (\E expired \in SUBSET Entries : PurgeTrash(t, expired)) \/ PurgeObject(t)
  PROVE  Typed'
<1> USE DEF Typed
<1>1. ASSUME NEW expired \in SUBSET Entries, PurgeTrash(t, expired) PROVE Typed'
  <2>1. UNCHANGED <<keys, up, faults, torn, stuck, docs>>
    BY <1>1 DEF PurgeTrash, Quiet
  <2>2. DocsKept
    BY <2>1, SameDocs
  <2>3. trash' \in [Entries -> Place]
    BY <1>1 DEF PurgeTrash, StoresTyped, Place
  <2>4. discarded' \subseteq Contents
    BY <1>1 DEF PurgeTrash, StoresTyped, Place
  <2>5. StoresTyped'
    BY <1>1, <2>1, <2>3, <2>4 DEF PurgeTrash, StoresTyped, Docs
  <2> DEFINE r == [kind |-> "purge", at |-> "objects", rest |-> expired]
  <2>6. r \in Purge /\ r.at = "objects"
    BY DEF Purge
  <2>7. ops' = [ops EXCEPT ![t] = r]
    BY <1>1 DEF PurgeTrash
  <2> HIDE DEF r
  <2>8. OpsTyped'
    BY <2>2, <2>6, <2>7, OpChanges
  <2>9. QED
    BY <2>1, <2>2, <2>5, <2>8, RestTyped
<1>2. CASE PurgeObject(t)
  <2>1. UNCHANGED <<keys, up, faults, torn, stuck, docs>> /\ ops[t].at = "objects"
    BY <1>2 DEF PurgeObject, Quiet, Op
  <2>2. DocsKept
    BY <2>1, SameDocs
  <2>3. PICK e \in ops[t].rest :
          /\ trash' = [trash EXCEPT ![e].object = Nothing]
          /\ Done(t) \/ ops' = [ops EXCEPT ![t].rest = @ \ {e}]
    BY <1>2 DEF PurgeObject
  <2>4. StoresTyped'
    BY <1>2, <2>1, <2>3 DEF PurgeObject, StoresTyped, Place, Docs
  <2> DEFINE r == [ops[t] EXCEPT !.rest = ops[t].rest \ {e}]
  <2>5. r \in Purge /\ r.at = "objects"
    BY <2>1, OpIs DEF Purge
  <2>6. Done(t) \/ ops' = [ops EXCEPT ![t] = r]
    BY <2>3 DEF OpsTyped
  <2> HIDE DEF r
  <2>7. OpsTyped'
    BY <2>2, <2>5, <2>6, OpChanges, OpEnds
  <2>8. QED
    BY <2>1, <2>2, <2>4, <2>7, RestTyped
<1>3. QED
  BY <1>1, <1>2

-----------------------------------------------------------------------------
(* A crash, and the whole of Next, keep Typed.                              *)

\* Whatever a crash leaves torn is a place of the trash.
LEMMA HandlingIs ==
  ASSUME OpsTyped, NEW t \in Threads
  PROVE  /\ Handling(t) \subseteq Entries
         /\ \A e : e \in Handling(t) <=>
              ops[t].at \in {"list", "name", "unlist"} /\ ops[t].entry = e
<1>1. CASE ops[t] = Idle
  BY <1>1 DEF Handling, Idle
<1>2. CASE ops[t] \in Deletion
  <2>1. ops[t].kind = "delete" /\ ops[t].at # "unlist" /\ ops[t] # Idle
    BY <1>2 DEF Deletion, Idle
  <2>2. Handling(t) = IF ops[t].at \in {"list", "name"} THEN {ops[t].entry} ELSE {}
    BY <2>1 DEF Handling
  <2>3. QED
    BY <2>1, <2>2 DEF OpsTyped
<1>3. CASE ops[t] \in Restoration \union Dropping
  <2>1. /\ ops[t].kind \in {"restore", "drop"} /\ ops[t].at \notin {"list", "name"}
        /\ ops[t].entry \in Entries /\ ops[t] # Idle
    BY <1>3 DEF Restoration, Dropping, Idle
  <2>2. Handling(t) = IF ops[t].at = "unlist" THEN {ops[t].entry} ELSE {}
    BY <2>1 DEF Handling
  <2>3. QED
    BY <2>1, <2>2
<1>4. CASE ops[t] \in BaseDeletion \union Purge
  <2>1. /\ ops[t].kind \in {"deletebase", "purge"} /\ ops[t] # Idle
        /\ ops[t].at \notin {"list", "name", "unlist"}
    BY <1>4 DEF BaseDeletion, Purge, Idle
  <2>2. Handling(t) = {}
    BY <2>1 DEF Handling
  <2>3. QED
    BY <2>1, <2>2
<1>5. QED
  BY <1>1, <1>2, <1>3, <1>4 DEF OpsTyped

\* A crash: what it leaves torn or stuck are entries and keys.
LEMMA CrashTyped == ASSUME Typed, Crash PROVE Typed'
<1>1. InHand \subseteq Entries
  BY HandlingIs DEF InHand, Typed
<1>2. faults' \in 0..MaxFaults
  BY OneMoreFault DEF Typed, Crash
<1>3. StoresTyped' /\ DocsKept
  BY <1>1, <1>2, FilesTyped DEF Typed, Crash, StoresTyped
<1>4. Holding \subseteq Keys
  BY AskedIs DEF Holding, Typed
<1>5. KeysTyped'
  BY <1>4 DEF Typed, KeysTyped, Crash, files, Docs
<1>6. UploadsTyped'
  BY DEF UploadsTyped, Crash
<1>7. OpsTyped'
  BY DEF OpsTyped, Crash, Idle
<1>8. QED
  BY <1>3, <1>5, <1>6, <1>7 DEF Typed

\* An operation given up: what it leaves torn are entries.
LEMMA AbandonTyped == ASSUME Typed, NEW t \in Threads, Abandon(t) PROVE Typed'
<1>1. Handling(t) \subseteq Entries
  BY HandlingIs DEF Typed
<1>2. faults' \in 0..MaxFaults
  BY OneMoreFault DEF Typed, Abandon
<1>3. StoresTyped' /\ DocsKept
  BY <1>1, <1>2, FilesTyped DEF Typed, Abandon, StoresTyped
<1>4. KeysTyped' /\ UploadsTyped'
  BY <1>3, RestTyped DEF Typed, Abandon
<1>5. OpsTyped'
  BY <1>3, OpEnds DEF Typed, Abandon
<1>6. QED
  BY <1>3, <1>4, <1>5 DEF Typed

\* The empty library.
LEMMA InitTyped == Init => Typed
<1> SUFFICES ASSUME Init PROVE Typed
  OBVIOUS
<1>1. StoresTyped
  BY LibraryAssumption DEF Init, StoresTyped, Docs, Place, Blank
<1>2. KeysTyped
  BY DEF Init, KeysTyped
<1>3. UploadsTyped
  BY DEF Init, UploadsTyped
<1>4. OpsTyped
  BY DEF Init, OpsTyped, Idle
<1>5. QED
  BY <1>1, <1>2, <1>3, <1>4 DEF Typed

\* No step at all.
LEMMA StutterTyped == Typed /\ UNCHANGED vars => Typed'
<1> SUFFICES ASSUME Typed, UNCHANGED vars PROVE Typed'
  OBVIOUS
<1>1. StoresTyped' /\ DocsKept
  BY FilesTyped DEF Typed, vars, StoresTyped
<1>2. QED
  BY <1>1, RestTyped DEF Typed, vars

-----------------------------------------------------------------------------
(* KeysMatch.                                                               *)

\* Only the request has a key, so nobody else has its key.
LEMMA OneKeyHolder ==
  ASSUME UploadsTyped, NEW u \in Uploaders, NEW v \in Uploaders,
         up[u] # Idle, up[v] # Idle, up[u].key # Nothing, up[v].key # Nothing
  PROVE  u = v
  BY DEF UploadsTyped

\* Who was told an answer has a record with a key and a document.
LEMMA ToldIs ==
  ASSUME Typed, OnlyKeysAreTold, NEW u \in Uploaders, up[u].at = "told"
  PROVE  up[u] # Idle /\ up[u].key \in Keys /\ up[u].doc \in Docs
  BY UploadIs DEF Typed, UploadsTyped, OnlyKeysAreTold, Upload

\* Nothing about keys changes while documents are added.
LEMMA KeysRest ==
  ASSUME Typed, KeysMatch, DocsKept, UNCHANGED <<keys, up, stuck>>
  PROVE  KeysMatch'
<1> USE DEF KeysMatch
<1>1. AnswersFit'
  BY DEF AnswersFit, Typed, KeysTyped, DocsKept
<1>2. RequestsFit'
  BY DEF RequestsFit, Running
<1>3. OnlyKeysAreTold'
  BY DEF OnlyKeysAreTold
<1>4. AnswersAgree'
  BY ToldIs DEF AnswersAgree, DocsKept
<1>5. KeysAreReleased'
  BY DEF KeysAreReleased, Holding, Running
<1>6. QED
  BY <1>1, <1>2, <1>3, <1>4, <1>5

\* A running upload goes on under its key.
LEMMA KeysGoOn ==
  ASSUME Typed, KeysMatch, DocsKept, UNCHANGED <<keys, stuck>>,
         NEW u \in Uploaders, Running(u), NEW r,
         up' = [up EXCEPT ![u] = r],
         r.at \notin {"idle", "told"}, r.key = up[u].key, r.asked = up[u].asked
  PROVE  KeysMatch'
<1> USE DEF KeysMatch
<1>1. \A v \in Uploaders : up'[v] = IF v = u THEN r ELSE up[v]
  BY DEF Typed, UploadsTyped
<1>2. \A v \in Uploaders : Running(v)' <=> Running(v)
  BY <1>1 DEF Running
<1>3. \A v \in Uploaders : Running(v) => up'[v].key = up[v].key /\ up'[v].asked = up[v].asked
  BY <1>1
<1>4. \A v \in Uploaders : up'[v].at = "told" => v # u /\ up'[v] = up[v]
  BY <1>1
<1>5. AnswersFit'
  BY DEF AnswersFit, Typed, KeysTyped, DocsKept
<1>6. RequestsFit'
  BY <1>2, <1>3 DEF RequestsFit
<1>7. OnlyKeysAreTold'
  BY <1>4 DEF OnlyKeysAreTold
<1>8. AnswersAgree'
  BY <1>4, ToldIs DEF AnswersAgree, DocsKept
<1>9. Holding' = Holding
  BY <1>2, <1>3 DEF Holding
<1>10. KeysAreReleased'
  BY <1>9 DEF KeysAreReleased
<1>11. QED
  BY <1>5, <1>6, <1>7, <1>8, <1>10

\* An upload that was not running leaves the keys alone.
LEMMA KeysNotTaken ==
  ASSUME Typed, KeysMatch, UNCHANGED <<keys, stuck, docs>>,
         NEW u \in Uploaders, ~Running(u), NEW r,
         up' = [up EXCEPT ![u] = r],
         r.at \notin {"idle", "told"} => r.key = Nothing,
         r.at = "told" => /\ r.key # Nothing /\ docs[r.doc] = r.asked
                          /\ keys[r.key].answer = r.doc
  PROVE  KeysMatch'
<1> USE DEF KeysMatch
<1>1. \A v \in Uploaders : up'[v] = IF v = u THEN r ELSE up[v]
  BY DEF Typed, UploadsTyped
<1>2. AnswersFit'
  BY DEF AnswersFit
<1>3. RequestsFit'
  BY <1>1 DEF RequestsFit, Running
<1>4. OnlyKeysAreTold'
  BY <1>1 DEF OnlyKeysAreTold
<1>5. AnswersAgree'
  BY <1>1 DEF AnswersAgree
<1>6. \A v \in Uploaders : Running(v) => v # u /\ Running(v)' /\ up'[v].key = up[v].key
  BY <1>1 DEF Running
<1>7. Holding \subseteq Holding'
  BY <1>6 DEF Holding
<1>8. KeysAreReleased'
  BY <1>7 DEF KeysAreReleased
<1>9. QED
  BY <1>2, <1>3, <1>4, <1>5, <1>8

\* A request takes a free key, or is told what was answered under it.
LEMMA ReceiveKeys ==
  ASSUME Typed, KeysMatch, NEW u \in Uploaders, NEW key \in Keys \union {Nothing},
         NEW kb \in Kbs, NEW h \in Contents, Receive(u, key, kb, h)
  PROVE  KeysMatch'
<1> DEFINE asked == [kb |-> kb, hash |-> h]
           r == Uploading(key, kb, h, "look", 0)
<1>1. ~Running(u) /\ docs' = docs /\ stuck' = stuck
  BY DEF Receive, Free, files
<1>2. r.at = "look" /\ r.key = key /\ r.asked = asked
  BY DEF Uploading
<1>3. CASE key = Nothing
  <2>1. keys' = keys /\ up' = [up EXCEPT ![u] = r]
    BY <1>3 DEF Receive
  <2> HIDE DEF r
  <2>2. QED
    BY <1>1, <1>2, <1>3, <2>1, KeysNotTaken
<1>4. CASE key # Nothing /\ keys[key] = Nothing
  <2> DEFINE rec == [asked |-> asked, answer |-> Nothing]
  <2>1. /\ up' = [up EXCEPT ![u] = r] /\ keys' = [keys EXCEPT ![key] = rec]
        /\ key \in Keys /\ u = "request"
    BY <1>4 DEF Receive, Uploaders
  <2>2. rec.asked = asked /\ rec.answer = Nothing /\ rec # Nothing
    <3>1. rec \in KeyRecord
      BY DEF KeyRecord, Request
    <3>2. rec # Nothing
      BY <3>1, LibraryAssumption DEF KeyRecord, Request
    <3>3. QED
      BY <3>2
  <2> HIDE DEF rec, r, asked
  <2>3. \A v \in Uploaders : up'[v] = IF v = u THEN r ELSE up[v]
    BY <2>1 DEF Typed, UploadsTyped
  <2>4. \A k \in Keys : keys'[k] = IF k = key THEN rec ELSE keys[k]
    BY <2>1 DEF Typed, KeysTyped
  <2>5. \A v \in Uploaders \ {u} : up[v] # Idle => up[v].key = Nothing
    BY <2>1 DEF Typed, UploadsTyped
  <2>6. AnswersFit'
    BY <1>1, <2>2, <2>4 DEF AnswersFit, KeysMatch
  <2>7. RequestsFit'
    BY <1>2, <1>4, <2>2, <2>3, <2>4, <2>1, <2>5 DEF RequestsFit, Running, Idle
  <2>8. \A v \in Uploaders : up'[v].at # "told"
    BY <1>2, <2>3, <2>5 DEF KeysMatch, OnlyKeysAreTold, Idle
  <2>9. OnlyKeysAreTold' /\ AnswersAgree'
    BY <2>8 DEF OnlyKeysAreTold, AnswersAgree
  <2>10. Holding \union {key} \subseteq Holding'
    BY <1>1, <1>2, <1>4, <2>3 DEF Holding, Running
  <2>11. KeysAreReleased'
    BY <1>1, <2>4, <2>10 DEF KeysAreReleased, KeysMatch
  <2>12. QED
    BY <2>6, <2>7, <2>9, <2>11 DEF KeysMatch
<1>5. CASE key # Nothing /\ keys[key] # Nothing
  <2>1. keys' = keys
    BY <1>5 DEF Receive
  <2>2. CASE Judged(key, asked) = Nothing
    <3>1. up' = [up EXCEPT ![u] = Idle] /\ Idle.at = "idle"
      BY <1>5, <2>2 DEF Receive, Idle
    <3>2. QED
      BY <1>1, <2>1, <3>1, KeysNotTaken
  <2>3. CASE Judged(key, asked) # Nothing
    <3> DEFINE d == keys[key].answer
               s == Uploading(key, kb, h, "told", d)
    <3>1. keys[key].asked = asked /\ d # Nothing /\ Judged(key, asked) = d
      BY <2>3 DEF Judged
    <3>2. docs[d] = asked
      BY <1>5, <3>1 DEF KeysMatch, AnswersFit
    <3>3. up' = [up EXCEPT ![u] = s]
      BY <1>5, <2>3, <3>1 DEF Receive
    <3>4. s.at = "told" /\ s.key = key /\ s.doc = d /\ s.asked = asked
      BY DEF Uploading
    <3> HIDE DEF s
    <3>5. QED
      BY <1>1, <1>5, <2>1, <3>2, <3>3, <3>4, KeysNotTaken
  <2>4. QED
    BY <2>2, <2>3
<1>6. QED
  BY <1>3, <1>4, <1>5

\* The steps of an upload before its answer.
LEMMA UploadStepKeys ==
  ASSUME Typed, KeysMatch, NEW u \in Uploaders,
         Look(u) \/ Write(u) \/ Create(u) \/ SetPath(u) \/ Enqueue(u) \/ Fail(u), DocsKept
  PROVE  KeysMatch'
<1>1. Running(u) /\ up[u] \in Upload /\ up[u] # Idle
  BY UploadIs DEF Running, Look, Write, Create, SetPath, Enqueue, Fail, Typed
<1>2. UNCHANGED <<keys, stuck>>
  BY DEF Look, Write, Create, SetPath, Enqueue, Fail
<1>3. \E at \in {"write", "create", "path", "enqueue", "complete", "release"}, d \in Nat :
        up' = [up EXCEPT ![u] = [up[u] EXCEPT !.at = at, !.doc = d]]
  <2>1. ASSUME NEW at \in {"write", "create", "enqueue", "complete", "release"},
               Advance(u, at)
        PROVE  up' = [up EXCEPT ![u] = [up[u] EXCEPT !.at = at, !.doc = up[u].doc]]
    BY <1>1, <2>1 DEF Advance, Typed, UploadsTyped, Upload
  <2>2. up[u].doc \in Nat
    BY <1>1 DEF Upload
  <2>3. CASE \E at \in {"write", "create", "enqueue", "complete", "release"} : Advance(u, at)
    BY <2>1, <2>2, <2>3
  <2>4. CASE \E at \in {"path", "complete"}, d \in Nat : up' = [up EXCEPT ![u].at = at, ![u].doc = d]
    BY <1>1, <2>4 DEF Typed, UploadsTyped
  <2>5. Len(docs) + 1 \in Nat /\ rows \subseteq Nat
    BY DEF Typed, StoresTyped, Docs
  <2>6. \/ \E at \in {"write", "create", "enqueue", "complete", "release"} : Advance(u, at)
        \/ \E at \in {"path", "complete"}, d \in Nat : up' = [up EXCEPT ![u].at = at, ![u].doc = d]
    BY <2>5 DEF Look, Write, Create, SetPath, Enqueue, Fail, Having
  <2>7. QED
    BY <2>3, <2>4, <2>6
<1>4. PICK at \in {"write", "create", "path", "enqueue", "complete", "release"}, d \in Nat :
        up' = [up EXCEPT ![u] = [up[u] EXCEPT !.at = at, !.doc = d]]
  BY <1>3
<1> DEFINE r == [up[u] EXCEPT !.at = at, !.doc = d]
<1>5. r.at = at /\ r.key = up[u].key /\ r.asked = up[u].asked
  BY <1>1 DEF Upload
<1> HIDE DEF r
<1>6. r.at \notin {"idle", "told"} /\ up' = [up EXCEPT ![u] = r]
  BY <1>4, <1>5 DEF r
<1>7. QED
  BY <1>1, <1>2, <1>5, <1>6, KeysGoOn

\* The answer is hung on the key, or lost to a fault that leaves it stuck.
LEMMA CompleteKeys ==
  ASSUME Typed, KeysMatch, NEW u \in Uploaders, Complete(u)
  PROVE  KeysMatch'
<1> DEFINE key == up[u].key
           d == up[u].doc
<1>1. /\ up[u].at = "complete" /\ Running(u) /\ up[u] \in Upload /\ up[u] # Idle
      /\ key \in Keys \union {Nothing} /\ docs' = docs
  BY UploadIs, AskedIs DEF Running, Complete, Typed, files
<1>2. d \in Docs /\ docs[d] = up[u].asked /\ d \in Nat /\ d # Nothing
  BY <1>1, LibraryAssumption DEF Typed, UploadsTyped, Docs
<1>3. CASE key = Nothing
  <2>1. up' = [up EXCEPT ![u] = Idle] /\ keys' = keys /\ stuck' = stuck
    BY <1>3, LibraryAssumption DEF Complete
  <2>2. \A v \in Uploaders : up'[v] = IF v = u THEN Idle ELSE up[v]
    BY <2>1 DEF Typed, UploadsTyped
  <2>3. AnswersFit'
    BY <1>1, <2>1 DEF KeysMatch, AnswersFit
  <2>4. RequestsFit' /\ OnlyKeysAreTold'
    BY <2>1, <2>2 DEF KeysMatch, RequestsFit, OnlyKeysAreTold, Running, Idle
  <2>5. AnswersAgree'
    BY <1>1, <2>1, <2>2 DEF KeysMatch, AnswersAgree, Idle
  <2>6. Holding \subseteq Holding'
    BY <1>3, <2>2 DEF Holding, Running
  <2>7. KeysAreReleased'
    BY <2>1, <2>6 DEF KeysMatch, KeysAreReleased
  <2>8. QED
    BY <2>3, <2>4, <2>5, <2>7 DEF KeysMatch
<1>4. CASE key # Nothing
  <2> DEFINE r == [up[u] EXCEPT !.at = "told"]
  <2>1. up' = [up EXCEPT ![u] = r] /\ key \in Keys
    BY <1>1, <1>4 DEF Complete
  <2>2. r.at = "told" /\ r.key = key /\ r.doc = d /\ r.asked = up[u].asked
    BY <1>1 DEF Upload
  <2>3. /\ keys[key] # Nothing /\ keys[key].asked = up[u].asked
        /\ keys[key].answer = Nothing /\ keys[key] \in KeyRecord
    BY <1>1, <1>4, <2>1 DEF KeysMatch, RequestsFit, Typed, KeysTyped
  <2> HIDE DEF r
  <2>4. \A v \in Uploaders : up'[v] = IF v = u THEN r ELSE up[v]
    BY <2>1 DEF Typed, UploadsTyped
  <2>5. \A v \in Uploaders \ {u} : up[v] # Idle => up[v].key = Nothing
    BY <1>1, <1>4, OneKeyHolder DEF Typed
  <2>6. \A v \in Uploaders \ {u} : ~(Running(v)' /\ up'[v].key # Nothing) /\ up'[v].at # "told"
    BY <2>4, <2>5 DEF Running, Idle, KeysMatch, OnlyKeysAreTold
  <2>7. RequestsFit' /\ OnlyKeysAreTold'
    BY <1>4, <2>2, <2>4, <2>6 DEF RequestsFit, OnlyKeysAreTold, Running
  <2>8. Holding \ {key} = {}
    BY <2>5 DEF Holding, Running, Idle
  <2>9. \/ keys' = [keys EXCEPT ![key].answer = d] /\ stuck' = stuck
        \/ keys' = keys /\ stuck' = stuck \union {key}
    BY <1>4, <2>3 DEF Complete
  <2>10. CASE keys' = [keys EXCEPT ![key].answer = d] /\ stuck' = stuck
    <3> DEFINE rec == [keys[key] EXCEPT !.answer = d]
    <3>1. rec \in KeyRecord /\ rec.asked = keys[key].asked /\ rec.answer = d
      BY <1>2, <2>3 DEF KeyRecord
    <3>2. \A k \in Keys : keys'[k] = IF k = key THEN rec ELSE keys[k]
      BY <2>10 DEF Typed, KeysTyped
    <3> HIDE DEF rec
    <3>3. AnswersFit'
      BY <1>1, <1>2, <2>3, <3>1, <3>2 DEF KeysMatch, AnswersFit
    <3>4. AnswersAgree'
      BY <1>1, <1>2, <2>1, <2>2, <2>4, <2>6, <3>1, <3>2 DEF AnswersAgree
    <3>5. KeysAreReleased'
      BY <1>2, <2>8, <2>10, <3>1, <3>2 DEF KeysMatch, KeysAreReleased
    <3>6. QED
      BY <2>7, <3>3, <3>4, <3>5 DEF KeysMatch
  <2>11. CASE keys' = keys /\ stuck' = stuck \union {key}
    <3>1. AnswersFit'
      BY <1>1, <2>11 DEF KeysMatch, AnswersFit
    <3>2. AnswersAgree'
      BY <1>1, <1>2, <2>2, <2>3, <2>4, <2>6, <2>11 DEF AnswersAgree
    <3>3. KeysAreReleased'
      BY <2>8, <2>11 DEF KeysMatch, KeysAreReleased
    <3>4. QED
      BY <2>7, <3>1, <3>2, <3>3 DEF KeysMatch
  <2>12. QED
    BY <2>9, <2>10, <2>11
<1>5. QED
  BY <1>3, <1>4

\* A key given back has no holder and no answer any more.
LEMMA ReleaseKeys ==
  ASSUME Typed, KeysMatch, NEW u \in Uploaders, Release(u)
  PROVE  KeysMatch'
<1>1. Running(u) /\ up[u] # Idle /\ docs' = docs /\ stuck \subseteq stuck'
  BY UploadIs DEF Running, Release, Typed, files
<1>2. \A v \in Uploaders : up'[v] = IF v = u THEN Idle ELSE up[v]
  BY DEF Typed, UploadsTyped, Release
<1>3. /\ \A k \in Keys :
           \/ keys'[k] = keys[k]
           \/ k = up[u].key /\ keys'[k] = Nothing
      /\ \A k \in Keys : k = up[u].key /\ keys'[k] # Nothing /\ keys'[k].answer = Nothing =>
           k \in stuck'
  BY DEF Release, Typed, KeysTyped
<1>4. \A v \in Uploaders \ {u} : up[v] # Idle /\ up[v].key # Nothing => up[v].key # up[u].key
  BY <1>1, OneKeyHolder DEF Typed
<1>5. \A v \in Uploaders : Running(v)' => v # u /\ Running(v) /\ up'[v] = up[v] /\ up[v] # Idle
  BY <1>2 DEF Running, Idle
<1>6. \A v \in Uploaders : up[v] # Idle => up[v].key \in Keys \union {Nothing}
  BY DEF Typed, UploadsTyped, Upload
<1>7. AnswersFit'
  BY <1>1, <1>3 DEF KeysMatch, AnswersFit
<1>8. RequestsFit'
  BY <1>3, <1>4, <1>5, <1>6 DEF KeysMatch, RequestsFit
<1>9. \A v \in Uploaders : up'[v].at = "told" => v # u /\ up'[v] = up[v] /\ up[v] # Idle
  BY <1>2 DEF Idle
<1>10. OnlyKeysAreTold'
  BY <1>9 DEF KeysMatch, OnlyKeysAreTold
<1>11. AnswersAgree'
  BY <1>1, <1>3, <1>6, <1>9 DEF KeysMatch, AnswersAgree, OnlyKeysAreTold
<1>12. Holding \ {up[u].key} \subseteq Holding'
  BY <1>2 DEF Holding, Running
<1>13. KeysAreReleased'
  BY <1>1, <1>3, <1>12 DEF KeysMatch, KeysAreReleased
<1>14. QED
  BY <1>7, <1>8, <1>10, <1>11, <1>13 DEF KeysMatch

\* A purged key is forgotten, and nobody runs under it.
LEMMA PurgeKeyKeys ==
  ASSUME Typed, KeysMatch, NEW k \in Keys, PurgeKey(k)
  PROVE  KeysMatch'
<1>1. docs' = docs /\ up' = up /\ stuck' = stuck \ {k}
  BY DEF PurgeKey, files
<1>2. \A j \in Keys : keys'[j] = IF j = k THEN Nothing ELSE keys[j]
  BY DEF PurgeKey, Typed, KeysTyped
<1>3. \A u \in Uploaders : Running(u) => up[u].key # k
  BY DEF PurgeKey
<1>4. AnswersFit'
  BY <1>1, <1>2 DEF KeysMatch, AnswersFit
<1>5. \A u \in Uploaders : Running(u)' <=> Running(u)
  BY <1>1 DEF Running
<1>6. \A u \in Uploaders : Running(u) /\ up[u].key # Nothing => up[u].key \in Keys
  BY AskedIs DEF Typed
<1>7. RequestsFit'
  BY <1>1, <1>2, <1>3, <1>5, <1>6 DEF KeysMatch, RequestsFit
<1>8. OnlyKeysAreTold'
  BY <1>1 DEF KeysMatch, OnlyKeysAreTold
<1>9. AnswersAgree'
  BY <1>1, <1>2, ToldIs DEF KeysMatch, AnswersAgree
<1>10. Holding' = Holding
  BY <1>1, <1>5 DEF Holding
<1>11. KeysAreReleased'
  BY <1>1, <1>2, <1>10 DEF KeysMatch, KeysAreReleased
<1>12. QED
  BY <1>4, <1>7, <1>8, <1>9, <1>11 DEF KeysMatch

\* A crash leaves the keys in use stuck.
LEMMA CrashKeys == ASSUME Typed, KeysMatch, Crash PROVE KeysMatch'
<1>1. docs' = docs /\ keys' = keys /\ stuck' = stuck \union Holding
  BY DEF Crash, files
<1>2. \A u \in Uploaders : up'[u].at = "idle"
  BY DEF Crash, Idle
<1>3. AnswersFit'
  BY <1>1 DEF KeysMatch, AnswersFit
<1>4. RequestsFit' /\ OnlyKeysAreTold' /\ AnswersAgree'
  BY <1>2 DEF RequestsFit, OnlyKeysAreTold, AnswersAgree, Running
<1>5. KeysAreReleased'
  BY <1>1 DEF KeysMatch, KeysAreReleased
<1>6. QED
  BY <1>3, <1>4, <1>5 DEF KeysMatch

\* No key is used at first.
LEMMA InitKeys == Init => KeysMatch
<1> SUFFICES ASSUME Init PROVE KeysMatch
  OBVIOUS
<1>1. AnswersFit /\ KeysAreReleased
  BY DEF Init, AnswersFit, KeysAreReleased
<1>2. RequestsFit /\ OnlyKeysAreTold /\ AnswersAgree
  BY DEF Init, RequestsFit, OnlyKeysAreTold, AnswersAgree, Running, Idle
<1>3. QED
  BY <1>1, <1>2 DEF KeysMatch

-----------------------------------------------------------------------------
(* PlacesMatch and Reachable.                                               *)

\* Nothing in the trash or on the threads changes.
LEMMA PlacesRest ==
  ASSUME PlacesMatch, UNCHANGED <<trash, ops, torn>>
  PROVE  PlacesMatch'
<1>1. FreshIsKept'
  BY DEF PlacesMatch, FreshIsKept, Touches, Making
<1>2. EntryIsKnown'
  BY DEF PlacesMatch, EntryIsKnown, Knows
<1>3. ListedIsKept'
  BY DEF PlacesMatch, ListedIsKept, Making
<1>4. QED
  BY <1>1, <1>2, <1>3 DEF PlacesMatch

\* Then a content can only be lost where originals are.
LEMMA ReachableRest ==
  ASSUME Reachable, UNCHANGED <<trash, ops, torn>>,
         \A h \in stored' \ discarded' : h \notin originals' =>
           h \in stored \ discarded /\ h \notin originals
  PROVE  Reachable'
<1>1. \A e \in Entries : Safe(e)' <=> Safe(e)
  BY DEF Safe, Kept, Spends, Making, Homed
<1>2. QED
  BY <1>1 DEF Reachable

\* Every step of an upload, and the purge of a key, is like that.
LEMMA StoredIsReachable ==
  ASSUME Reachable, NEW h, StoreOriginal(h), UNCHANGED <<ops, torn>>
  PROVE  Reachable'
<1>1. \A g \in stored' \ discarded' : g \notin originals' =>
        g \in stored \ discarded /\ g \notin originals
  BY DEF StoreOriginal
<1>2. trash' = trash
  BY DEF StoreOriginal
<1>3. QED
  BY <1>1, <1>2, ReachableRest

\* The steps of uploads and the purge of a key leave the trash alone.
LEMMA UploadPlaces ==
  ASSUME PlacesMatch, Reachable, NEW u \in Uploaders,
         \/ UploadStep(u)
         \/ \E key \in Keys \union {Nothing}, kb \in Kbs, h \in Contents : Receive(u, key, kb, h)
         \/ \E k \in Keys : PurgeKey(k)
  PROVE  PlacesMatch' /\ Reachable'
<1>1. UNCHANGED <<trash, ops, torn>>
  BY DEF UploadStep, Look, Write, Create, SetPath, Enqueue, Fail, Complete, Release, Receive,
         PurgeKey, StoreOriginal, CreateRow, RecordPath, files
<1>2. PlacesMatch'
  BY <1>1, PlacesRest
<1>3. CASE Write(u)
  BY <1>1, <1>2, <1>3, StoredIsReachable DEF Write
<1>4. CASE ~Write(u)
  <2>1. UNCHANGED <<originals, stored, discarded>>
    BY <1>4 DEF UploadStep, Look, Create, SetPath, Enqueue, Fail, Complete, Release, Receive,
           PurgeKey, CreateRow, RecordPath, files
  <2>2. QED
    BY <1>1, <1>2, <2>1, ReachableRest
<1>5. QED
  BY <1>2, <1>3, <1>4

\* A thread goes from one operation record to another beside the trash: it makes
\* no entry, takes up only entries that are listed and knows what they hold.
LEMMA BesidePlaces ==
  ASSUME Typed, PlacesMatch, NEW t \in Threads, NEW r,
         ops' = [ops EXCEPT ![t] = r], UNCHANGED <<trash, torn>>,
         ops[t].at \notin {"list", "name", "unlist"},
         r.at \notin {"list", "name", "unlist", "objects"},
         \A e \in Entries : Touches(r, e) => Touches(ops[t], e) \/ trash[e].listed,
         Knows(r)
  PROVE  PlacesMatch'
<1>1. \A s \in Threads : ops'[s] = IF s = t THEN r ELSE ops[s]
  BY DEF Typed, OpsTyped
<1>2. \A s \in Threads, e \in Entries :
        /\ Making(s, e, "list")' <=> Making(s, e, "list")
        /\ Making(s, e, "name")' <=> Making(s, e, "name")
        /\ Making(s, e, "unlist")' <=> Making(s, e, "unlist")
  BY <1>1 DEF Making
<1>3. FreshIsKept'
  <2> SUFFICES ASSUME NEW f \in Threads, NEW e \in Entries, Making(f, e, "list")'
               PROVE  /\ trash'[e].object # Nothing /\ ~trash'[e].listed
                      /\ \A s \in Threads \ {f} : ~Touches(ops'[s], e)
                           /\ ~Making(s, e, "list")' /\ ~Making(s, e, "name")'
    BY DEF FreshIsKept, Touches
  <2>1. /\ trash[e].object # Nothing /\ ~trash[e].listed
        /\ \A s \in Threads \ {f} :
             ~Touches(ops[s], e) /\ ~Making(s, e, "list") /\ ~Making(s, e, "name")
    BY <1>2 DEF PlacesMatch, FreshIsKept
  <2>2. f # t
    BY <1>2 DEF Making
  <2>3. \A s \in Threads \ {f} : ~Touches(ops'[s], e)
    BY <1>1, <2>1, <2>2
  <2>4. QED
    BY <1>2, <2>1, <2>3
<1>4. EntryIsKnown'
  <2>1. \A s \in Threads : Knows(ops'[s])
    BY <1>1 DEF PlacesMatch, EntryIsKnown
  <2>2. QED
    BY <2>1 DEF EntryIsKnown, Knows
<1>5. ListedIsKept'
  BY <1>2 DEF PlacesMatch, ListedIsKept
<1>6. QED
  BY <1>3, <1>4, <1>5 DEF PlacesMatch

\* It spends no entry that a content is kept in.
LEMMA BesideReachable ==
  ASSUME Typed, Reachable, NEW t \in Threads, NEW r,
         ops' = [ops EXCEPT ![t] = r], UNCHANGED <<trash, torn>>,
         ops[t].at \notin {"list", "name"},
         \A h \in stored' \ discarded' : h \notin originals' =>
           /\ h \in stored \ discarded /\ h \notin originals
           /\ \A e \in Entries : trash[e].object = h /\ Spends(r, e) => Spends(ops[t], e)
  PROVE  Reachable'
<1>1. \A s \in Threads : ops'[s] = IF s = t THEN r ELSE ops[s]
  BY DEF Typed, OpsTyped
<1>2. \A e \in Entries : Kept(e) => Kept(e)'
  BY <1>1 DEF Kept, Making, Homed
<1>3. ASSUME NEW h \in stored' \ discarded', h \notin originals'
      PROVE  \E e \in Entries : trash'[e].object = h /\ Safe(e)'
  <2>1. PICK e \in Entries : trash[e].object = h /\ Safe(e)
    BY <1>3 DEF Reachable
  <2>2. \A s \in Threads : ~Spends(ops'[s], e)
    BY <1>1, <1>3, <2>1 DEF Safe
  <2>3. Safe(e)'
    BY <1>2, <2>1, <2>2 DEF Safe, Spends
  <2>4. QED
    BY <2>1, <2>3
<1>4. QED
  BY <1>3 DEF Reachable

\* Deletions before and after they are at an entry, and the deletion of a base.
LEMMA DeletionPlaces ==
  ASSUME Typed, PlacesMatch, Reachable, NEW t \in Threads,
         \/ \E d \in Docs : DeleteDocument(t, d)
         \/ \E kb \in Kbs : DeleteBase(t, kb)
         \/ PurgeContent(t) \/ DropBase(t) \/ DeleteRow(t)
         \/ MoveToTrash(t) /\ UNCHANGED files
  PROVE  PlacesMatch' /\ Reachable'
<1>1. UNCHANGED <<trash, torn>> /\ ops[t].at \notin {"list", "name", "unlist"}
  BY DEF DeleteDocument, DeleteBase, PurgeContent, DropBase, DeleteRow, MoveToTrash, Quiet,
         files, Op, Idle
<1>2. \E r : ops' = [ops EXCEPT ![t] = r] /\ r.at \in {"idle", "move", "purge", "unrow"}
  <2>1. ASSUME NEW d \in Docs, DeleteDocument(t, d)
        PROVE  \E r : ops' = [ops EXCEPT ![t] = r] /\ r.at \in {"idle", "move", "purge", "unrow"}
    <3> DEFINE r == [kind |-> "delete", at |-> "move", doc |-> d, entry |-> 0]
    <3>1. ops' = [ops EXCEPT ![t] = r] /\ r.at = "move"
      BY <2>1 DEF DeleteDocument
    <3> HIDE DEF r
    <3>2. QED
      BY <3>1
  <2>2. ASSUME NEW kb \in Kbs, DeleteBase(t, kb)
        PROVE  \E r : ops' = [ops EXCEPT ![t] = r] /\ r.at \in {"idle", "move", "purge", "unrow"}
    <3> DEFINE r == [kind |-> "deletebase", at |-> "purge", base |-> kb,
                     rest |-> {d \in rows : docs[d].kb = kb}]
    <3>1. ops' = [ops EXCEPT ![t] = r] /\ r.at = "purge"
      BY <2>2 DEF DeleteBase
    <3> HIDE DEF r
    <3>2. QED
      BY <3>1
  <2>3. CASE PurgeContent(t)
    <3>1. ops[t] \in BaseDeletion
      BY <2>3, OpIs DEF PurgeContent, Op, Typed
    <3>2. PICK d : ops' = [ops EXCEPT ![t].rest = @ \ {d}]
      BY <2>3 DEF PurgeContent
    <3>3. [ops[t] EXCEPT !.rest = ops[t].rest \ {d}].at = "purge"
      BY <3>1 DEF BaseDeletion
    <3>4. ops' = [ops EXCEPT ![t] = [ops[t] EXCEPT !.rest = ops[t].rest \ {d}]]
      BY <3>2 DEF Typed, OpsTyped
    <3>5. QED
      BY <3>3, <3>4
  <2>4. CASE DropBase(t) \/ DeleteRow(t)
    <3>1. ops' = [ops EXCEPT ![t] = Idle] /\ Idle.at = "idle"
      BY <2>4 DEF DropBase, DeleteRow, Done, Idle
    <3>2. QED
      BY <3>1
  <2>5. CASE MoveToTrash(t) /\ UNCHANGED files
    <3>1. ops[t] \in Deletion
      BY <2>5, OpIs DEF MoveToTrash, Op, Typed
    <3>2. Step(t, "unrow")
      <4>1. ASSUME NEW e \in Entries, Movable(ops[t].doc),
                   originals' = originals \ {docs[ops[t].doc].hash}
            PROVE  FALSE
        BY <2>5, <4>1 DEF Movable, files
      <4>2. QED
        BY <2>5, <4>1 DEF MoveToTrash
    <3>3. [ops[t] EXCEPT !.at = "unrow"].at = "unrow"
      BY <3>1 DEF Deletion
    <3>4. ops' = [ops EXCEPT ![t] = [ops[t] EXCEPT !.at = "unrow"]]
      BY <3>2 DEF Step, Typed, OpsTyped
    <3>5. QED
      BY <3>3, <3>4
  <2>6. QED
    BY <2>1, <2>2, <2>3, <2>4, <2>5
<1>3. PICK r : ops' = [ops EXCEPT ![t] = r] /\ r.at \in {"idle", "move", "purge", "unrow"}
  BY <1>2
<1>4. Knows(r) /\ \A e \in Entries : ~Touches(r, e) /\ ~Spends(r, e)
  BY <1>3 DEF Knows, Touches, Spends
<1>5. \A h \in stored' \ discarded' : h \notin originals' =>
        h \in stored \ discarded /\ h \notin originals
  BY DEF DeleteDocument, DeleteBase, PurgeContent, DropBase, DeleteRow, MoveToTrash, files
<1>6. PlacesMatch'
  BY <1>1, <1>3, <1>4, BesidePlaces
<1>7. Reachable'
  BY <1>1, <1>3, <1>4, <1>5, BesideReachable
<1>8. QED
  BY <1>6, <1>7

\* A restoration or a drop up to the point where it empties the entry.
LEMMA RestorationPlaces ==
  ASSUME Typed, PlacesMatch, Reachable, NEW t \in Threads,
         \/ \E e \in Entries : Restore(t, e) \/ DropEntry(t, e)
         \/ WriteBack(t) \/ RestoreRow(t) \/ RestorePath(t)
  PROVE  PlacesMatch' /\ Reachable'
<1>1. UNCHANGED <<trash, torn>> /\ ops[t].at \notin {"list", "name", "unlist"}
  BY DEF Restore, DropEntry, WriteBack, RestoreRow, RestorePath, Quiet, files, Op, Idle,
         StoreOriginal, CreateRow, RecordPath
<1>2. ASSUME NEW e \in Entries, Restore(t, e) \/ DropEntry(t, e)
      PROVE  PlacesMatch' /\ Reachable'
  <2>1. PICK r \in {OnEntry("restore", "write", e), OnEntry("drop", "clear", e)} :
          ops' = [ops EXCEPT ![t] = r]
    BY <1>2 DEF Restore, DropEntry
  <2>2. /\ trash[e].listed /\ UNCHANGED <<originals, stored, discarded>>
        /\ r.at \in {"write", "clear"} /\ r.entry = e
        /\ r.content.hash = trash[e].object
        /\ r.kind = "restore" => r.at = "write"
    BY <1>2, <2>1 DEF Restore, DropEntry, OnEntry, files
  <2>3. Knows(r) /\ \A f \in Entries : ~Spends(r, f) /\ (Touches(r, f) => trash[f].listed)
    BY <2>2 DEF Knows, Touches, Spends
  <2>4. PlacesMatch'
    BY <1>1, <2>1, <2>2, <2>3, BesidePlaces
  <2>5. Reachable'
    BY <1>1, <2>1, <2>2, <2>3, BesideReachable
  <2>6. QED
    BY <2>4, <2>5
<1>3. CASE RestoreRow(t) /\ Done(t)
  <2>1. ops' = [ops EXCEPT ![t] = Idle] /\ Idle.at = "idle" /\ UNCHANGED <<originals, stored, discarded>>
    BY <1>3 DEF Done, Idle, RestoreRow, CreateRow, files
  <2>2. Knows(Idle) /\ \A e \in Entries : ~Touches(Idle, e) /\ ~Spends(Idle, e)
    BY <2>1 DEF Knows, Touches, Spends
  <2>3. PlacesMatch'
    BY <1>1, <2>1, <2>2, BesidePlaces
  <2>4. Reachable'
    BY <1>1, <2>1, <2>2, BesideReachable
  <2>5. QED
    BY <2>3, <2>4
<1>4. CASE WriteBack(t) \/ RestorePath(t) \/ (RestoreRow(t) /\ ~Done(t))
  <2>1. ops[t] \in Restoration /\ Knows(ops[t]) /\ ops[t].at \in {"write", "create", "path"}
    BY <1>4, OpIs DEF WriteBack, RestorePath, RestoreRow, Op, Typed, PlacesMatch, EntryIsKnown
  <2>2. PICK at \in {"create", "path", "clear"}, d \in Nat :
          ops' = [ops EXCEPT ![t] = [ops[t] EXCEPT !.at = at, !.doc = d]]
    <3>1. ASSUME NEW at \in {"create", "clear"}, Step(t, at)
          PROVE  ops' = [ops EXCEPT ![t] = [ops[t] EXCEPT !.at = at, !.doc = ops[t].doc]]
      BY <2>1, <3>1 DEF Step, Typed, OpsTyped, Restoration
    <3>2. ASSUME ops' = [ops EXCEPT ![t].at = "path", ![t].doc = Len(docs) + 1]
          PROVE  ops' = [ops EXCEPT ![t] = [ops[t] EXCEPT !.at = "path", !.doc = Len(docs) + 1]]
      BY <2>1, <3>2 DEF Typed, OpsTyped
    <3>3. ops[t].doc \in Nat /\ Len(docs) + 1 \in Nat
      BY <2>1 DEF Restoration, Typed, StoresTyped
    <3>4. QED
      BY <1>4, <3>1, <3>2, <3>3 DEF WriteBack, RestorePath, RestoreRow
  <2> DEFINE r == [ops[t] EXCEPT !.at = at, !.doc = d]
  <2>3. /\ r.at = at /\ r.entry = ops[t].entry /\ r.content = ops[t].content
        /\ r.kind = "restore" /\ ops' = [ops EXCEPT ![t] = r]
    BY <2>1, <2>2 DEF Restoration
  <2> HIDE DEF r
  <2>4. Knows(r) /\ \A e \in Entries : Touches(r, e) => Touches(ops[t], e)
    BY <2>1, <2>3 DEF Knows, Touches
  <2>5. PlacesMatch'
    BY <1>1, <2>3, <2>4, BesidePlaces
  <2>6. ops[t].at # "write" => \A e \in Entries : Spends(r, e) => Spends(ops[t], e)
    BY <2>1, <2>3 DEF Spends
  <2>7. ops[t].at # "write" => UNCHANGED <<originals, stored, discarded>>
    BY <1>4 DEF WriteBack, Op, RestorePath, RestoreRow, RecordPath, CreateRow, files
  <2>8. CASE ops[t].at # "write"
    BY <1>1, <2>3, <2>5, <2>6, <2>7, <2>8, BesideReachable
  <2>9. CASE ops[t].at = "write"
    <3> DEFINE h == ops[t].content.hash
    <3>1. StoreOriginal(h)
      BY <1>4, <2>9 DEF WriteBack, Op, RestorePath, RestoreRow
    <3>2. \A e \in Entries : Spends(r, e) => trash[e].object \in {h, Nothing}
      BY <2>1, <2>3 DEF Spends, Knows
    <3>3. \A g \in stored' \ discarded' : g \notin originals' =>
            g \in stored \ discarded /\ g \notin originals /\ g # h /\ g # Nothing
      BY <3>1, LibraryAssumption DEF StoreOriginal, Typed, StoresTyped
    <3> HIDE DEF h
    <3>4. \A g \in stored' \ discarded' : g \notin originals' =>
            /\ g \in stored \ discarded /\ g \notin originals
            /\ \A e \in Entries : trash[e].object = g /\ Spends(r, e) => Spends(ops[t], e)
      BY <3>2, <3>3
    <3>5. Reachable'
      BY <1>1, <2>3, <3>4, BesideReachable
    <3>6. QED
      BY <2>5, <3>5
  <2>10. QED
    BY <2>8, <2>9
<1>5. QED
  BY <1>2, <1>3, <1>4

\* One thread changes, the others make what they made.
LEMMA OneThread ==
  ASSUME Typed, NEW t \in Threads, NEW r, ops' = [ops EXCEPT ![t] = r]
  PROVE  /\ \A s \in Threads : ops'[s] = IF s = t THEN r ELSE ops[s]
         /\ \A s \in Threads, e \in Entries, at \in {"list", "name", "unlist"} :
              Making(s, e, at)' <=> IF s = t THEN r.at = at /\ r.entry = e ELSE Making(s, e, at)
<1>1. \A s \in Threads : ops'[s] = IF s = t THEN r ELSE ops[s]
  BY DEF Typed, OpsTyped
<1>2. QED
  BY <1>1 DEF Making

\* What a place holds that nothing refers to, and who works at it.
LEMMA UnusedIs ==
  ASSUME Typed, NEW e \in Entries, Unused(e)
  PROVE  /\ trash[e] = Blank
         /\ \A s \in Threads : /\ ~Touches(ops[s], e) /\ ~Spends(ops[s], e)
                               /\ ~Making(s, e, "list") /\ ~Making(s, e, "name")
<1>1. ASSUME NEW s \in Threads
      PROVE  /\ ~Touches(ops[s], e) /\ ~Spends(ops[s], e)
             /\ ~Making(s, e, "list") /\ ~Making(s, e, "name")
  <2>1. CASE ops[s] = Idle
    BY <2>1 DEF Idle, Touches, Spends, Making
  <2>2. CASE ops[s] \in Deletion \union Restoration \union Dropping
    <3>1. ops[s].kind \in {"delete", "restore", "drop"} /\ ops[s] # Idle /\ ops[s].at # "objects"
      BY <2>2 DEF Deletion, Restoration, Dropping, Idle
    <3>2. ops[s].entry # e
      BY <3>1 DEF Unused
    <3>3. QED
      BY <3>1, <3>2 DEF Touches, Spends, Making
  <2>3. CASE ops[s] \in BaseDeletion
    BY <2>3 DEF BaseDeletion, Touches, Spends, Making
  <2>4. CASE ops[s] \in Purge
    <3>1. ops[s].kind = "purge" /\ ops[s] # Idle /\ ops[s].at = "objects"
      BY <2>4 DEF Purge, Idle
    <3>2. e \notin ops[s].rest
      BY <3>1 DEF Unused
    <3>3. QED
      BY <3>1, <3>2 DEF Touches, Spends, Making
  <2>5. QED
    BY <2>1, <2>2, <2>3, <2>4 DEF Typed, OpsTyped
<1>2. QED
  BY <1>1 DEF Unused

\* A content that is kept in the trash is no Nothing.
LEMMA KeptContent ==
  ASSUME Typed, Reachable, NEW h \in stored \ discarded, h \notin originals
  PROVE  h # Nothing /\ \E e \in Entries : trash[e].object = h /\ Safe(e)
  BY LibraryAssumption DEF Typed, StoresTyped, Reachable

\* The original goes into a place of its own.
LEMMA MovePlaces ==
  ASSUME Typed, PlacesMatch, Reachable, NEW t \in Threads, MoveToTrash(t)
  PROVE  PlacesMatch' /\ Reachable'
<1>1. CASE UNCHANGED files
  BY <1>1, DeletionPlaces
<1>2. CASE ~UNCHANGED files
  <2> DEFINE h == docs[ops[t].doc].hash
  <2>1. /\ Op(t, "delete", "move") /\ originals' = originals \ {h}
        /\ UNCHANGED <<stored, discarded, torn>>
    BY <1>2 DEF MoveToTrash, Quiet
  <2>2. PICK e \in Entries : /\ Unused(e)
                             /\ trash' = [trash EXCEPT ![e].object = h]
                             /\ ops' = [ops EXCEPT ![t].at = "list", ![t].entry = e]
    BY <1>2 DEF MoveToTrash
  <2>3. ops[t] \in Deletion /\ ops[t].at = "move" /\ ops[t].doc \in Docs
    BY <2>1, OpIs DEF Op, Typed, OpsTyped
  <2>4. h \in Contents /\ h # Nothing
    BY <2>3, DocIs, LibraryAssumption DEF Typed
  <2> HIDE DEF h
  <2> DEFINE r == [ops[t] EXCEPT !.at = "list", !.entry = e]
  <2>5. r.at = "list" /\ r.entry = e /\ ops' = [ops EXCEPT ![t] = r]
    BY <2>2, <2>3 DEF Deletion, Typed, OpsTyped
  <2> HIDE DEF r
  <2>6. /\ \A s \in Threads : ops'[s] = IF s = t THEN r ELSE ops[s]
        /\ \A s \in Threads, f \in Entries, at \in {"list", "name", "unlist"} :
             Making(s, f, at)' <=> IF s = t THEN r.at = at /\ r.entry = f ELSE Making(s, f, at)
    BY <2>5, OneThread
  <2>7. /\ trash[e].object = Nothing /\ ~trash[e].listed
        /\ \A s \in Threads : /\ ~Touches(ops[s], e) /\ ~Spends(ops[s], e)
                              /\ ~Making(s, e, "list") /\ ~Making(s, e, "name")
    BY <2>2, UnusedIs DEF Blank
  <2>8. /\ \A f \in Entries \ {e} : trash'[f] = trash[f]
        /\ trash'[e].object = h /\ ~trash'[e].listed
    BY <2>2, <2>7 DEF Typed, StoresTyped, Place
  <2>9. \A f \in Entries : ~Touches(r, f) /\ ~Spends(r, f)
    BY <2>5 DEF Touches, Spends
  <2>10. \A f \in Entries : ~Making(t, f, "list") /\ ~Making(t, f, "name") /\ ~Making(t, f, "unlist")
    BY <2>3 DEF Making
  <2>11. FreshIsKept'
    <3> SUFFICES ASSUME NEW g \in Threads, NEW f \in Entries, Making(g, f, "list")'
                 PROVE  /\ trash'[f].object # Nothing /\ ~trash'[f].listed
                        /\ \A s \in Threads \ {g} : ~Touches(ops'[s], f)
                             /\ ~Making(s, f, "list")' /\ ~Making(s, f, "name")'
      BY DEF FreshIsKept, Touches
    <3>1. CASE g = t
      BY <3>1, <2>4, <2>5, <2>6, <2>7, <2>8
    <3>2. CASE g # t
      <4>1. Making(g, f, "list") /\ f # e
        BY <3>2, <2>6, <2>7
      <4>2. QED
        BY <3>2, <4>1, <2>5, <2>6, <2>8, <2>9 DEF PlacesMatch, FreshIsKept
    <3>3. QED
      BY <3>1, <3>2
  <2>12. EntryIsKnown'
    <3>1. ASSUME NEW s \in Threads \ {t}, Knows(ops[s]), ops[s].at = "objects" => ops[s].rest \subseteq Entries,
                 ops[s].at \in {"write", "create", "path", "clear", "unlist"} => ops[s].entry \in Entries
          PROVE  Knows(ops[s])'
      <4>1. ops'[s] = ops[s]
        BY <2>6
      <4>2. QED
        BY <3>1, <4>1, <2>7, <2>8 DEF Knows, Touches
    <3>2. \A s \in Threads : /\ ops[s].at = "objects" => ops[s].rest \subseteq Entries
                             /\ ops[s].at \in {"write", "create", "path", "clear", "unlist"} =>
                                  ops[s].entry \in Entries
      BY OpIs DEF Typed, Purge, Restoration, Dropping
    <3>3. Knows(ops[t])'
      BY <2>5, <2>6 DEF Knows
    <3>4. QED
      BY <3>1, <3>2, <3>3 DEF PlacesMatch, EntryIsKnown
  <2>13. ListedIsKept'
    BY <2>1, <2>5, <2>6, <2>8, <2>10 DEF PlacesMatch, ListedIsKept
  <2>14. Reachable'
    <3>1. ASSUME NEW g \in stored' \ discarded', g \notin originals'
          PROVE  \E f \in Entries : trash'[f].object = g /\ Safe(f)'
      <4>1. CASE g = h
        <5>1. Kept(e)'
          BY <2>5, <2>6 DEF Kept
        <5>2. Safe(e)'
          BY <5>1, <2>6, <2>7, <2>9 DEF Safe, Spends
        <5>3. QED
          BY <4>1, <5>2, <2>8
      <4>2. CASE g # h
        <5>1. PICK f \in Entries : g # Nothing /\ trash[f].object = g /\ Safe(f)
          BY <3>1, <4>2, <2>1, KeptContent
        <5>2. f # e
          BY <5>1, <2>7
        <5>3. Kept(f)'
          BY <5>1, <5>2, <2>1, <2>6, <2>8, <2>10 DEF Safe, Kept, Homed
        <5>4. Safe(f)'
          BY <5>1, <5>3, <2>6, <2>9 DEF Safe, Spends
        <5>5. QED
          BY <5>1, <5>2, <5>4, <2>8
      <4>3. QED
        BY <4>1, <4>2
    <3>2. QED
      BY <3>1 DEF Reachable
  <2>15. QED
    BY <2>11, <2>12, <2>13, <2>14 DEF PlacesMatch
<1>3. QED
  BY <1>1, <1>2

\* What an operation works at is a place of the trash.
LEMMA WorksAtEntries ==
  ASSUME Typed, NEW s \in Threads
  PROVE  /\ ops[s].at = "objects" => ops[s].rest \subseteq Entries
         /\ ops[s].at \in {"write", "create", "path", "clear", "unlist"} => ops[s].entry \in Entries
  BY OpIs DEF Typed, Purge, Restoration, Dropping

\* The entry is listed, then told where it belongs; nobody else is at it.
LEMMA ListPlaces ==
  ASSUME Typed, PlacesMatch, Reachable, NEW t \in Threads, ListEntry(t) \/ NameEntry(t)
  PROVE  PlacesMatch' /\ Reachable'
<1> DEFINE e == ops[t].entry
           to == IF ops[t].at = "list" THEN "name" ELSE "unrow"
           r == [ops[t] EXCEPT !.at = to]
           kb == docs[ops[t].doc].kb
<1>1. /\ ops[t].at \in {"list", "name"} /\ ops[t] \in Deletion
      /\ e \in Entries /\ ops[t].doc \in Docs /\ Step(t, to)
      /\ UNCHANGED <<originals, stored, discarded, torn>>
  BY OpIs DEF ListEntry, NameEntry, Op, Quiet, Typed, OpsTyped
<1>2. kb \in Kbs /\ kb # Nothing
  BY <1>1, DocIs, LibraryAssumption DEF Typed
<1> HIDE DEF kb
<1>3. /\ \A f \in Entries : /\ trash'[f].object = trash[f].object
                            /\ f # e => trash'[f] = trash[f]
      /\ IF ops[t].at = "list" THEN trash'[e].listed /\ trash'[e].base = trash[e].base
         ELSE trash'[e].base = kb /\ trash'[e].listed = trash[e].listed
  BY <1>1 DEF ListEntry, NameEntry, Op, Typed, StoresTyped, Place, kb
<1>4. r.at = to /\ r.entry = e /\ ops' = [ops EXCEPT ![t] = r] /\ to \in {"name", "unrow"}
  BY <1>1 DEF Deletion, Step, Typed, OpsTyped
<1> HIDE DEF r
<1>5. /\ \A s \in Threads : ops'[s] = IF s = t THEN r ELSE ops[s]
      /\ \A s \in Threads, f \in Entries, at \in {"list", "name", "unlist"} :
           Making(s, f, at)' <=> IF s = t THEN r.at = at /\ r.entry = f ELSE Making(s, f, at)
  BY <1>4, OneThread
<1>6. \A f \in Entries : ~Touches(r, f) /\ ~Spends(r, f)
  BY <1>4 DEF Touches, Spends
<1>7. ops[t].at = "list" =>
        /\ trash[e].object # Nothing /\ ~trash[e].listed
        /\ \A s \in Threads \ {t} :
             ~Touches(ops[s], e) /\ ~Making(s, e, "list") /\ ~Making(s, e, "name")
  BY <1>1 DEF PlacesMatch, FreshIsKept, Making
<1>8. \A f \in Entries, at \in {"list", "name", "unlist"} :
        Making(t, f, at) <=> ops[t].at = at /\ f = e
  BY DEF Making
<1>9. \A g \in Threads \ {t}, f \in Entries : Making(g, f, "list") => f # e
  BY <1>1, <1>7, <1>8 DEF PlacesMatch, FreshIsKept
<1> HIDE DEF e, to
<1>10. FreshIsKept'
  <2> SUFFICES ASSUME NEW g \in Threads, NEW f \in Entries, Making(g, f, "list")'
               PROVE  /\ trash'[f].object # Nothing /\ ~trash'[f].listed
                      /\ \A s \in Threads \ {g} : ~Touches(ops'[s], f)
                           /\ ~Making(s, f, "list")' /\ ~Making(s, f, "name")'
    BY DEF FreshIsKept, Touches
  <2>1. g # t /\ Making(g, f, "list") /\ f # e
    BY <1>4, <1>5, <1>9
  <2>2. QED
    BY <2>1, <1>3, <1>4, <1>5, <1>6 DEF PlacesMatch, FreshIsKept
<1>11. EntryIsKnown'
  <2>1. ASSUME NEW s \in Threads \ {t} PROVE Knows(ops[s])'
    <3>1. ops'[s] = ops[s] /\ Knows(ops[s])
      BY <1>5 DEF PlacesMatch, EntryIsKnown
    <3>2. CASE ops[s].at = "objects"
      <4>1. ASSUME NEW f \in ops[s].rest PROVE ~trash'[f].listed
        <5>1. f \in Entries /\ ~trash[f].listed
          BY <3>1, <3>2, WorksAtEntries DEF Knows
        <5>2. f = e => ops[t].at # "list"
          BY <1>7, <3>2 DEF Touches
        <5>3. QED
          BY <5>1, <5>2, <1>3
      <4>2. QED
        BY <3>1, <3>2, <4>1 DEF Knows
    <3>3. CASE ops[s].at # "objects"
      BY <3>1, <3>3, <1>3, WorksAtEntries DEF Knows
    <3>4. QED
      BY <3>2, <3>3
  <2>2. Knows(ops[t])'
    BY <1>4, <1>5 DEF Knows
  <2>3. QED
    BY <2>1, <2>2 DEF EntryIsKnown
<1>12. ListedIsKept'
  <2> SUFFICES ASSUME NEW f \in Entries, trash'[f].listed, f \notin torn
               PROVE  /\ trash'[f].object # Nothing \/ \E s \in Threads : Making(s, f, "unlist")'
                      /\ trash'[f].base # Nothing \/ \E s \in Threads : Making(s, f, "name")'
    BY <1>1 DEF ListedIsKept
  <2>1. CASE f # e
    BY <2>1, <1>3, <1>5, <1>8 DEF PlacesMatch, ListedIsKept
  <2>2. CASE f = e /\ ops[t].at = "list"
    BY <2>2, <1>3, <1>4, <1>5, <1>7 DEF to
  <2>3. CASE f = e /\ ops[t].at # "list"
    BY <2>3, <1>1, <1>2, <1>3, <1>5, <1>8 DEF PlacesMatch, ListedIsKept
  <2>4. QED
    BY <2>1, <2>2, <2>3
<1>13. Reachable'
  <2>1. ASSUME NEW f \in Entries, Kept(f) PROVE Kept(f)'
    <3>1. CASE f # e
      BY <2>1, <3>1, <1>1, <1>3, <1>5, <1>8 DEF Kept, Homed
    <3>2. CASE f = e /\ ops[t].at = "list"
      BY <2>1, <3>2, <1>3, <1>4, <1>5 DEF Kept, to
    <3>3. CASE f = e /\ ops[t].at # "list"
      <4>1. trash[f].listed \/ f \in torn \/ \E s \in Threads \ {t} : Making(s, f, "list")
        BY <2>1, <3>3, <1>8 DEF Kept, Homed
      <4>2. QED
        BY <3>3, <4>1, <1>1, <1>2, <1>3, <1>5 DEF Kept, Homed
    <3>4. QED
      BY <3>1, <3>2, <3>3
  <2>2. ASSUME NEW g \in stored' \ discarded', g \notin originals'
        PROVE  \E f \in Entries : trash'[f].object = g /\ Safe(f)'
    <3>1. PICK f \in Entries : g # Nothing /\ trash[f].object = g /\ Safe(f)
      BY <2>2, <1>1, KeptContent
    <3>2. Safe(f)'
      BY <2>1, <3>1, <1>5, <1>6 DEF Safe, Spends
    <3>3. QED
      BY <3>1, <3>2, <1>3
  <2>3. QED
    BY <2>2 DEF Reachable
<1>14. QED
  BY <1>10, <1>11, <1>12, <1>13 DEF PlacesMatch

\* A thread that is at no new entry empties places or takes them off the list;
\* nobody is making those, and nothing that is kept is lost by it.
LEMMA EmptyingPlaces ==
  ASSUME Typed, PlacesMatch, Reachable, NEW t \in Threads, NEW r, NEW gone \in SUBSET Entries,
         ops' = [ops EXCEPT ![t] = r], UNCHANGED <<originals, stored, torn>>,
         discarded \subseteq discarded',
         ops[t].at \notin {"list", "name"}, r.at \notin {"list", "name"},
         \A f \in Entries \ gone : trash'[f] = trash[f],
         \A f \in gone : /\ trash'[f].object \in {trash[f].object, Nothing}
                         /\ trash'[f].listed => trash[f].listed,
         \A f \in gone : \A s \in Threads : ~Making(s, f, "list"),
         \A f \in Entries : Touches(r, f) => Touches(ops[t], f) \/ trash[f].listed,
         Knows(r)',
         \A f \in Entries : trash'[f].listed =>
           /\ f \in gone => trash'[f].base = trash[f].base /\ r.at = "unlist" /\ r.entry = f
           /\ Making(t, f, "unlist") => r.at = "unlist" /\ r.entry = f,
         \A f \in gone : trash[f].object \in stored' \ discarded' => Spends(ops[t], f),
         \A f \in Entries \ gone : trash[f].object \in stored' \ discarded' =>
           (Spends(r, f) => Spends(ops[t], f))
  PROVE  PlacesMatch' /\ Reachable'
<1>1. /\ \A s \in Threads : ops'[s] = IF s = t THEN r ELSE ops[s]
      /\ \A s \in Threads, f \in Entries, at \in {"list", "name", "unlist"} :
           Making(s, f, at)' <=> IF s = t THEN r.at = at /\ r.entry = f ELSE Making(s, f, at)
  BY OneThread
<1>2. \A f \in Entries : ~Making(t, f, "list") /\ ~Making(t, f, "name")
  BY DEF Making
<1>3. FreshIsKept'
  <2> SUFFICES ASSUME NEW g \in Threads, NEW f \in Entries, Making(g, f, "list")'
               PROVE  /\ trash'[f].object # Nothing /\ ~trash'[f].listed
                      /\ \A s \in Threads \ {g} : ~Touches(ops'[s], f)
                           /\ ~Making(s, f, "list")' /\ ~Making(s, f, "name")'
    BY DEF FreshIsKept, Touches
  <2>1. g # t /\ Making(g, f, "list") /\ f \notin gone
    BY <1>1
  <2>2. /\ trash[f].object # Nothing /\ ~trash[f].listed
        /\ \A s \in Threads \ {g} :
             ~Touches(ops[s], f) /\ ~Making(s, f, "list") /\ ~Making(s, f, "name")
    BY <2>1 DEF PlacesMatch, FreshIsKept
  <2>3. ~Touches(r, f)
    BY <2>1, <2>2
  <2>4. QED
    BY <2>1, <2>2, <2>3, <1>1
<1>4. EntryIsKnown'
  <2>1. ASSUME NEW s \in Threads \ {t} PROVE Knows(ops[s])'
    <3>1. ops'[s] = ops[s] /\ Knows(ops[s])
      BY <1>1 DEF PlacesMatch, EntryIsKnown
    <3>2. \A f \in Entries : /\ trash'[f].object \in {trash[f].object, Nothing}
                             /\ trash'[f].listed => trash[f].listed
      OBVIOUS
    <3>3. QED
      BY <3>1, <3>2, WorksAtEntries DEF Knows
  <2>2. Knows(ops[t])'
    BY <1>1 DEF Knows
  <2>3. QED
    BY <2>1, <2>2 DEF EntryIsKnown
<1>5. ListedIsKept'
  <2> SUFFICES ASSUME NEW f \in Entries, trash'[f].listed, f \notin torn
               PROVE  /\ trash'[f].object # Nothing \/ \E s \in Threads : Making(s, f, "unlist")'
                      /\ trash'[f].base # Nothing \/ \E s \in Threads : Making(s, f, "name")'
    BY DEF ListedIsKept
  <2>1. trash[f].listed /\ trash'[f].base = trash[f].base
    OBVIOUS
  <2>2. /\ trash[f].object # Nothing \/ \E s \in Threads : Making(s, f, "unlist")
        /\ trash[f].base # Nothing \/ \E s \in Threads : Making(s, f, "name")
    BY <2>1 DEF PlacesMatch, ListedIsKept
  <2>3. trash'[f].object # Nothing \/ \E s \in Threads : Making(s, f, "unlist")'
    BY <1>1, <2>2
  <2>4. trash'[f].base # Nothing \/ \E s \in Threads : Making(s, f, "name")'
    BY <1>1, <1>2, <2>1, <2>2
  <2>5. QED
    BY <2>3, <2>4
<1>6. Reachable'
  <2>1. ASSUME NEW g \in stored' \ discarded', g \notin originals'
        PROVE  \E f \in Entries : trash'[f].object = g /\ Safe(f)'
    <3>1. PICK f \in Entries : g # Nothing /\ trash[f].object = g /\ Safe(f)
      BY <2>1, KeptContent
    <3>2. f \notin gone /\ trash'[f] = trash[f]
      BY <2>1, <3>1 DEF Safe
    <3>3. \A s \in Threads : ~Spends(ops'[s], f)
      BY <1>1, <2>1, <3>1, <3>2 DEF Safe
    <3>4. Kept(f)'
      BY <1>1, <1>2, <3>1, <3>2 DEF Safe, Kept, Homed
    <3>5. QED
      BY <3>1, <3>2, <3>3, <3>4 DEF Safe, Spends
  <2>2. QED
    BY <2>1 DEF Reachable
<1>7. QED
  BY <1>3, <1>4, <1>5, <1>6 DEF PlacesMatch

\* Nobody makes an entry that another operation is at.
LEMMA TouchedIsNotMade ==
  ASSUME Typed, PlacesMatch, NEW t \in Threads, NEW e \in Entries, Touches(ops[t], e)
  PROVE  \A s \in Threads : ~Making(s, e, "list")
<1>1. ~Making(t, e, "list")
  BY DEF Touches, Making
<1>2. QED
  BY <1>1 DEF PlacesMatch, FreshIsKept

\* The object is deleted: by a restore that has written it back, or by a drop.
LEMMA ClearPlaces ==
  ASSUME Typed, PlacesMatch, Reachable, NEW t \in Threads, ClearEntry(t)
  PROVE  PlacesMatch' /\ Reachable'
<1>1. PICK e, r : e = ops[t].entry /\ r = [ops[t] EXCEPT !.at = "unlist"]
  OBVIOUS
<1>2. /\ ops[t].at = "clear" /\ ops[t] \in Restoration \union Dropping
      /\ e \in Entries /\ UNCHANGED <<originals, stored, torn>>
  BY <1>1, OpIs, WorksAtEntries DEF ClearEntry, Quiet, Typed
<1>3. /\ r.at = "unlist" /\ r.entry = e /\ r.content = ops[t].content
      /\ ops' = [ops EXCEPT ![t] = r]
  BY <1>1, <1>2 DEF ClearEntry, Step, Restoration, Dropping, Typed, OpsTyped
<1>4. PICK gone \in SUBSET Entries : gone = {e}
  BY <1>2
<1>5. /\ \A f \in Entries \ gone : trash'[f] = trash[f]
      /\ trash'[e].object = Nothing
      /\ trash'[e].listed = trash[e].listed /\ trash'[e].base = trash[e].base
  BY <1>1, <1>2, <1>4 DEF ClearEntry, Typed, StoresTyped, Place
<1>6. /\ discarded \subseteq discarded'
      /\ ops[t].kind = "drop" /\ trash[e].object # Nothing => trash[e].object \in discarded'
      /\ ops[t].kind \in {"restore", "drop"}
  BY <1>1 DEF ClearEntry
<1>7. Nothing \notin stored
  BY LibraryAssumption DEF Typed, StoresTyped
<1>8. Touches(ops[t], e) /\ \A f \in Entries : Touches(r, f) => Touches(ops[t], f)
  BY <1>1, <1>2, <1>3 DEF Touches
<1>9. Knows(r)' /\ \A f \in Entries : ~Spends(r, f)
  BY <1>3, <1>5 DEF Knows, Spends
<1>10. trash[e].object \in stored' \ discarded' => Spends(ops[t], e)
  BY <1>1, <1>2, <1>6, <1>7 DEF Spends
<1>11. \A f \in gone : \A s \in Threads : ~Making(s, f, "list")
  BY <1>2, <1>4, <1>8, TouchedIsNotMade
<1>12. \A f \in Entries : ~Making(t, f, "unlist")
  BY <1>2 DEF Making
<1>13. /\ \A f \in gone : /\ trash'[f].object \in {trash[f].object, Nothing}
                          /\ trash'[f].listed => trash[f].listed
       /\ \A f \in Entries : trash'[f].listed =>
            /\ f \in gone => trash'[f].base = trash[f].base /\ r.at = "unlist" /\ r.entry = f
            /\ Making(t, f, "unlist") => r.at = "unlist" /\ r.entry = f
       /\ \A f \in gone : trash[f].object \in stored' \ discarded' => Spends(ops[t], f)
       /\ \A f \in Entries \ gone : trash[f].object \in stored' \ discarded' =>
            (Spends(r, f) => Spends(ops[t], f))
  BY <1>3, <1>4, <1>5, <1>9, <1>10, <1>12
<1>14. QED
  BY <1>2, <1>3, <1>5, <1>6, <1>8, <1>9, <1>11, <1>13, EmptyingPlaces

\* The entry goes when its object is gone.
LEMMA UnlistPlaces ==
  ASSUME Typed, PlacesMatch, Reachable, NEW t \in Threads, UnlistEntry(t)
  PROVE  PlacesMatch' /\ Reachable'
<1>1. PICK e : e = ops[t].entry
  OBVIOUS
<1>2. /\ ops[t].at = "unlist" /\ e \in Entries
      /\ ops' = [ops EXCEPT ![t] = Idle] /\ Idle.at = "idle"
      /\ UNCHANGED <<originals, stored, discarded, torn>>
  BY <1>1, WorksAtEntries DEF UnlistEntry, Quiet, Done, Idle
<1>3. PICK gone \in SUBSET Entries : gone = {e}
  BY <1>2
<1>4. /\ \A f \in Entries \ gone : trash'[f] = trash[f]
      /\ trash'[e].object = trash[e].object /\ ~trash'[e].listed
  BY <1>1, <1>2, <1>3 DEF UnlistEntry, Typed, StoresTyped, Place
<1>5. trash[e].object = Nothing /\ Nothing \notin stored
  BY <1>1, <1>2, LibraryAssumption DEF PlacesMatch, EntryIsKnown, Knows, Typed, StoresTyped
<1>6. Touches(ops[t], e) /\ \A f \in Entries : Making(t, f, "unlist") => f = e
  BY <1>1, <1>2 DEF Touches, Making
<1>7. Knows(Idle)' /\ \A f \in Entries : ~Spends(Idle, f) /\ ~Touches(Idle, f)
  BY <1>2 DEF Knows, Spends, Touches
<1>8. \A f \in gone : \A s \in Threads : ~Making(s, f, "list")
  BY <1>2, <1>3, <1>6, TouchedIsNotMade
<1>9. /\ \A f \in gone : /\ trash'[f].object \in {trash[f].object, Nothing}
                         /\ trash'[f].listed => trash[f].listed
      /\ \A f \in Entries : trash'[f].listed =>
           /\ f \in gone => trash'[f].base = trash[f].base /\ Idle.at = "unlist" /\ Idle.entry = f
           /\ Making(t, f, "unlist") => Idle.at = "unlist" /\ Idle.entry = f
      /\ \A f \in gone : trash[f].object \in stored' \ discarded' => Spends(ops[t], f)
      /\ \A f \in Entries \ gone : trash[f].object \in stored' \ discarded' =>
           (Spends(Idle, f) => Spends(ops[t], f))
  BY <1>2, <1>3, <1>4, <1>5, <1>6, <1>7
<1>10. QED
  BY <1>2, <1>4, <1>7, <1>8, <1>9, EmptyingPlaces

\* Expired entries leave the list together, their contents discarded.
LEMMA PurgePlaces ==
  ASSUME Typed, PlacesMatch, Reachable, NEW t \in Threads,
         NEW expired \in SUBSET Entries, PurgeTrash(t, expired)
  PROVE  PlacesMatch' /\ Reachable'
<1> DEFINE r == [kind |-> "purge", at |-> "objects", rest |-> expired]
<1>0. r.at = "objects" /\ r.rest = expired /\ ops' = [ops EXCEPT ![t] = r]
  BY DEF PurgeTrash
<1> HIDE DEF r
<1>1. /\ ops[t].at = "idle" /\ UNCHANGED <<originals, stored, torn>>
      /\ ops' = [ops EXCEPT ![t] = r] /\ r.at = "objects" /\ r.rest = expired
  <2>1. ops[t] = Idle /\ UNCHANGED <<originals, stored, torn>>
    BY DEF PurgeTrash, Quiet
  <2>2. QED
    BY <1>0, <2>1 DEF Idle
<1>2. /\ \A f \in Entries \ expired : trash'[f] = trash[f]
      /\ \A f \in expired : trash'[f].object = trash[f].object /\ ~trash'[f].listed
  BY DEF PurgeTrash, Typed, StoresTyped, Place
<1>3. /\ \A f \in expired : trash[f].listed
      /\ discarded \subseteq discarded'
      /\ \A f \in expired : trash[f].object # Nothing => trash[f].object \in discarded'
  BY DEF PurgeTrash
<1>4. Nothing \notin stored
  BY LibraryAssumption DEF Typed, StoresTyped
<1>5. \A f \in expired : \A s \in Threads : ~Making(s, f, "list")
  BY <1>3 DEF PlacesMatch, FreshIsKept
<1>6. /\ Knows(r)'
      /\ \A f \in Entries : (Touches(r, f) => f \in expired) /\ (Spends(r, f) => f \in expired)
  BY <1>1, <1>2 DEF Knows, Touches, Spends
<1>7. \A f \in Entries : ~Making(t, f, "unlist")
  BY <1>1 DEF Making
<1>8. QED
  BY <1>1, <1>2, <1>3, <1>4, <1>5, <1>6, <1>7, EmptyingPlaces

\* The objects of expired entries are deleted one by one.
LEMMA PurgeObjectPlaces ==
  ASSUME Typed, PlacesMatch, Reachable, NEW t \in Threads, PurgeObject(t)
  PROVE  PlacesMatch' /\ Reachable'
<1>1. PICK e \in ops[t].rest :
        /\ trash' = [trash EXCEPT ![e].object = Nothing]
        /\ Done(t) \/ ops' = [ops EXCEPT ![t].rest = @ \ {e}]
  BY DEF PurgeObject
<1>2. /\ ops[t].at = "objects" /\ ops[t] \in Purge /\ ops[t].rest \subseteq Entries
      /\ UNCHANGED <<originals, stored, discarded, torn>>
  BY OpIs, WorksAtEntries DEF PurgeObject, Op, Quiet, Typed
<1> DEFINE q == [ops[t] EXCEPT !.rest = ops[t].rest \ {e}]
<1>3. q.at = "objects" /\ q.rest = ops[t].rest \ {e} /\ Idle.at = "idle"
  BY <1>2 DEF Purge, Idle
<1>4. Done(t) \/ ops' = [ops EXCEPT ![t] = q]
  BY <1>1 DEF Typed, OpsTyped
<1> HIDE DEF q
<1>5. PICK r : /\ ops' = [ops EXCEPT ![t] = r]
               /\ r.at = "idle" \/ (r.at = "objects" /\ r.rest \subseteq ops[t].rest)
  BY <1>3, <1>4 DEF Done
<1>. PICK gone \in SUBSET Entries : gone = {e}
  BY <1>2
<1>6. /\ \A f \in Entries \ gone : trash'[f] = trash[f]
      /\ \A f \in Entries : trash'[f].listed = trash[f].listed
      /\ trash'[e].object = Nothing
  BY <1>1, <1>2 DEF Typed, StoresTyped, Place
<1>7. \A f \in ops[t].rest : ~trash[f].listed
  BY <1>2 DEF PlacesMatch, EntryIsKnown, Knows
<1>8. /\ Touches(ops[t], e) /\ Spends(ops[t], e)
      /\ \A f \in Entries : /\ ~Making(t, f, "unlist")
                            /\ Touches(r, f) => Touches(ops[t], f)
                            /\ Spends(r, f) => Spends(ops[t], f)
  BY <1>2, <1>5 DEF Touches, Spends, Making
<1>9. Knows(r)'
  BY <1>2, <1>5, <1>6, <1>7 DEF Knows
<1>10. \A f \in gone : \A s \in Threads : ~Making(s, f, "list")
  BY <1>2, <1>8, TouchedIsNotMade
<1>11. /\ \A f \in gone : /\ trash'[f].object \in {trash[f].object, Nothing}
                          /\ trash'[f].listed => trash[f].listed
       /\ \A f \in Entries : trash'[f].listed =>
            /\ f \in gone => trash'[f].base = trash[f].base /\ r.at = "unlist" /\ r.entry = f
            /\ Making(t, f, "unlist") => r.at = "unlist" /\ r.entry = f
       /\ \A f \in gone : trash[f].object \in stored' \ discarded' => Spends(ops[t], f)
       /\ \A f \in Entries \ gone : trash[f].object \in stored' \ discarded' =>
            (Spends(r, f) => Spends(ops[t], f))
  BY <1>2, <1>6, <1>7, <1>8
<1>12. ops[t].at \notin {"list", "name"} /\ r.at \notin {"list", "name"}
  BY <1>2, <1>5
<1>13. QED
  BY <1>2, <1>5, <1>6, <1>8, <1>9, <1>10, <1>11, <1>12, EmptyingPlaces

\* What was being made or unmade when the process died is torn.
LEMMA CrashPlaces ==
  ASSUME Typed, PlacesMatch, Reachable, Crash
  PROVE  PlacesMatch' /\ Reachable'
<1>1. /\ \A s \in Threads : ops'[s] = Idle /\ Idle.at = "idle"
      /\ torn' = torn \union InHand
      /\ UNCHANGED <<trash, originals, stored, discarded>>
  BY DEF Crash, files, Idle
<1>2. \A s \in Threads, f \in Entries, at \in {"list", "name", "unlist"} : Making(s, f, at) => f \in InHand
  BY HandlingIs DEF Making, InHand, Typed
<1>3. FreshIsKept' /\ EntryIsKnown'
  BY <1>1 DEF FreshIsKept, EntryIsKnown, Making, Knows
<1>4. ListedIsKept'
  BY <1>1, <1>2 DEF PlacesMatch, ListedIsKept
<1>5. \A f \in Entries : Kept(f) => Kept(f)'
  BY <1>1, <1>2 DEF Kept, Homed
<1>6. \A f \in Entries, s \in Threads : ~Spends(ops[s], f)'
  BY <1>1 DEF Spends
<1>7. Reachable'
  BY <1>1, <1>5, <1>6 DEF Reachable, Safe
<1>8. QED
  BY <1>3, <1>4, <1>7 DEF PlacesMatch

\* What an abandoned operation was making or unmaking is torn.
LEMMA AbandonPlaces ==
  ASSUME Typed, PlacesMatch, Reachable, NEW t \in Threads, Abandon(t)
  PROVE  PlacesMatch' /\ Reachable'
<1>1. /\ \A s \in Threads : ops'[s] = IF s = t THEN Idle ELSE ops[s]
      /\ Idle.at = "idle"
      /\ torn' = torn \union Handling(t)
      /\ UNCHANGED <<trash, originals, stored, discarded>>
  BY DEF Abandon, Done, files, Idle, Typed, OpsTyped
<1>2. \A f \in Entries, at \in {"list", "name", "unlist"} : Making(t, f, at) => f \in torn'
  BY <1>1, HandlingIs DEF Making, Typed
<1>3. \A s \in Threads, f \in Entries, at \in {"list", "name", "unlist"} :
        Making(s, f, at)' <=> s # t /\ Making(s, f, at)
  BY <1>1 DEF Making
<1>4. \A s \in Threads, f \in Entries :
        /\ Touches(ops'[s], f) => Touches(ops[s], f)
        /\ Spends(ops'[s], f) => Spends(ops[s], f)
  BY <1>1 DEF Touches, Spends
<1>5. FreshIsKept'
  BY <1>1, <1>3, <1>4 DEF PlacesMatch, FreshIsKept, Touches
<1>6. EntryIsKnown'
  BY <1>1 DEF PlacesMatch, EntryIsKnown, Knows
<1>7. ListedIsKept'
  BY <1>1, <1>2, <1>3 DEF PlacesMatch, ListedIsKept
<1>8. \A f \in Entries : Kept(f) => Kept(f)'
  BY <1>1, <1>2, <1>3 DEF Kept, Homed
<1>9. \A f \in Entries : Safe(f) => Safe(f)'
  BY <1>4, <1>8 DEF Safe, Spends
<1>10. Reachable'
  BY <1>1, <1>9 DEF Reachable
<1>11. QED
  BY <1>5, <1>6, <1>7, <1>10 DEF PlacesMatch

\* The trash is empty at first.
LEMMA InitPlaces == Init => PlacesMatch /\ Reachable
<1> SUFFICES ASSUME Init PROVE PlacesMatch /\ Reachable
  OBVIOUS
<1>1. \A t \in Threads : ops[t].at = "idle"
  BY DEF Init, Idle
<1>2. \A e \in Entries : ~trash[e].listed
  BY DEF Init, Blank
<1>3. PlacesMatch
  BY <1>1, <1>2 DEF PlacesMatch, FreshIsKept, EntryIsKnown, ListedIsKept, Making, Knows
<1>4. Reachable
  BY DEF Init, Reachable
<1>5. QED
  BY <1>3, <1>4

-----------------------------------------------------------------------------
(* The invariant, and what it says.                                         *)

\* The steps of an upload keep Typed and KeysMatch.
LEMMA UploadInvariant ==
  ASSUME Typed, KeysMatch, NEW u \in Uploaders,
         \/ UploadStep(u)
         \/ \E key \in Keys \union {Nothing}, kb \in Kbs, h \in Contents : Receive(u, key, kb, h)
  PROVE  Typed' /\ KeysMatch'
<1>1. ASSUME NEW key \in Keys \union {Nothing}, NEW kb \in Kbs, NEW h \in Contents,
             Receive(u, key, kb, h)
      PROVE  Typed' /\ KeysMatch'
  BY <1>1, ReceiveTyped, ReceiveKeys
<1>2. CASE Look(u) \/ Write(u) \/ Create(u) \/ SetPath(u) \/ Enqueue(u) \/ Fail(u)
  <2>1. Typed'
    BY <1>2, LookTyped, WriteTyped, CreateTyped, SetPathTyped, EnqueueTyped, FailTyped
  <2>2. DocsKept
    <3>1. CASE Create(u) /\ CreateRow(up[u].asked.kb, up[u].asked.hash)
      <4>1. Running(u)
        BY <3>1 DEF Create, Running
      <4>2. QED
        BY <3>1, <4>1, AskedIs, NewDoc DEF Typed
    <3>2. CASE UNCHANGED docs
      BY <3>2, SameDocs DEF Typed
    <3>3. QED
      BY <1>2, <3>1, <3>2 DEF Look, Write, StoreOriginal, Create, SetPath, RecordPath, Enqueue, Fail,
                             files
  <2>3. QED
    BY <1>2, <2>1, <2>2, UploadStepKeys
<1>3. CASE Complete(u)
  BY <1>3, CompleteTyped, CompleteKeys
<1>4. CASE Release(u)
  BY <1>4, ReleaseTyped, ReleaseKeys
<1>5. QED
  BY <1>1, <1>2, <1>3, <1>4 DEF UploadStep

\* So do the threads, which leave keys and uploads alone.
LEMMA ThreadInvariant ==
  ASSUME IInv, NEW t \in Threads,
         \/ ThreadStep(t)
         \/ \E d \in Docs : DeleteDocument(t, d)
         \/ \E kb \in Kbs : DeleteBase(t, kb)
         \/ \E e \in Entries : Restore(t, e) \/ DropEntry(t, e)
         \/ \E expired \in SUBSET Entries : PurgeTrash(t, expired)
  PROVE  IInv'
<1> USE DEF IInv
<1>1. Typed'
  BY DeletionTyped, BaseDeletionTyped, EntryTyped, MaintenanceTyped DEF ThreadStep
<1>2. PlacesMatch' /\ Reachable'
  BY DeletionPlaces, MovePlaces, ListPlaces, RestorationPlaces, ClearPlaces, UnlistPlaces,
     PurgePlaces, PurgeObjectPlaces DEF ThreadStep
<1>3. UNCHANGED <<keys, up, stuck>>
  BY DEF ThreadStep, MoveToTrash, ListEntry, NameEntry, DeleteRow, PurgeContent, DropBase,
         WriteBack, RestoreRow, RestorePath, ClearEntry, UnlistEntry, PurgeObject,
         DeleteDocument, DeleteBase, Restore, DropEntry, PurgeTrash, Quiet
<1>4. DocsKept
  <2>1. CASE RestoreRow(t) /\ CreateRow(ops[t].content.kb, ops[t].content.hash)
    <3>1. ops[t].content \in Request
      BY <2>1 DEF RestoreRow, Op, Typed, OpsTyped
    <3>2. QED
      BY <2>1, <3>1, NewDoc DEF Request, Typed
  <2>2. CASE UNCHANGED docs
    BY <2>2, SameDocs DEF Typed
  <2>3. QED
    BY <2>1, <2>2 DEF ThreadStep, MoveToTrash, ListEntry, NameEntry, DeleteRow, PurgeContent,
         DropBase, WriteBack, StoreOriginal, RestoreRow, RestorePath, RecordPath, ClearEntry,
         UnlistEntry, PurgeObject, DeleteDocument, DeleteBase, Restore, DropEntry, PurgeTrash,
         files
<1>5. KeysMatch'
  BY <1>3, <1>4, KeysRest
<1>6. QED
  BY <1>1, <1>2, <1>5

\* So does an operation that is given up.
LEMMA AbandonInvariant == ASSUME IInv, NEW t \in Threads, Abandon(t) PROVE IInv'
<1>1. Typed' /\ PlacesMatch' /\ Reachable'
  BY AbandonTyped, AbandonPlaces DEF IInv
<1>2. DocsKept
  BY SameDocs DEF Abandon, files, IInv, Typed
<1>3. KeysMatch'
  BY <1>2, KeysRest DEF Abandon, IInv
<1>4. QED
  BY <1>1, <1>3 DEF IInv

\* IInv holds in every reachable state, for any bases, contents, keys, import
\* threads, operation threads and bounds: it is what the steps of uploads,
\* deletions, restorations and the maintenance, a failure of any of them and a
\* crash all keep.
THEOREM LibraryInvariant == Spec => []IInv
<1>1. Init => IInv
  BY InitTyped, InitKeys, InitPlaces DEF IInv
<1>2. IInv /\ [Next]_vars => IInv'
  <2> SUFFICES ASSUME IInv, [Next]_vars PROVE IInv'
    OBVIOUS
  <2>1. ASSUME NEW u \in Uploaders,
               \/ UploadStep(u)
               \/ \E key \in Keys \union {Nothing}, kb \in Kbs, h \in Contents :
                    Receive(u, key, kb, h)
        PROVE  IInv'
    BY <2>1, UploadInvariant, UploadPlaces DEF IInv
  <2>2. ASSUME NEW t \in Threads,
               \/ ThreadStep(t)
               \/ \E d \in Docs : DeleteDocument(t, d)
               \/ \E kb \in Kbs : DeleteBase(t, kb)
               \/ \E e \in Entries : Restore(t, e) \/ DropEntry(t, e)
               \/ \E expired \in SUBSET Entries : PurgeTrash(t, expired)
        PROVE  IInv'
    BY <2>2, ThreadInvariant
  <2>3. ASSUME NEW t \in Threads, Abandon(t) PROVE IInv'
    BY <2>3, AbandonInvariant
  <2>4. ASSUME NEW k \in Keys, PurgeKey(k) PROVE IInv'
    BY <2>4, PurgeKeyTyped, PurgeKeyKeys, UploadPlaces DEF IInv, Uploaders
  <2>5. CASE Crash
    BY <2>5, CrashTyped, CrashKeys, CrashPlaces DEF IInv
  <2>6. CASE UNCHANGED vars
    <3>1. Typed'
      BY <2>6, StutterTyped DEF IInv
    <3>2. DocsKept
      BY <2>6, SameDocs DEF vars, files, IInv, Typed
    <3>3. KeysMatch'
      BY <2>6, <3>2, KeysRest DEF vars, IInv
    <3>4. PlacesMatch'
      BY <2>6, PlacesRest DEF vars, files, IInv
    <3>5. Reachable'
      BY <2>6, ReachableRest DEF vars, files, IInv
    <3>6. QED
      BY <3>1, <3>3, <3>4, <3>5 DEF IInv
  <2>7. QED
    BY <2>1, <2>2, <2>3, <2>4, <2>5, <2>6 DEF Next
<1>3. QED
  BY <1>1, <1>2, PTL DEF Spec

\* Types: rows, settings, operations and trash entries name documents and
\* places that exist, and no base has one content twice.
THEOREM LibraryTypeCorrect == Spec => []TypeOK
<1>1. Typed => TypeOK
  <2> SUFFICES ASSUME Typed PROVE TypeOK
    OBVIOUS
  <2> USE DEF Typed
  <2>1. StoresTyped!1 /\ docs \in Seq([kb : Kbs, hash : Contents]) /\ Len(docs) <= MaxDocs
    BY DEF StoresTyped, Request
  <2>2. keys \in [Keys -> [asked : [kb : Kbs, hash : Contents],
                           answer : Docs \union {Nothing}] \union {Nothing}]
    <3>1. ASSUME NEW k \in Keys
          PROVE  keys[k] \in [asked : [kb : Kbs, hash : Contents],
                              answer : Docs \union {Nothing}] \union {Nothing}
      BY DEF KeysTyped, KeyRecord, Request
    <3>2. QED
      BY <3>1 DEF KeysTyped
  <2>3. ASSUME NEW u \in Uploaders, up[u] # Idle
        PROVE  /\ up[u].key \in Keys \union {Nothing} /\ up[u].doc \in Docs \union {0}
               /\ up[u].at \in {"complete", "told", "path", "enqueue"} => up[u].doc # 0
    <3>1. up[u].key \in Keys \union {Nothing} /\ up[u].doc \in Docs \union {0}
      BY <2>3 DEF UploadsTyped, Upload
    <3>2. up[u].at \in {"complete", "told", "path", "enqueue"} => up[u].doc \in Docs
      BY <2>3 DEF UploadsTyped
    <3>3. 0 \notin Docs
      BY DEF Docs
    <3>4. QED
      BY <3>1, <3>2, <3>3
  <2>4. InHand \subseteq Entries
    BY HandlingIs DEF InHand
  <2>5. trash \in [Entries -> [object : Contents \union {Nothing}, listed : BOOLEAN,
                               base : Kbs \union {Nothing}]]
    BY DEF StoresTyped, Place
  <2>6. QED
    BY <2>1, <2>2, <2>3, <2>4, <2>5 DEF TypeOK, StoresTyped, KeysTyped
<1>2. QED
  BY <1>1, LibraryInvariant, PTL DEF IInv

\* An answer names a document of what was sent, and all answers under one key
\* name the same document, however requests, crashes and purges interleave.
THEOREM AnswersAlwaysAgree == Spec => []AnswersAgree
<1>1. IInv => AnswersAgree
  BY DEF IInv, KeysMatch
<1>2. QED
  BY <1>1, LibraryInvariant, PTL

\* A key without an answer is held by a running request, unless a crash or a
\* failed save or release left it so.
THEOREM KeysAlwaysReleased == Spec => []KeysAreReleased
<1>1. IInv => KeysAreReleased
  BY DEF IInv, KeysMatch
<1>2. QED
  BY <1>1, LibraryInvariant, PTL

\* A content once stored is an original, or is in a trash entry that can be
\* restored, that is stranded because its base was deleted, or that is being
\* made or was cut off while it was made, or it was thrown away on request.
THEOREM ContentStaysReachable == Spec => []ContentReachable
<1>1. IInv => ContentReachable
  <2> SUFFICES ASSUME IInv, NEW h \in stored \ discarded, h \notin originals
               PROVE  \E e \in Entries :
                        /\ trash[e].object = h
                        /\ Restorable(e) \/ Stranded(e) \/ e \in InHand \union torn
    BY DEF ContentReachable
  <2>1. PICK e \in Entries : trash[e].object = h /\ Safe(e)
    BY DEF IInv, Reachable
  <2>2. ASSUME NEW t \in Threads, Making(t, e, "list") \/ Making(t, e, "name")
        PROVE  e \in InHand
    BY <2>2, HandlingIs DEF Making, InHand, IInv, Typed
  <2>3. ASSUME Homed(e) PROVE Restorable(e) \/ Stranded(e)
    BY <2>3 DEF Homed, Restorable, Stranded, IInv, Typed, StoresTyped, Place
  <2>4. QED
    BY <2>1, <2>2, <2>3 DEF Safe, Kept
<1>2. QED
  BY <1>1, LibraryInvariant, PTL

\* Whatever the trash lists has its original and names its base, unless an
\* operation is at it or was cut off at it.
THEOREM ListedStaysComplete == Spec => []ListedIsComplete
<1>1. IInv => ListedIsComplete
  <2> SUFFICES ASSUME IInv, NEW e \in Entries, e \notin InHand, e \notin torn, trash[e].listed
               PROVE  trash[e].object # Nothing /\ trash[e].base # Nothing
    BY DEF ListedIsComplete
  <2>1. \A t \in Threads : ~Making(t, e, "unlist") /\ ~Making(t, e, "name")
    BY HandlingIs DEF Making, InHand, IInv, Typed
  <2>2. QED
    BY <2>1 DEF IInv, PlacesMatch, ListedIsKept
<1>2. QED
  BY <1>1, LibraryInvariant, PTL
=============================================================================

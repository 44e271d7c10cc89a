--------------------------- MODULE DocumentProofs ----------------------------
(* Proofs about documents: the store, then the chunks of a text. *)
EXTENDS DocumentStore, Chunking, WellFoundedInduction, TLAPS

(***************************************************************************)
(* What DocumentStore keeps, for any number of uploads, deletes, searches  *)
(* and chunks.  The inductive invariant DocumentInv says how far the       *)
(* handlers must have come for the rows and the vectors there are:         *)
(*   - vectors of a document are added only while it has no row, and a     *)
(*     delete has read only documents that have one, so from its erasure   *)
(*     on nothing brings them back;                                        *)
(*   - a row is deleted only by a request that has erased the vectors.     *)
(***************************************************************************)

UploadStages ==
  {"post", "refused", "inserted", "indexed", "committed", "answered", "raised", "aborted"}
DeleteStages == {"post", "refused", "read", "erased", "answered", "raised", "aborted"}
SearchStages == {"post", "refused", "queried", "answered", "aborted"}

\* What the stage of an upload says of its row and its vectors.
UploadOf(u) ==
  /\ stage[u] \in UploadStages
  /\ stage[u] \in {"post", "refused", "inserted", "indexed"} => rows[u] = "absent"
  /\ stage[u] \in {"committed", "answered"} => rows[u] # "absent"
  /\ stage[u] = "indexed" => VectorsOf({u}) \subseteq vectors
  /\ rows[u] = "deleted" => vectors \cap VectorsOf({u}) = {}

UploadInv == \A u \in Uploads : UploadOf(u)

\* What the stage of a delete says of the document it has read.
DeleteOf(d) ==
  /\ stage[d] \in DeleteStages
  /\ stage[d] = "post" => subject[d] = NoDocument
  /\ stage[d] \in {"read", "erased", "answered", "raised"} => subject[d] \in Uploads
  /\ subject[d] \in Uploads => rows[subject[d]] # "absent"
  /\ stage[d] \in {"erased", "answered"} => vectors \cap VectorsOf({subject[d]}) = {}
  /\ stage[d] = "answered" => rows[subject[d]] = "deleted"

DeleteInv == \A d \in Deletes : DeleteOf(d)

\* What a search has been given and what it answers.
SearchInv ==
  \A s \in Searches :
    /\ stage[s] \in SearchStages
    /\ stage[s] = "post" => results[s] = {}
    /\ \A v \in hits[s] : v[1] \notin forgotten[s]
    /\ \A v \in results[s] : v[1] \notin forgotten[s] /\ rows[v[1]] # "absent"

\* What was due when the vector store was asked is among the hits, if they are
\* fewer than asked for, and among the answers unless it was deleted since.
DueOf(s) ==
  Cardinality(hits[s]) < TopK =>
    \A u \in due[s] :
      /\ stage[s] = "queried" => VectorsOf({u}) \subseteq hits[s]
      /\ stage[s] = "answered" /\ rows[u] = "live" => VectorsOf({u}) \subseteq results[s]
      /\ rows[u] # "absent"

DueInv == \A s \in Searches : DueOf(s)

DocumentInv ==
  /\ TypeOK /\ UploadInv /\ DeleteInv /\ SearchInv /\ DueInv /\ LiveDocumentsAreIndexed

-----------------------------------------------------------------------------
(* Vectors of different documents are different. *)

LEMMA VectorsOfOne ==
  ASSUME NEW u, NEW v \in VectorsOf({u})
  PROVE  v[1] = u
BY DEF VectorsOf

LEMMA VectorsOfTwo ==
  ASSUME NEW u, NEW w, u # w
  PROVE  VectorsOf({u}) \cap VectorsOf({w}) = {}
BY DEF VectorsOf

\* A vector belongs to the document it names.
LEMMA VectorsAreTheirs ==
  ASSUME NEW v \in VectorsOf(Uploads)
  PROVE  v[1] \in Uploads /\ v \in VectorsOf({v[1]})
BY DEF VectorsOf

-----------------------------------------------------------------------------

LEMMA InitDocumentInv == Init => DocumentInv
<1> SUFFICES ASSUME Init PROVE DocumentInv
  OBVIOUS
<1> USE DEF Init
<1>1. TypeOK
  BY DEF TypeOK, Stages, Ended, Reqs
<1>2. UploadInv /\ LiveDocumentsAreIndexed
  BY DEF UploadInv, UploadOf, UploadStages, LiveDocumentsAreIndexed, Live, Reqs
<1>3. DeleteInv
  BY RequestsAreDistinct DEF DeleteInv, DeleteOf, DeleteStages, Reqs
<1>4. SearchInv /\ DueInv
  BY DEF SearchInv, SearchStages, DueInv, DueOf, Reqs
<1> QED BY <1>1, <1>2, <1>3, <1>4 DEF DocumentInv

\* Uploads and deletes leave the searches as they are, and no row comes back.
LEMMA SearchesStay ==
  ASSUME TypeOK, SearchInv, DueInv, UNCHANGED <<hits, results, forgotten, due>>,
         \A s \in Searches : stage'[s] = stage[s],
         \A w \in Uploads : rows[w] # "absent" =>
           rows'[w] # "absent" /\ (rows'[w] = "live" => rows[w] = "live")
  PROVE  SearchInv' /\ DueInv'
<1>1. \A s \in Searches : \A v \in results[s] : v[1] \in Uploads
  BY VectorsAreTheirs DEF TypeOK
<1>2. \A s \in Searches : due[s] \subseteq Uploads
  BY DEF TypeOK
<1>3. SearchInv'
  BY <1>1 DEF SearchInv
<1>4. DueInv'
  BY <1>2 DEF DueInv, DueOf
<1> QED BY <1>3, <1>4

\* What is true of an upload, or of a delete, stays true while its stage, the
\* row and the vectors of its document are what they were.
LEMMA UploadStays ==
  ASSUME NEW w, UploadOf(w), stage'[w] = stage[w], rows'[w] = rows[w],
         vectors' \cap VectorsOf({w}) = vectors \cap VectorsOf({w})
  PROVE  UploadOf(w)'
BY DEF UploadOf

LEMMA DeleteStays ==
  ASSUME NEW c, DeleteOf(c), stage'[c] = stage[c], subject'[c] = subject[c],
         subject[c] \in Uploads =>
           /\ rows'[subject[c]] = rows[subject[c]]
           /\ vectors' \cap VectorsOf({subject[c]}) = vectors \cap VectorsOf({subject[c]})
  PROVE  DeleteOf(c)'
BY DEF DeleteOf

\* One lemma per kind of request.
LEMMA UploadKeepsInv ==
  ASSUME DocumentInv, NEW u \in Uploads, UploadStep(u)
  PROVE  DocumentInv'
<1> USE RequestsAreDistinct DEF DocumentInv, Goto, Reqs, TypeOK
<1>1. ASSUME UploadRefused(u) \/ InsertRows(u) \/ AnswerUpload(u) PROVE DocumentInv'
  <2> USE <1>1 DEF UploadRefused, InsertRows, AnswerUpload
  <2>1. TypeOK'
    BY DEF Stages, Ended
  <2>2. UploadInv'
    BY DEF UploadInv, UploadOf, UploadStages
  <2>3. DeleteInv'
    <3>1. \A d \in Deletes : stage'[d] = stage[d]
      OBVIOUS
    <3> QED BY <3>1 DEF DeleteInv, DeleteOf
  <2>4. SearchInv' /\ DueInv'
    BY SearchesStay
  <2>5. LiveDocumentsAreIndexed'
    BY DEF LiveDocumentsAreIndexed, Live, ErasersOf
  <2> QED BY <2>1, <2>2, <2>3, <2>4, <2>5
<1>2. ASSUME IndexChunks(u) \/ IndexChunksFails(u) PROVE DocumentInv'
  <2> USE <1>2 DEF IndexChunks, IndexChunksFails, Perhaps
  <2>1. /\ stage[u] = "inserted" /\ rows' = rows /\ rows[u] = "absent"
        /\ stage' \in {[stage EXCEPT ![u] = "indexed"], [stage EXCEPT ![u] = "refused"]}
        /\ vectors' \in {vectors, vectors \cup VectorsOf({u})}
        /\ UNCHANGED <<subject, hits, results, forgotten, due>>
        /\ stage'[u] = "indexed" => VectorsOf({u}) \subseteq vectors'
    BY DEF UploadInv, UploadOf
  <2>2. \A w \in Uploads \ {u} : vectors' \cap VectorsOf({w}) = vectors \cap VectorsOf({w})
    BY <2>1, VectorsOfTwo
  <2>3. TypeOK'
    BY <2>1 DEF Stages, Ended, VectorsOf
  <2>4. UploadInv'
    <3>1. UploadOf(u)'
      BY <2>1 DEF UploadOf, UploadStages
    <3>2. ASSUME NEW w \in Uploads \ {u} PROVE UploadOf(w)'
      <4>1. UploadOf(w) /\ stage'[w] = stage[w]
        BY <2>1 DEF UploadInv
      <4> QED BY <2>1, <2>2, <4>1, UploadStays
    <3> QED BY <3>1, <3>2 DEF UploadInv
  <2>5. DeleteInv'
    <3>1. ASSUME NEW d \in Deletes PROVE DeleteOf(d)'
      <4>1. DeleteOf(d) /\ stage'[d] = stage[d] /\ subject'[d] = subject[d]
        BY <2>1 DEF DeleteInv
      <4>2. subject[d] \in Uploads => subject[d] # u
        BY <2>1, <4>1 DEF DeleteOf
      <4> QED BY <2>1, <2>2, <4>1, <4>2, DeleteStays
    <3> QED BY <3>1 DEF DeleteInv
  <2>6. SearchInv' /\ DueInv'
    BY <2>1, SearchesStay
  <2>7. LiveDocumentsAreIndexed'
    BY <2>1 DEF LiveDocumentsAreIndexed, Live, ErasersOf
  <2> QED BY <2>3, <2>4, <2>5, <2>6, <2>7
<1>3. ASSUME CommitUpload(u) \/ CommitUploadFails(u) PROVE DocumentInv'
  <2> USE <1>3 DEF CommitUpload, CommitUploadFails, Perhaps
  <2>1. /\ stage[u] = "indexed" /\ rows[u] = "absent" /\ VectorsOf({u}) \subseteq vectors
        /\ rows' \in {rows, [rows EXCEPT ![u] = "live"]}
        /\ stage' \in {[stage EXCEPT ![u] = "committed"], [stage EXCEPT ![u] = "raised"]}
        /\ stage'[u] = "committed" => rows'[u] = "live"
        /\ UNCHANGED <<vectors, subject, hits, results, forgotten, due>>
    BY DEF UploadInv, UploadOf
  <2>2. \A d \in Deletes : subject[d] # u
    BY <2>1 DEF DeleteInv, DeleteOf
  <2>3. TypeOK'
    BY <2>1 DEF Stages, Ended
  <2>4. \A w \in Uploads \ {u} : rows'[w] = rows[w]
    BY <2>1
  <2>5. UploadInv'
    <3>1. UploadOf(u)'
      BY <2>1 DEF UploadOf, UploadStages
    <3>2. ASSUME NEW w \in Uploads \ {u} PROVE UploadOf(w)'
      <4>1. UploadOf(w) /\ stage'[w] = stage[w]
        BY <2>1 DEF UploadInv
      <4> QED BY <2>1, <2>4, <4>1, UploadStays
    <3> QED BY <3>1, <3>2 DEF UploadInv
  <2>6. DeleteInv'
    <3>1. ASSUME NEW d \in Deletes PROVE DeleteOf(d)'
      <4>1. DeleteOf(d) /\ stage'[d] = stage[d] /\ subject'[d] = subject[d] /\ subject[d] # u
        BY <2>1, <2>2 DEF DeleteInv
      <4> QED BY <2>1, <2>4, <4>1, DeleteStays
    <3> QED BY <3>1 DEF DeleteInv
  <2>7. SearchInv' /\ DueInv'
    <3>1. \A s \in Searches : stage'[s] = stage[s]
      BY <2>1
    <3>2. \A w \in Uploads : rows[w] # "absent" => rows'[w] = rows[w]
      BY <2>1
    <3> QED BY <2>1, <3>1, <3>2, SearchesStay
  <2>8. LiveDocumentsAreIndexed'
    <3>1. \A w \in Uploads : ErasersOf(w)' = ErasersOf(w)
      BY <2>1 DEF ErasersOf
    <3> QED BY <2>1, <2>4, <3>1 DEF LiveDocumentsAreIndexed, Live
  <2> QED BY <2>3, <2>5, <2>6, <2>7, <2>8
<1> QED BY <1>1, <1>2, <1>3 DEF UploadStep

LEMMA DeleteKeepsInv ==
  ASSUME DocumentInv, NEW d \in Deletes, DeleteStep(d)
  PROVE  DocumentInv'
<1> USE RequestsAreDistinct DEF DocumentInv, Goto, Reqs, TypeOK
<1>1. ASSUME ReadForDelete(d) PROVE DocumentInv'
  <2> USE <1>1 DEF ReadForDelete
  <2>1. PICK u \in Live : subject' = [subject EXCEPT ![d] = u]
    OBVIOUS
  <2>2. u \in Uploads /\ rows[u] = "live" /\ subject[d] = NoDocument
    BY DEF Live, DeleteInv, DeleteOf
  <2>3. \A w \in Uploads : ErasersOf(w) \subseteq ErasersOf(w)'
    BY <2>1, <2>2 DEF ErasersOf
  <2>4. TypeOK'
    BY <2>1, <2>2 DEF Stages, Ended
  <2>5. UploadInv'
    <3>1. \A w \in Uploads : stage'[w] = stage[w] /\ rows'[w] = rows[w]
      OBVIOUS
    <3> QED BY <3>1, UploadStays DEF UploadInv
  <2>6. DeleteInv'
    <3>1. DeleteOf(d)'
      BY <2>1, <2>2 DEF DeleteOf, DeleteStages
    <3>2. ASSUME NEW c \in Deletes \ {d} PROVE DeleteOf(c)'
      <4>1. DeleteOf(c) /\ stage'[c] = stage[c] /\ subject'[c] = subject[c]
        BY <2>1 DEF DeleteInv
      <4> QED BY <4>1, DeleteStays
    <3> QED BY <3>1, <3>2 DEF DeleteInv
  <2>7. SearchInv' /\ DueInv'
    BY SearchesStay
  <2>8. LiveDocumentsAreIndexed'
    BY <2>3 DEF LiveDocumentsAreIndexed, Live
  <2> QED BY <2>4, <2>5, <2>6, <2>7, <2>8
<1>2. ASSUME DeleteFindsNothing(d) PROVE DocumentInv'
  <2> USE <1>2 DEF DeleteFindsNothing
  <2>1. TypeOK'
    BY DEF Stages, Ended
  <2>2. UploadInv' /\ SearchInv' /\ DueInv'
    BY SearchesStay DEF UploadInv, UploadOf
  <2>3. DeleteInv'
    BY DEF DeleteInv, DeleteOf, DeleteStages
  <2>4. LiveDocumentsAreIndexed'
    BY DEF LiveDocumentsAreIndexed, Live, ErasersOf
  <2> QED BY <2>1, <2>2, <2>3, <2>4
<1>3. ASSUME EraseVectors(d) \/ EraseVectorsFails(d) PROVE DocumentInv'
  <2> USE <1>3 DEF EraseVectors, EraseVectorsFails, Perhaps
  <2>1. /\ stage[d] = "read" /\ subject[d] \in Uploads /\ rows' = rows
        /\ stage' \in {[stage EXCEPT ![d] = "erased"], [stage EXCEPT ![d] = "refused"]}
        /\ vectors' \in {vectors, vectors \ VectorsOf({subject[d]})}
        /\ stage'[d] = "erased" => vectors' = vectors \ VectorsOf({subject[d]})
        /\ UNCHANGED <<subject, hits, results, forgotten, due>>
    BY DEF DeleteInv, DeleteOf
  <2>2. ASSUME NEW w \in Uploads, w # subject[d], VectorsOf({w}) \subseteq vectors
        PROVE  VectorsOf({w}) \subseteq vectors'
    <3>1. VectorsOf({w}) \cap VectorsOf({subject[d]}) = {}
      BY <2>2, VectorsOfTwo
    <3> QED BY <2>1, <2>2, <3>1
  <2>3. d \in ErasersOf(subject[d])'
    BY <2>1 DEF ErasersOf
  <2>4. TypeOK'
    BY <2>1 DEF Stages, Ended
  <2>5. UploadInv'
    <3>1. rows[subject[d]] # "absent"
      BY <2>1 DEF DeleteInv, DeleteOf
    <3>2. ASSUME NEW w \in Uploads PROVE UploadOf(w)'
      <4>1. UploadOf(w) /\ stage'[w] = stage[w] /\ rows'[w] = rows[w]
        BY <2>1 DEF UploadInv
      <4>2. stage[w] = "indexed" => VectorsOf({w}) \subseteq vectors'
        BY <2>2, <3>1, <4>1 DEF UploadOf
      <4>3. vectors' \subseteq vectors
        BY <2>1
      <4> QED BY <4>1, <4>2, <4>3 DEF UploadOf
    <3> QED BY <3>2 DEF UploadInv
  <2>6. DeleteInv'
    <3>1. DeleteOf(d)'
      BY <2>1 DEF DeleteInv, DeleteOf, DeleteStages
    <3>2. ASSUME NEW c \in Deletes \ {d} PROVE DeleteOf(c)'
      <4>1. DeleteOf(c) /\ stage'[c] = stage[c] /\ subject'[c] = subject[c] /\ rows' = rows
        BY <2>1 DEF DeleteInv
      <4>2. vectors' \subseteq vectors
        BY <2>1
      <4> QED BY <4>1, <4>2 DEF DeleteOf
    <3> QED BY <3>1, <3>2 DEF DeleteInv
  <2>7. SearchInv' /\ DueInv'
    BY <2>1, SearchesStay
  <2>8. LiveDocumentsAreIndexed'
    <3>1. \A w \in Uploads : ErasersOf(w) \subseteq ErasersOf(w)'
      BY <2>1 DEF ErasersOf
    <3>2. ASSUME NEW w \in Live', ErasersOf(w)' = {} PROVE VectorsOf({w}) \subseteq vectors'
      <4>1. w \in Live /\ w \in Uploads
        BY <2>1, <3>2 DEF Live
      <4>2. w # subject[d] /\ ErasersOf(w) = {}
        BY <2>3, <3>1, <3>2, <4>1
      <4>3. VectorsOf({w}) \subseteq vectors
        BY <4>1, <4>2 DEF LiveDocumentsAreIndexed
      <4> QED BY <2>2, <4>1, <4>2, <4>3
    <3> QED BY <3>2 DEF LiveDocumentsAreIndexed
  <2> QED BY <2>4, <2>5, <2>6, <2>7, <2>8
<1>4. ASSUME CommitDelete(d) \/ CommitDeleteFails(d) PROVE DocumentInv'
  <2>1. /\ stage[d] = "erased" /\ subject[d] \in Uploads /\ rows[subject[d]] # "absent"
        /\ vectors \cap VectorsOf({subject[d]}) = {}
        /\ rows' \in {rows, [rows EXCEPT ![subject[d]] = "deleted"]}
        /\ stage' \in {[stage EXCEPT ![d] = "answered"], [stage EXCEPT ![d] = "raised"]}
        /\ stage'[d] = "answered" => rows'[subject[d]] = "deleted"
        /\ UNCHANGED <<vectors, subject, hits, results, forgotten, due>>
    BY <1>4 DEF CommitDelete, CommitDeleteFails, Perhaps, DeleteInv, DeleteOf
  <2>2. TypeOK'
    BY <2>1 DEF Stages, Ended
  <2>3. \A w \in Uploads : /\ rows[w] # "absent" <=> rows'[w] # "absent"
                           /\ rows[w] = "deleted" => rows'[w] = "deleted"
                           /\ rows'[w] = "deleted" => rows[w] = "deleted" \/ w = subject[d]
                           /\ rows'[w] = "live" => rows[w] = "live"
    BY <2>1
  <2>4. UploadInv'
    <3>1. \A w \in Uploads : stage'[w] = stage[w]
      BY <2>1
    <3>2. \A w \in Uploads : rows'[w] \in {"absent", "live", "deleted"}
      BY <2>2
    <3> QED BY <2>1, <2>3, <3>1, <3>2 DEF UploadInv, UploadOf
  <2>5. DeleteInv'
    <3>1. DeleteOf(d)'
      BY <2>1 DEF DeleteOf, DeleteStages
    <3>2. ASSUME NEW c \in Deletes, c # d PROVE DeleteOf(c)'
      <4>1. DeleteOf(c) /\ stage'[c] = stage[c]
        BY <2>1, <3>2 DEF DeleteInv
      <4> QED BY <2>1, <2>3, <4>1 DEF DeleteOf
    <3> QED BY <3>1, <3>2 DEF DeleteInv
  <2>6. SearchInv' /\ DueInv'
    <3>1. \A s \in Searches : stage'[s] = stage[s]
      BY <2>1
    <3> QED BY <2>1, <2>3, <3>1, SearchesStay
  <2>7. LiveDocumentsAreIndexed'
    <3>1. \A w \in Uploads : ErasersOf(w) \subseteq ErasersOf(w)'
      BY <2>1 DEF ErasersOf
    <3> QED BY <2>1, <2>3, <3>1 DEF LiveDocumentsAreIndexed, Live
  <2> QED BY <2>2, <2>4, <2>5, <2>6, <2>7
<1> QED BY <1>1, <1>2, <1>3, <1>4 DEF DeleteStep

\* What a search is given is not of a document whose delete was answered.
LEMMA SearchKeepsInv ==
  ASSUME DocumentInv, NEW s \in Searches, SearchStep(s)
  PROVE  DocumentInv'
<1> USE RequestsAreDistinct DEF DocumentInv, Goto, Reqs, TypeOK
<1>1. UploadInv' /\ DeleteInv' /\ LiveDocumentsAreIndexed'
  <2>1. UNCHANGED <<rows, vectors, subject>> /\ \A r \in Reqs \ {s} : stage'[r] = stage[r]
    BY DEF SearchStep, QueryVectors, QueryVectorsFails, Hydrate
  <2>2. \A r \in Uploads \cup Deletes : stage'[r] = stage[r]
    BY <2>1
  <2>3. UploadInv' /\ DeleteInv'
    BY <2>1, <2>2 DEF UploadInv, UploadOf, DeleteInv, DeleteOf
  <2>4. \A w \in Uploads : ErasersOf(w)' = ErasersOf(w)
    BY <2>1, <2>2 DEF ErasersOf
  <2> QED BY <2>1, <2>3, <2>4 DEF LiveDocumentsAreIndexed, Live
<1>2. ASSUME QueryVectors(s) PROVE TypeOK' /\ SearchInv' /\ DueInv'
  <2> USE <1>2 DEF QueryVectors
  <2>0. PICK scope \in {Uploads} \cup {{u} : u \in Uploads} :
          /\ \E H \in NearestOf(vectors \cap VectorsOf(scope)) : hits' = [hits EXCEPT ![s] = H]
          /\ due' = [due EXCEPT ![s] = {u \in scope \cap Live : ErasersOf(u) = {}}]
    OBVIOUS
  <2>1. PICK H \in SUBSET vectors :
          /\ hits' = [hits EXCEPT ![s] = H]
          /\ Cardinality(H) = TopK \/ H = vectors \cap VectorsOf(scope)
    BY <2>0 DEF NearestOf
  <2>2. TypeOK'
    <3>1. \A d \in AnsweredDeletes : subject[d] \in Uploads
      BY DEF AnsweredDeletes, DeleteInv, DeleteOf
    <3>2. forgotten' = [forgotten EXCEPT ![s] = {subject[d] : d \in AnsweredDeletes}]
      OBVIOUS
    <3>3. forgotten' \in [Searches -> SUBSET Uploads]
      BY <3>1, <3>2
    <3>4. due' \in [Searches -> SUBSET Uploads]
      BY <2>0 DEF Live
    <3> QED BY <2>1, <3>3, <3>4 DEF Stages, Ended
  <2>3. \A v \in H : v[1] \notin forgotten'[s]
    <3> SUFFICES ASSUME NEW v \in H, NEW d \in AnsweredDeletes, v[1] = subject[d] PROVE FALSE
      BY DEF TypeOK
    <3>1. v \in VectorsOf({subject[d]})
      BY <2>1, VectorsAreTheirs
    <3> QED BY <2>1, <3>1 DEF AnsweredDeletes, DeleteInv, DeleteOf
  <2>4. SearchInv'
    BY <2>1, <2>3 DEF SearchInv, SearchStages
  <2>5. ASSUME NEW u \in due'[s], Cardinality(H) < TopK
        PROVE  VectorsOf({u}) \subseteq H /\ rows[u] # "absent"
    <3>1. u \in Live /\ u \in scope /\ ErasersOf(u) = {}
      BY <2>0, <2>5
    <3>2. VectorsOf({u}) \subseteq vectors
      BY <3>1 DEF LiveDocumentsAreIndexed
    <3>3. VectorsOf({u}) \subseteq VectorsOf(scope)
      BY <3>1 DEF VectorsOf
    <3>4. H = vectors \cap VectorsOf(scope)
      BY <2>1, <2>5, TopKAssumption
    <3> QED BY <3>1, <3>2, <3>3, <3>4 DEF Live
  <2>6. DueInv'
    <3>1. \A r \in Searches \ {s} :
            stage'[r] = stage[r] /\ hits'[r] = hits[r] /\ due'[r] = due[r] /\ results'[r] = results[r]
      BY <2>0, <2>1
    <3>2. hits'[s] = H /\ stage'[s] = "queried" /\ rows' = rows
      BY <2>1
    <3>3. DueOf(s)'
      BY <2>5, <3>2 DEF DueOf
    <3>4. ASSUME NEW r \in Searches, r # s PROVE DueOf(r)'
      <4>1. DueOf(r)
        BY DEF DueInv
      <4> QED BY <3>1, <3>2, <3>4, <4>1 DEF DueOf
    <3> QED BY <3>3, <3>4 DEF DueInv
  <2> QED BY <2>2, <2>4, <2>6
<1>3. ASSUME QueryVectorsFails(s) PROVE TypeOK' /\ SearchInv' /\ DueInv'
  BY <1>3 DEF QueryVectorsFails, Stages, Ended, SearchInv, SearchStages, DueInv, DueOf
<1>4. ASSUME Hydrate(s) PROVE TypeOK' /\ SearchInv' /\ DueInv'
  <2> USE <1>4 DEF Hydrate
  <2>1. TypeOK'
    BY DEF Stages, Ended
  <2>2. \A v \in VectorsOf(Live) : rows[v[1]] # "absent"
    BY DEF VectorsOf, Live
  <2>3. SearchInv'
    BY <2>1, <2>2 DEF SearchInv, SearchStages
  <2>4. ASSUME NEW u \in Uploads, rows[u] = "live" PROVE VectorsOf({u}) \subseteq VectorsOf(Live)
    BY <2>4 DEF VectorsOf, Live
  <2>5. DueInv'
    BY <2>4 DEF DueInv, DueOf
  <2> QED BY <2>1, <2>3, <2>5
<1> QED BY <1>1, <1>2, <1>3, <1>4 DEF SearchStep

LEMMA AbortKeepsInv ==
  ASSUME DocumentInv, NEW r \in Reqs, Abort(r)
  PROVE  DocumentInv'
<1> USE RequestsAreDistinct DEF DocumentInv, Goto, Reqs, TypeOK, Abort
<1>1. TypeOK'
  BY DEF Stages, Ended
<1>2. UploadInv'
  BY DEF UploadInv, UploadOf, UploadStages
<1>3. DeleteInv'
  BY DEF DeleteInv, DeleteOf, DeleteStages
<1>4. SearchInv' /\ DueInv'
  BY DEF SearchInv, SearchStages, DueInv, DueOf
<1>5. LiveDocumentsAreIndexed'
  BY DEF LiveDocumentsAreIndexed, Live, ErasersOf
<1> QED BY <1>1, <1>2, <1>3, <1>4, <1>5

LEMMA NextDocumentInv == DocumentInv /\ [Next]_vars => DocumentInv'
<1> SUFFICES ASSUME DocumentInv, [Next]_vars PROVE DocumentInv'
  OBVIOUS
<1>1. CASE UNCHANGED vars
  <2> USE <1>1 DEF vars, DocumentInv
  <2>1. TypeOK'
    BY DEF TypeOK
  <2>2. UploadInv' /\ SearchInv' /\ DueInv'
    BY DEF UploadInv, UploadOf, SearchInv, DueInv, DueOf
  <2>3. DeleteInv'
    BY DEF DeleteInv, DeleteOf
  <2>4. LiveDocumentsAreIndexed'
    BY DEF LiveDocumentsAreIndexed, Live, ErasersOf
  <2> QED BY <2>1, <2>2, <2>3, <2>4
<1> QED BY <1>1, UploadKeepsInv, DeleteKeepsInv, SearchKeepsInv, AbortKeepsInv DEF Next

-----------------------------------------------------------------------------

\* Every variable of the two stores and their requests keeps its type.
THEOREM TypeCorrect == Spec => []TypeOK
<1>1. DocumentInv => TypeOK
  BY DEF DocumentInv
<1> QED BY <1>1, InitDocumentInv, NextDocumentInv, PTL DEF Spec

\* A live document has all its vectors unless a delete of it has come as far
\* as the vector store.
THEOREM LiveAreIndexed == Spec => []LiveDocumentsAreIndexed
<1>1. DocumentInv => LiveDocumentsAreIndexed
  BY DEF DocumentInv
<1> QED BY <1>1, InitDocumentInv, NextDocumentInv, PTL DEF Spec

\* Vectors without a live row are never what a delete or an answered upload left.
THEOREM OrphansAreUploads == Spec => []OrphansComeFromUploads
<1>1. ASSUME DocumentInv, NEW v \in vectors, v[1] \notin Live, stage[v[1]] \in {"committed", "answered"}
      PROVE  FALSE
  <2>1. v[1] \in Uploads /\ v \in VectorsOf({v[1]})
    BY <1>1, VectorsAreTheirs DEF DocumentInv, TypeOK
  <2>2. rows[v[1]] = "deleted"
    BY <1>1, <2>1 DEF DocumentInv, TypeOK, UploadInv, UploadOf, Live
  <2> QED BY <1>1, <2>1, <2>2 DEF DocumentInv, UploadInv, UploadOf
<1>2. DocumentInv => OrphansComeFromUploads
  BY <1>1 DEF OrphansComeFromUploads
<1> QED BY <1>2, InitDocumentInv, NextDocumentInv, PTL DEF Spec

\* An answered delete is never undone, in either store.
THEOREM DeletesAreFinal == Spec => []AnsweredDeleteIsFinal
<1>1. DocumentInv => AnsweredDeleteIsFinal
  BY DEF DocumentInv, DeleteInv, DeleteOf, AnsweredDeleteIsFinal, AnsweredDeletes
<1> QED BY <1>1, InitDocumentInv, NextDocumentInv, PTL DEF Spec

\* A search answers neither with a document that was never committed nor with
\* one whose delete was answered before it began.
THEOREM AnswersAreBacked == Spec => []SearchAnswersAreBacked
<1>1. DocumentInv => SearchAnswersAreBacked
  BY DEF DocumentInv, SearchInv, SearchAnswersAreBacked
<1> QED BY <1>1, InitDocumentInv, NextDocumentInv, PTL DEF Spec

\* The stores differ only where no answer was given, or a delete is under way.
THEOREM StoresDiffer == Spec => []StoresDifferOnlyUnanswered
BY LiveAreIndexed, OrphansAreUploads, PTL DEF StoresDifferOnlyUnanswered

\* A search that had places left has found every chunk of the documents that
\* were whole when it asked, whatever uploads and deletes race with it.
THEOREM SearchesFindTheDue == Spec => []SearchesMissOnlyForPlaces
<1>1. DocumentInv => SearchesMissOnlyForPlaces
  BY DEF DocumentInv, DueInv, DueOf, SearchesMissOnlyForPlaces
<1> QED BY <1>1, InitDocumentInv, NextDocumentInv, PTL DEF Spec

\* Answers of deletes and searches hold.
THEOREM AnswersKept == Spec => []AnswersHold
BY DeletesAreFinal, AnswersAreBacked, SearchesFindTheDue, PTL DEF AnswersHold

-----------------------------------------------------------------------------

(***************************************************************************)
(* What the loop of TextChunker.chunk does with any text, chunk size and   *)
(* overlap the constructor accepts.  ChunkInv is inductive; the part of it *)
(* that needs an argument is PreviousWindow: where the window of the next  *)
(* chunk starts was computed from the window before, so that a separator   *)
(* between the two ends would have ended the earlier window already.       *)
(***************************************************************************)

\* The window before the next one started at a.
StartedFrom(a) ==
  /\ end < Len(text)
  /\ end \in NaturalBreaks(a, HardEnd(a))
  /\ start = NextStart(a, end)

PreviousWindow ==
  \/ start = 0 /\ end = 0
  \/ \E a \in 0 .. Len(text) - 1 : StartedFrom(a)

ChunkInv ==
  /\ ChunkingTypeOK
  /\ pc \in {"settings", "parse"} => text = <<>> /\ start = 0 /\ end = 0 /\ chunks = <<>>
  /\ pc = "chunk" => start < Len(text) /\ PreviousWindow
  /\ NothingIsSkipped

-----------------------------------------------------------------------------
(* The windows. *)

LEMMA BreakType == MinimumBreak \in Nat /\ MinimumBreak < ChunkSize /\ ChunkSize \in Nat \ {0}
BY SizeAssumption DEF MinimumBreak

LEMMA SeparatorLengths ==
  /\ DOMAIN Separators = 1 .. 4
  /\ \A k \in 1 .. 4 : Len(Separators[k]) \in {1, 2}
BY DEF Separators

LEMMA HardEndBounds ==
  ASSUME text \in Seq(Chars), NEW a \in 0 .. Len(text) - 1
  PROVE  /\ HardEnd(a) \in a + 1 .. Len(text)
         /\ HardEnd(a) = Len(text) \/ HardEnd(a) = a + ChunkSize
         /\ HardEnd(a) <= a + ChunkSize
BY BreakType DEF HardEnd

\* Where a window may end: at its hard end, or right after the separator that
\* is chosen.
LEMMA WindowEnds ==
  ASSUME text \in Seq(Chars), NEW a \in 0 .. Len(text) - 1, NEW b \in NaturalBreaks(a, HardEnd(a))
  PROVE  \/ /\ b = HardEnd(a)
            /\ HardEnd(a) = Len(text) \/ \A k \in 1 .. 4 : ~ Late(k, a, HardEnd(a))
         \/ \E k \in 1 .. 4, i \in a .. HardEnd(a) :
              /\ LateAt(k, i, a, HardEnd(a)) /\ b = i + Len(Separators[k])
              /\ \A better \in 1 .. k - 1 : ~ Late(better, a, HardEnd(a))
<1>1. HardEnd(a) <= Len(text) /\ HardEnd(a) \in Int /\ Len(text) \in Int
  BY HardEndBounds
<1>2. CASE HardEnd(a) >= Len(text) \/ \A k \in DOMAIN Separators : ~ Late(k, a, HardEnd(a))
  BY <1>1, <1>2, SeparatorLengths DEF NaturalBreaks
<1>3. CASE ~ (HardEnd(a) >= Len(text) \/ \A k \in DOMAIN Separators : ~ Late(k, a, HardEnd(a)))
  <2>1. PICK x \in (DOMAIN Separators) \X (a .. HardEnd(a)) :
          /\ LateAt(x[1], x[2], a, HardEnd(a))
          /\ \A better \in 1 .. x[1] - 1 : ~ Late(better, a, HardEnd(a))
          /\ b = x[2] + Len(Separators[x[1]])
    BY <1>3 DEF NaturalBreaks
  <2>2. x[1] \in 1 .. 4 /\ x[2] \in a .. HardEnd(a)
    BY <2>1, SeparatorLengths
  <2> QED BY <2>1, <2>2
<1> QED BY <1>2, <1>3

\* A late separator lies within its window, at least MinimumBreak from its start.
LEMMA LateBounds ==
  ASSUME text \in Seq(Chars), NEW a \in 0 .. Len(text) - 1, NEW k \in 1 .. 4, NEW i,
         LateAt(k, i, a, HardEnd(a))
  PROVE  /\ i \in a .. HardEnd(a)
         /\ i + Len(Separators[k]) <= HardEnd(a)
         /\ i - a >= MinimumBreak
BY HardEndBounds, SeparatorLengths DEF LateAt, Found

\* A window is not empty, ends within the text, and is longer than MinimumBreak
\* unless the text ends.
LEMMA WindowBounds ==
  ASSUME text \in Seq(Chars), NEW a \in 0 .. Len(text) - 1, NEW b \in NaturalBreaks(a, HardEnd(a))
  PROVE  /\ b \in a + 1 .. Len(text)
         /\ b <= HardEnd(a)
         /\ b < Len(text) => b > a + MinimumBreak
<1>1. CASE b = HardEnd(a)
  BY <1>1, HardEndBounds, BreakType
<1>2. CASE b # HardEnd(a)
  <2>1. PICK k \in 1 .. 4, i \in a .. HardEnd(a) :
          LateAt(k, i, a, HardEnd(a)) /\ b = i + Len(Separators[k])
    BY <1>2, WindowEnds
  <2>2. i + Len(Separators[k]) <= HardEnd(a) /\ i - a >= MinimumBreak
    BY <2>1, LateBounds
  <2>3. HardEnd(a) \in a + 1 .. Len(text) /\ MinimumBreak \in Nat /\ Len(Separators[k]) \in {1, 2}
    BY HardEndBounds, BreakType, SeparatorLengths
  <2>4. Len(text) \in Nat /\ a \in Nat /\ i \in Int /\ HardEnd(a) \in Int
    BY <2>3
  <2>5. PICK n \in {1, 2} : n = Len(Separators[k])
    BY <2>3
  <2>6. b = i + n /\ i + n <= HardEnd(a)
    BY <2>1, <2>2, <2>5
  <2>7. b <= HardEnd(a) /\ b > a + MinimumBreak /\ b \in Int
    BY <2>2, <2>3, <2>4, <2>6
  <2> QED BY <2>3, <2>4, <2>7
<1> QED BY <1>1, <1>2

\* A separator found in one window is found in any window it lies in.
LEMMA FoundInBoth ==
  ASSUME NEW k \in 1 .. 4, NEW a \in Int, NEW b \in Int, NEW c \in Int, NEW d \in Int,
         NEW i \in Found(k, a, b), c <= i, i + Len(Separators[k]) <= d
  PROVE  i \in Found(k, c, d)
BY SeparatorLengths DEF Found

\* A set of numbers that has a member and a bound has a greatest one.
LEMMA GreatestNumber ==
  ASSUME NEW n \in Nat, NEW S \in SUBSET (0 .. n), S # {}
  PROVE  \E i \in S : \A j \in S : j <= i
<1> DEFINE T == {n - i : i \in S}
<1>1. \A i \in S : i \in Int /\ n - i \in Nat
  OBVIOUS
<1>2. T \subseteq Nat
  BY <1>1
<1>3. T # {}
  <2>1. PICK i : i \in S
    OBVIOUS
  <2>2. n - i \in T
    BY <2>1
  <2> QED BY <2>2
<1>4. PICK t \in T : \A u \in T : ~ (<<u, t>> \in OpToRel(<, Nat))
  BY <1>2, <1>3, NatLessThanWellFounded, WFMin
<1>5. \A u \in T : ~ (u < t)
  BY <1>2, <1>4 DEF OpToRel
<1>6. PICK i \in S : t = n - i
  BY <1>4
<1>7. ASSUME NEW j \in S PROVE j <= i
  <2>1. n - j \in T
    BY <1>7
  <2>2. ~ (n - j < n - i)
    BY <1>5, <1>6, <2>1
  <2>3. i \in Int /\ j \in Int /\ n \in Int
    BY <1>1, <1>6, <1>7
  <2> QED BY <2>2, <2>3
<1> QED BY <1>6, <1>7

\* A separator that is found far enough from the start of a window makes the
\* last one of its kind a late one.
LEMMA LastPlace ==
  ASSUME text \in Seq(Chars), NEW a \in 0 .. Len(text) - 1, NEW k \in 1 .. 4,
         NEW i \in Found(k, a, HardEnd(a)), i - a >= MinimumBreak
  PROVE  Late(k, a, HardEnd(a))
<1> DEFINE S == Found(k, a, HardEnd(a))
<1>1. S \subseteq 0 .. Len(text)
  BY HardEndBounds, SeparatorLengths DEF Found
<1>2. Len(text) \in Nat /\ S # {}
  OBVIOUS
<1> HIDE DEF S
<1>3. PICK j \in S : \A h \in S : h <= j
  BY <1>1, <1>2, GreatestNumber
<1>4. j - a >= MinimumBreak
  <2>1. i \in S
    BY DEF S
  <2> QED BY <1>1, <1>3, <2>1, BreakType
<1> QED BY <1>3, <1>4 DEF Late, LateAt, S

\* The next window starts further on than the last, and before its end.
LEMMA NextStartBounds ==
  ASSUME chunk_overlap \in 0 .. ChunkSize - 1, NEW a \in Nat, NEW e \in Nat, a < e
  PROVE  /\ NextStart(a, e) \in a + 1 .. e
         /\ NextStart(a, e) >= e - chunk_overlap
BY BreakType DEF NextStart

\* The window after one that ends at e ends at e or further on.  A separator
\* that ended it before e would lie in the earlier window too, late enough to
\* have ended that one; and the separator that did end it at e is found again.
LEMMA EndsAdvance ==
  ASSUME text \in Seq(Chars), chunk_overlap \in 0 .. ChunkSize - 1,
         NEW a \in 0 .. Len(text) - 1, NEW e \in NaturalBreaks(a, HardEnd(a)), e < Len(text),
         NEW s \in 0 .. Len(text) - 1, s = NextStart(a, e),
         NEW b \in NaturalBreaks(s, HardEnd(s))
  PROVE  b >= e /\ (chunk_overlap <= MinimumBreak => b > e)
<1>1. /\ e \in a + 1 .. Len(text) /\ e <= HardEnd(a) /\ b \in s + 1 .. Len(text)
      /\ b < Len(text) => b > s + MinimumBreak
  BY WindowBounds
<1>2. a \in Nat /\ e \in Nat /\ s \in Nat /\ b \in Nat /\ Len(text) \in Nat
  BY <1>1
<1>3. s \in a + 1 .. e /\ s >= e - chunk_overlap
  BY <1>1, <1>2, NextStartBounds
<1>4. chunk_overlap <= MinimumBreak => b > e
  BY <1>1, <1>2, <1>3, BreakType
<1>5. /\ HardEnd(a) \in Nat /\ HardEnd(s) \in Nat /\ e < s + ChunkSize
      /\ HardEnd(s) = Len(text) \/ HardEnd(s) = s + ChunkSize
  BY <1>2, <1>3, HardEndBounds, BreakType
<1>6. ASSUME b < e PROVE FALSE
  <2>1. PICK k \in 1 .. 4, i \in s .. HardEnd(s) :
          /\ LateAt(k, i, s, HardEnd(s)) /\ b = i + Len(Separators[k])
          /\ \A better \in 1 .. k - 1 : ~ Late(better, s, HardEnd(s))
    <3>1. b # HardEnd(s)
      BY <1>2, <1>5, <1>6
    <3> QED BY <3>1, WindowEnds
  <2>2. PICK n \in {1, 2} : n = Len(Separators[k])
    BY SeparatorLengths
  <2>3. b = i + n /\ i \in Nat /\ i \in Found(k, s, HardEnd(s)) /\ i - s >= MinimumBreak
    BY <1>2, <1>5, <2>1, <2>2 DEF LateAt
  <2>4. i \in Found(k, a, HardEnd(a))
    <3>1. a <= i /\ i + Len(Separators[k]) <= HardEnd(a)
      <4>1. i >= s
        BY <1>2, <1>5, <2>1
      <4>2. a <= s /\ i + n <= HardEnd(a)
        BY <1>1, <1>2, <1>3, <1>5, <1>6, <2>3
      <4> QED BY <1>2, <2>2, <2>3, <4>1, <4>2
    <3> QED BY <1>2, <1>5, <2>3, <3>1, FoundInBoth
  <2>5. Late(k, a, HardEnd(a))
    <3>1. i - a >= MinimumBreak
      BY <1>2, <1>3, <2>3, BreakType
    <3> QED BY <2>4, <3>1, LastPlace
  <2>6. PICK k0 \in 1 .. 4, i0 \in a .. HardEnd(a) :
          /\ LateAt(k0, i0, a, HardEnd(a)) /\ e = i0 + Len(Separators[k0])
          /\ \A better \in 1 .. k0 - 1 : ~ Late(better, a, HardEnd(a))
    <3>1. ~ (e = HardEnd(a) /\ (HardEnd(a) = Len(text) \/ \A j \in 1 .. 4 : ~ Late(j, a, HardEnd(a))))
      BY <1>2, <2>5
    <3> QED BY <3>1, WindowEnds
  <2>7. PICK n0 \in {1, 2} : n0 = Len(Separators[k0])
    BY SeparatorLengths
  <2>8. e = i0 + n0 /\ i0 \in Nat /\ i0 \in Found(k0, a, HardEnd(a))
    BY <1>2, <1>5, <2>6, <2>7 DEF LateAt
  <2>9. k >= k0
    BY <2>5, <2>6
  <2>10. i0 >= s => i0 \in Found(k0, s, HardEnd(s))
    <3>1. i0 + Len(Separators[k0]) <= HardEnd(s)
      BY <1>2, <1>5, <2>6
    <3> QED BY <1>2, <1>5, <2>8, <3>1, FoundInBoth
  <2>11. CASE k = k0
    <3>1. n = n0 /\ i0 > i
      BY <1>2, <1>6, <2>2, <2>3, <2>7, <2>8, <2>11
    <3>2. i >= s
      BY <1>2, <1>5, <2>1
    <3>3. i0 <= i
      BY <1>2, <2>1, <2>3, <2>8, <2>10, <2>11, <3>1, <3>2 DEF LateAt
    <3> QED BY <2>3, <2>8, <3>1, <3>3
  <2>12. CASE k > k0
    <3>1. ~ Late(k0, s, HardEnd(s))
      BY <2>1, <2>12
    <3>2. i0 < s \/ i0 - s < MinimumBreak
      BY <1>2, <2>8, <2>10, <3>1, LastPlace, BreakType
    <3>3. i > i0
      BY <1>2, <2>3, <2>8, <3>2, BreakType
    <3> QED BY <1>2, <1>6, <2>3, <2>8, <3>3
  <2> QED BY <2>9, <2>11, <2>12
<1> QED BY <1>2, <1>4, <1>6

-----------------------------------------------------------------------------
(* The loop. *)

\* The next turn of the loop and what its window is.
LEMMA NextWindow ==
  ASSUME ChunkInv, Chunk
  PROVE  /\ text \in Seq(Chars) /\ text' = text /\ chunk_overlap' = chunk_overlap
         /\ chunk_overlap \in 0 .. ChunkSize - 1
         /\ start \in 0 .. Len(text) - 1 /\ end \in Nat
         /\ end' \in NaturalBreaks(start, HardEnd(start))
         /\ end' \in start + 1 .. Len(text)
         /\ \/ /\ end' < Len(text) /\ pc' = "chunk"
               /\ start' = NextStart(start, end') /\ start' \in start + 1 .. end'
            \/ end' = Len(text) /\ pc' = "done" /\ start' = start
<1>1. /\ text \in Seq(Chars) /\ text' = text /\ chunk_overlap' = chunk_overlap
      /\ chunk_overlap \in 0 .. ChunkSize - 1
      /\ start \in 0 .. Len(text) - 1 /\ end \in Nat /\ Len(text) \in Nat
      /\ end' \in NaturalBreaks(start, HardEnd(start))
  BY DEF ChunkInv, ChunkingTypeOK, Chunk
<1>2. end' \in start + 1 .. Len(text)
  BY <1>1, WindowBounds
<1>3. NextStart(start, end') \in start + 1 .. end'
  BY <1>1, <1>2, NextStartBounds
<1> QED BY <1>1, <1>2, <1>3 DEF Chunk

\* A window starts no further on than the last one ended, and ends no earlier.
LEMMA WindowFollows ==
  ASSUME ChunkInv, Chunk
  PROVE  start <= end /\ end' >= end /\ (chunk_overlap <= MinimumBreak => end' > end)
<1>1. CASE start = 0 /\ end = 0
  BY <1>1, NextWindow
<1>2. CASE ~ (start = 0 /\ end = 0)
  <2>1. PICK a \in 0 .. Len(text) - 1 : StartedFrom(a)
    BY <1>2 DEF ChunkInv, PreviousWindow, Chunk
  <2>2. end \in a + 1 .. Len(text) /\ start <= end
    <3>1. end \in a + 1 .. Len(text)
      BY <2>1, NextWindow, WindowBounds DEF StartedFrom
    <3>2. start \in a + 1 .. end
      BY <2>1, <3>1, NextWindow, NextStartBounds DEF StartedFrom
    <3> QED BY <3>1, <3>2
  <2>3. end' >= end /\ (chunk_overlap <= MinimumBreak => end' > end)
    BY <2>1, NextWindow, EndsAdvance DEF StartedFrom
  <2> QED BY <2>2, <2>3
<1> QED BY <1>1, <1>2

\* The windows depend on nothing that a turn of the loop changes.
LEMMA SameWindows ==
  ASSUME text' = text, chunk_overlap' = chunk_overlap, NEW a, NEW b
  PROVE  /\ NaturalBreaks(a, HardEnd(a))' = NaturalBreaks(a, HardEnd(a))
         /\ NextStart(a, b)' = NextStart(a, b)
<1>1. HardEnd(a)' = HardEnd(a) /\ NextStart(a, b)' = NextStart(a, b)
  BY DEF HardEnd, NextStart
<1>2. \A k, i, c : LateAt(k, i, a, c)' = LateAt(k, i, a, c) /\ Late(k, a, c)' = Late(k, a, c)
  BY DEF LateAt, Late, Found
<1>3. \A c : NaturalBreaks(a, c)' = NaturalBreaks(a, c)
  BY <1>2 DEF NaturalBreaks
<1> QED BY <1>1, <1>3

\* The content of a window is appended to the chunks, which keep what they had.
LEMMA ChunksGrow ==
  ASSUME ChunkInv, Chunk
  PROVE  /\ chunks' \in Seq((SUBSET (0 .. Len(text) - 1)) \ {{}})
         /\ \A k \in DOMAIN chunks : k \in DOMAIN chunks' /\ chunks'[k] = chunks[k]
         /\ \A i \in Stripped(text, start, end') : \E k \in DOMAIN chunks' : i \in chunks'[k]
<1> DEFINE content == Stripped(text, start, end')
           Contents == (SUBSET (0 .. Len(text) - 1)) \ {{}}
<1>1. /\ chunks' = IF content = {} THEN chunks ELSE Append(chunks, content)
      /\ chunks \in Seq(Contents)
  BY DEF Chunk, ChunkInv, ChunkingTypeOK
<1>2. content # {} => content \in Contents
  BY NextWindow DEF Stripped
<1> HIDE DEF content, Contents
<1>3. CASE content = {}
  BY <1>1, <1>3 DEF content, Contents
<1>4. CASE content # {}
  <2>1. /\ chunks' = Append(chunks, content) /\ chunks' \in Seq(Contents)
        /\ Len(chunks') = Len(chunks) + 1 /\ Len(chunks) \in Nat
    BY <1>1, <1>2, <1>4
  <2>2. /\ \A k \in 1 .. Len(chunks) : chunks'[k] = chunks[k]
        /\ chunks'[Len(chunks) + 1] = content
    BY <1>1, <2>1
  <2>3. DOMAIN chunks = 1 .. Len(chunks) /\ DOMAIN chunks' = 1 .. Len(chunks) + 1
    BY <1>1, <2>1
  <2> QED BY <2>1, <2>2, <2>3 DEF content, Contents
<1> QED BY <1>3, <1>4

LEMMA ChunkKeeps == ChunkInv /\ Chunk => ChunkInv'
<1> SUFFICES ASSUME ChunkInv, Chunk PROVE ChunkInv'
  OBVIOUS
<1>1. ChunkingTypeOK'
  <2>1. chunks' \in Seq((SUBSET (0 .. Len(text') - 1)) \ {{}})
    BY NextWindow, ChunksGrow
  <2>2. /\ pc' \in {"chunk", "done"} /\ chunk_overlap' \in 0 .. ChunkSize - 1
        /\ text' \in Seq(Chars) /\ start' \in 0 .. Len(text') /\ end' \in 0 .. Len(text')
    BY NextWindow
  <2>3. chunk_overlap' \in Int
    BY <2>2, BreakType
  <2> QED BY <2>1, <2>2, <2>3 DEF ChunkingTypeOK
<1>2. (pc \in {"settings", "parse"} => text = <<>> /\ start = 0 /\ end = 0 /\ chunks = <<>>)'
  BY NextWindow
<1>3. (pc = "chunk" => start < Len(text) /\ PreviousWindow)'
  <2> SUFFICES ASSUME pc' = "chunk" PROVE start' < Len(text) /\ PreviousWindow'
    BY NextWindow
  <2>1. PICK a \in 0 .. Len(text) - 1 : a = start
    BY NextWindow
  <2>2. StartedFrom(a)'
    BY <2>1, NextWindow, SameWindows DEF StartedFrom
  <2>3. start' < Len(text)
    BY NextWindow
  <2> QED BY <2>2, <2>3, NextWindow DEF PreviousWindow
<1>4. NothingIsSkipped'
  <2>1. pc' = "chunk" => start' <= end'
    BY NextWindow
  <2>2. ASSUME NEW i \in 0 .. end' - 1, Inked(text, i)
        PROVE  \E k \in DOMAIN chunks' : i \in chunks'[k]
    <3>1. CASE i < end
      <4>1. PICK k \in DOMAIN chunks : i \in chunks[k]
        BY <2>2, <3>1, NextWindow DEF ChunkInv, NothingIsSkipped
      <4> QED BY <4>1, ChunksGrow
    <3>2. CASE i >= end
      <4>1. i \in start .. end' - 1
        BY <2>2, <3>2, NextWindow, WindowFollows
      <4>2. i \in Stripped(text, start, end')
        BY <2>2, <4>1, NextWindow DEF Stripped
      <4> QED BY <4>2, ChunksGrow
    <3> QED BY <2>2, <3>1, <3>2, NextWindow
  <2> QED BY <2>1, <2>2, NextWindow DEF NothingIsSkipped, Inked
<1> QED BY <1>1, <1>2, <1>3, <1>4, NextWindow DEF ChunkInv

-----------------------------------------------------------------------------

LEMMA InitChunkInv == ChunkingInit => ChunkInv
BY OverlapsAssumption DEF ChunkingInit, ChunkInv, ChunkingTypeOK, NothingIsSkipped

\* A text is a sequence of characters that begins with one that is not blank.
LEMMA TextType == \A t \in NormalizedTexts : t \in Seq(Chars) /\ Len(t) > 0
BY MaxLengthAssumption DEF NormalizedTexts, Texts

LEMMA StepKeepsChunkInv == ChunkInv /\ [ChunkingNext]_chunkingVars => ChunkInv'
<1> SUFFICES ASSUME ChunkInv, [ChunkingNext]_chunkingVars PROVE ChunkInv'
  OBVIOUS
<1>1. CASE Configure
  <2>1. /\ chunk_overlap \in 0 .. ChunkSize - 1
        /\ pc' = "parse" /\ UNCHANGED <<chunk_overlap, text, start, end, chunks>>
    BY <1>1, BreakType DEF Configure, ChunkInv, ChunkingTypeOK
  <2>2. ChunkingTypeOK'
    BY <2>1 DEF ChunkInv, ChunkingTypeOK
  <2> QED BY <1>1, <2>1, <2>2 DEF Configure, ChunkInv, NothingIsSkipped, Inked
<1>2. CASE RefuseSettings
  BY <1>2 DEF RefuseSettings, ChunkInv, ChunkingTypeOK, NothingIsSkipped, Inked
<1>3. CASE Parse
  <2>1. /\ pc' = "chunk" /\ text' \in Seq(Chars) /\ Len(text') > 0
        /\ start' = 0 /\ end' = 0 /\ chunks' = <<>> /\ chunk_overlap' = chunk_overlap
        /\ chunk_overlap \in Int /\ chunk_overlap \in 0 .. ChunkSize - 1
    BY <1>3, TextType DEF Parse, ChunkInv, ChunkingTypeOK
  <2>2. chunks' \in Seq((SUBSET (0 .. Len(text') - 1)) \ {{}})
    BY <2>1
  <2>3. ChunkingTypeOK'
    BY <2>1, <2>2 DEF ChunkingTypeOK
  <2> QED BY <2>1, <2>3 DEF ChunkInv, NothingIsSkipped, PreviousWindow
<1>4. CASE RefuseText
  BY <1>4 DEF RefuseText, ChunkInv, ChunkingTypeOK, NothingIsSkipped, Inked
<1>5. CASE Chunk
  BY <1>5, ChunkKeeps
<1>6. CASE UNCHANGED chunkingVars
  BY <1>6
  DEF chunkingVars, ChunkInv, ChunkingTypeOK, NothingIsSkipped, Inked, PreviousWindow, StartedFrom, NaturalBreaks,
      HardEnd, NextStart, LateAt, Late, Found
<1> QED BY <1>1, <1>2, <1>3, <1>4, <1>5, <1>6 DEF ChunkingNext

\* ChunkInv holds in every state of every behaviour.
THEOREM ChunksInvariant == ChunkingSpec => []ChunkInv
BY InitChunkInv, StepKeepsChunkInv, PTL DEF ChunkingSpec

\* The variables keep their types, for texts of any length: a window never
\* leaves its text, and no chunk is empty.
THEOREM ChunkingTypeCorrect == ChunkingSpec => []ChunkingTypeOK
<1>1. ChunkInv => ChunkingTypeOK
  BY DEF ChunkInv
<1> QED BY <1>1, ChunksInvariant, PTL

\* Nothing of a text is lost between two chunks, for any chunk size and overlap.
THEOREM NothingSkipped == ChunkingSpec => []NothingIsSkipped
<1>1. ChunkInv => NothingIsSkipped
  BY DEF ChunkInv
<1> QED BY <1>1, ChunksInvariant, PTL

\* Every turn of the loop starts its window further on and ends it no earlier,
\* and further on if the overlap is at most the least distance of a break.
THEOREM WindowsMoveOn == ChunkingSpec => WindowsAdvance
<1>1. ChunkInv /\ [ChunkingNext]_chunkingVars =>
        [ pc = "chunk" =>
            /\ pc' = "done" \/ start' > start
            /\ end' >= end
            /\ chunk_overlap <= MinimumBreak => end' > end ]_chunkingVars
  <2> SUFFICES ASSUME ChunkInv, ChunkingNext, pc = "chunk"
               PROVE  /\ pc' = "done" \/ start' > start
                      /\ end' >= end
                      /\ chunk_overlap <= MinimumBreak => end' > end
    OBVIOUS
  <2>1. Chunk
    BY DEF ChunkingNext, Configure, RefuseSettings, Parse, RefuseText
  <2> QED BY <2>1, NextWindow, WindowFollows
<1> QED BY <1>1, ChunksInvariant, PTL DEF ChunkingSpec, WindowsAdvance

=============================================================================

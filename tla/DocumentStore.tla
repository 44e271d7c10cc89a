---------------------------- MODULE DocumentStore ----------------------------
(***************************************************************************)
(* The documents of one user and the two stores that hold them: the rows   *)
(* of documents and document_chunks in PostgreSQL and the vectors of the   *)
(* chunks in ChromaDB.  No transaction spans both.  An upload, a delete    *)
(* and a search are requests with a session each; the calls to ChromaDB    *)
(* are synchronous, so nothing of the same process comes between such a    *)
(* call and the code up to the next await, but a call that fails may have  *)
(* been carried out by the server all the same, and so may a COMMIT.       *)
(*                                                                         *)
(* A document is named after the upload that creates it.  Rows a           *)
(* transaction has not committed are seen by nobody else, so a transaction *)
(* is its COMMIT; the row lock of a delete only orders two COMMITs.        *)
(* Every query of either store filters by user, so one user is enough.     *)
(***************************************************************************)
EXTENDS Naturals, FiniteSets

CONSTANTS
  Uploads,    \* the upload requests, and the documents they create
  Deletes,    \* the delete requests
  Searches,   \* the search requests
  Chunks,     \* the chunk indexes of a document
  TopK,       \* bound: hits a search asks for
  NoDocument

ASSUME ChunksAssumption == Chunks # {}
ASSUME TopKAssumption == TopK \in Nat
ASSUME RequestsAreDistinct ==
  /\ Uploads \cap Deletes = {}
  /\ Uploads \cap Searches = {}
  /\ Deletes \cap Searches = {}
  /\ NoDocument \notin Uploads

VARIABLES
  rows,       \* each document and its chunks in PostgreSQL
  vectors,    \* the vectors ChromaDB holds
  stage,      \* where the handler of each request is
  subject,    \* the document a delete has read, with its chunks
  hits,       \* the vectors a search was given
  results,    \* the chunks a search answers with
  forgotten,  \* the documents whose delete was answered when a search began
  due         \* those within its scope that it should have found then

vars == <<rows, vectors, stage, subject, hits, results, forgotten, due>>

Reqs == Uploads \cup Deletes \cup Searches

\* The ways a request ends: "answered" is 2xx, "refused" an error the route
\* maps to a status, "raised" any other error, "aborted" no answer at all.
Ended == {"answered", "refused", "raised", "aborted"}
Stages ==
  Ended \cup {"post", "inserted", "indexed", "committed", "read", "erased", "queried"}

VectorsOf(documents) == documents \X Chunks

TypeOK ==
  /\ rows \in [Uploads -> {"absent", "live", "deleted"}]
  /\ vectors \subseteq VectorsOf(Uploads)
  /\ stage \in [Reqs -> Stages]
  /\ subject \in [Deletes -> Uploads \cup {NoDocument}]
  /\ hits \in [Searches -> SUBSET VectorsOf(Uploads)]
  /\ results \in [Searches -> SUBSET VectorsOf(Uploads)]
  /\ forgotten \in [Searches -> SUBSET Uploads]
  /\ due \in [Searches -> SUBSET Uploads]

\* The request r goes on to stage s.
Goto(r, s) == stage' = [stage EXCEPT ![r] = s]

\* What a call to a store may have left behind when it reports a failure.
Perhaps(before, after) == {before, after}

Live == {u \in Uploads : rows[u] = "live"}

Init ==
  /\ rows = [u \in Uploads |-> "absent"]
  /\ vectors = {}
  /\ stage = [r \in Reqs |-> "post"]
  /\ subject = [d \in Deletes |-> NoDocument]
  /\ hits = [s \in Searches |-> {}]
  /\ results = [s \in Searches |-> {}]
  /\ forgotten = [s \in Searches |-> {}]
  /\ due = [s \in Searches |-> {}]

-----------------------------------------------------------------------------
(* DocumentIngestionService.upload *)

\* The content is refused before anything is written.
UploadRefused(u) ==
  /\ stage[u] = "post"
  /\ Goto(u, "refused")
  /\ UNCHANGED <<rows, vectors, subject, hits, results, forgotten, due>>

\* create_document and create_chunks flush the rows.
InsertRows(u) ==
  /\ stage[u] = "post"
  /\ Goto(u, "inserted")
  /\ UNCHANGED <<rows, vectors, subject, hits, results, forgotten, due>>

\* The chunks are embedded and their vectors upserted.
IndexChunks(u) ==
  /\ stage[u] = "inserted"
  /\ vectors' = vectors \cup VectorsOf({u})
  /\ Goto(u, "indexed")
  /\ UNCHANGED <<rows, subject, hits, results, forgotten, due>>

\* Embedding fails, or upsert raises VectorStoreError: the rows are rolled
\* back and whatever ChromaDB has done stays.
IndexChunksFails(u) ==
  /\ stage[u] = "inserted"
  /\ vectors' \in Perhaps(vectors, vectors \cup VectorsOf({u}))
  /\ Goto(u, "refused")
  /\ UNCHANGED <<rows, subject, hits, results, forgotten, due>>

\* Mutant: the document is reported as indexed before its vectors are there.
CommitUploadUnindexed(u) ==
  /\ stage[u] \in {"inserted", "indexed"}
  /\ rows' = [rows EXCEPT ![u] = "live"]
  /\ Goto(u, "committed")
  /\ UNCHANGED <<vectors, subject, hits, results, forgotten, due>>

\* status, chunk_count and the audit row are written, and COMMIT succeeds.
CommitUpload(u) ==
  /\ stage[u] = "indexed"
  /\ rows' = [rows EXCEPT ![u] = "live"]
  /\ Goto(u, "committed")
  /\ UNCHANGED <<vectors, subject, hits, results, forgotten, due>>

\* Mutant: the row of a failed upload is kept, with the status "failed".
CommitUploadFailsKept(u) ==
  /\ stage[u] = "indexed"
  /\ rows' = [rows EXCEPT ![u] = "failed"]
  /\ Goto(u, "raised")
  /\ UNCHANGED <<vectors, subject, hits, results, forgotten, due>>

\* The audit row or COMMIT fails.  The handler rolls back, which expires the
\* user it loaded in the same session, and current_user.id, an argument of
\* delete_document, raises: the vectors are not deleted.
CommitUploadFails(u) ==
  /\ stage[u] = "indexed"
  /\ rows' \in Perhaps(rows, [rows EXCEPT ![u] = "live"])
  /\ Goto(u, "raised")
  /\ UNCHANGED <<vectors, subject, hits, results, forgotten, due>>

\* The committed document is read back and answered; if reading fails, the
\* handler rolls back and raises on the expired document.
AnswerUpload(u) ==
  /\ stage[u] = "committed"
  /\ \E outcome \in {"answered", "raised"} : Goto(u, outcome)
  /\ UNCHANGED <<rows, vectors, subject, hits, results, forgotten, due>>

-----------------------------------------------------------------------------
(* DocumentDeleteService.delete *)

\* get_for_user finds the document and its chunks.
ReadForDelete(d) ==
  /\ stage[d] = "post"
  /\ \E u \in Live : subject' = [subject EXCEPT ![d] = u]
  /\ Goto(d, "read")
  /\ UNCHANGED <<rows, vectors, hits, results, forgotten, due>>

\* get_for_user finds nothing, or a document deleted before: 404.
DeleteFindsNothing(d) ==
  /\ stage[d] = "post"
  /\ Uploads \ Live # {}
  /\ Goto(d, "refused")
  /\ UNCHANGED <<rows, vectors, subject, hits, results, forgotten, due>>

\* Mutant: only the first vector is deleted.
EraseOneVector(d) ==
  /\ stage[d] = "read"
  /\ \E c \in Chunks : vectors' = vectors \ {<<subject[d], c>>}
  /\ Goto(d, "erased")
  /\ UNCHANGED <<rows, subject, hits, results, forgotten, due>>

\* delete_document deletes the vectors of the chunks the row has.
EraseVectors(d) ==
  /\ stage[d] = "read"
  /\ vectors' = vectors \ VectorsOf({subject[d]})
  /\ Goto(d, "erased")
  /\ UNCHANGED <<rows, subject, hits, results, forgotten, due>>

\* delete_document raises VectorStoreError: 503, the row stays live.
EraseVectorsFails(d) ==
  /\ stage[d] = "read"
  /\ vectors' \in Perhaps(vectors, vectors \ VectorsOf({subject[d]}))
  /\ Goto(d, "refused")
  /\ UNCHANGED <<rows, subject, hits, results, forgotten, due>>

\* soft_delete, the audit row and COMMIT, then the answer.
CommitDelete(d) ==
  /\ stage[d] = "erased"
  /\ rows' = [rows EXCEPT ![subject[d]] = "deleted"]
  /\ Goto(d, "answered")
  /\ UNCHANGED <<vectors, subject, hits, results, forgotten, due>>

\* One of them fails: the row stays as it was, or COMMIT was carried out.
CommitDeleteFails(d) ==
  /\ stage[d] = "erased"
  /\ rows' \in Perhaps(rows, [rows EXCEPT ![subject[d]] = "deleted"])
  /\ Goto(d, "raised")
  /\ UNCHANGED <<vectors, subject, hits, results, forgotten, due>>

-----------------------------------------------------------------------------
(* RagSearchService.search *)

\* The hits ChromaDB may return: the TopK nearest, all if there are fewer.
NearestOf(candidates) ==
  {H \in SUBSET candidates :
     /\ Cardinality(H) <= TopK
     /\ Cardinality(H) = TopK \/ H = candidates}

AnsweredDeletes == {d \in Deletes : stage[d] = "answered"}

\* The deletes that have come as far as the vectors of document u.
ErasersOf(u) ==
  {d \in Deletes : subject[d] = u /\ stage[d] # "read"}

\* The query is embedded and the vector store asked, for one document or all.
QueryVectors(s) ==
  /\ stage[s] = "post"
  /\ \E scope \in {Uploads} \cup {{u} : u \in Uploads} :
       /\ \E H \in NearestOf(vectors \cap VectorsOf(scope)) : hits' = [hits EXCEPT ![s] = H]
       /\ due' = [due EXCEPT ![s] = {u \in scope \cap Live : ErasersOf(u) = {}}]
  /\ forgotten' = [forgotten EXCEPT ![s] = {subject[d] : d \in AnsweredDeletes}]
  /\ Goto(s, "queried")
  /\ UNCHANGED <<rows, vectors, subject, results>>

\* The vector store raises: 503.
QueryVectorsFails(s) ==
  /\ stage[s] = "post"
  /\ Goto(s, "refused")
  /\ UNCHANGED <<rows, vectors, subject, hits, results, forgotten, due>>

\* get_chunks_by_ids reads the chunks of the hits; a hit without a chunk of a
\* document that is not deleted is skipped.
Hydrate(s) ==
  /\ stage[s] = "queried"
  /\ results' = [results EXCEPT ![s] = hits[s] \cap VectorsOf(Live)]
  /\ Goto(s, "answered")
  /\ UNCHANGED <<rows, vectors, subject, hits, forgotten, due>>

-----------------------------------------------------------------------------

\* A request dies between two awaits, before or after the store it waits for
\* has done its part: the actions above cover the latter.
Abort(r) ==
  /\ stage[r] \notin Ended \cup {"post"}
  /\ Goto(r, "aborted")
  /\ UNCHANGED <<rows, vectors, subject, hits, results, forgotten, due>>

UploadStep(u) ==
  \/ UploadRefused(u)
  \/ InsertRows(u)
  \/ IndexChunks(u)
  \/ IndexChunksFails(u)
  \/ CommitUpload(u)
  \/ CommitUploadFails(u)
  \/ AnswerUpload(u)

DeleteStep(d) ==
  \/ ReadForDelete(d)
  \/ DeleteFindsNothing(d)
  \/ EraseVectors(d)
  \/ EraseVectorsFails(d)
  \/ CommitDelete(d)
  \/ CommitDeleteFails(d)

SearchStep(s) == QueryVectors(s) \/ QueryVectorsFails(s) \/ Hydrate(s)

Next ==
  \/ \E u \in Uploads : UploadStep(u)
  \/ \E d \in Deletes : DeleteStep(d)
  \/ \E s \in Searches : SearchStep(s)
  \/ \E r \in Reqs : Abort(r)

Spec == Init /\ [][Next]_vars

-----------------------------------------------------------------------------

\* A live document is searchable, by all its chunks, unless a delete of it
\* has gone as far as the vector store, whatever happened to that delete.
LiveDocumentsAreIndexed ==
  \A u \in Live : ErasersOf(u) = {} => VectorsOf({u}) \subseteq vectors

\* A vector without a live row is what an upload left that was not answered,
\* never something a delete left.
OrphansComeFromUploads ==
  \A v \in vectors : v[1] \notin Live => stage[v[1]] \notin {"committed", "answered"}

\* The two stores differ only where a delete is under way or stopped, or an
\* upload was not answered: a document that was answered is whole in both, or
\* was deleted from both.
StoresDifferOnlyUnanswered == LiveDocumentsAreIndexed /\ OrphansComeFromUploads

\* An answered delete holds for good: nothing makes the document or one of its
\* vectors come back, however many requests were under way.
AnsweredDeleteIsFinal ==
  \A d \in AnsweredDeletes :
    rows[subject[d]] = "deleted" /\ vectors \cap VectorsOf({subject[d]}) = {}

\* A search answers with documents that were committed, never with what a
\* failed upload left in the vector store, and not with one whose delete was
\* answered before it began, although it reads the two stores in turn.
SearchAnswersAreBacked ==
  \A s \in Searches : \A v \in results[s] :
    rows[v[1]] # "absent" /\ v[1] \notin forgotten[s]

\* A search finds every chunk of a document that was live and whole when it
\* asked, whatever else is in the vector store, unless its places are used up;
\* vectors that uploads have left behind can do no more than take places.
SearchesMissOnlyForPlaces ==
  \A s \in Searches : stage[s] = "answered" /\ Cardinality(hits[s]) < TopK =>
    \A u \in due[s] : rows[u] = "live" => VectorsOf({u}) \subseteq results[s]

\* Deletes and searches keep what their answers say, in both stores.
AnswersHold == AnsweredDeleteIsFinal /\ SearchAnswersAreBacked /\ SearchesMissOnlyForPlaces
=============================================================================

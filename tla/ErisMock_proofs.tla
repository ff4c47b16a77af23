--------------------------- MODULE ErisMock_proofs ---------------------------
(* Proofs about ErisMock, for any requests, names, extensions and times.      *)
EXTENDS ErisMock, SequenceTheorems, WellFoundedInduction, TLAPS

Kinds == {"none", "torn", "empty", "document"}

\* The documents and files whose attachments are in S.
DocumentsOf(S) == [attachments: Seq(S), number: Times \union {None},
                   externalized: BOOLEAN]
FilesOf(S) == [kind: Kinds, doc: DocumentsOf(S)]

\* The attachments some upload has announced.
Uploads ==
  {a \in Attachment : /\ req[a.from].op = "upload"
                      /\ req[a.from].id = a.id
                      /\ req[a.from].ext = a.ext}

\* What the operation of a request says of its other fields.
RequestsInv ==
  \A r \in Requests :
    /\ req[r].step = "idle" => req[r].op = "none"
    /\ req[r].step = "read" => req[r].op = "upload"
    /\ req[r].op = "upload" => req[r].id \in Times /\ req[r].name \in Names

\* What documents list, on disk and in the hands of requests, was uploaded.
KnownInv ==
  /\ \A d \in Times : xml[d] \in FilesOf(Uploads)
  /\ \A r \in Requests : req[r].snap \in FilesOf(Uploads)

SameFile(r, t) ==
  /\ req[t].op = "upload"
  /\ req[t].id = req[r].id
  /\ req[t].ext = req[r].ext

\* The file of an upload has its content, unless another has the same name.
KeptInv ==
  \A r \in Requests :
    (/\ req[r].op = "upload"
     /\ req[r].ext # NoExtension
     /\ \A t \in Requests \ {r} : ~SameFile(r, t))
      => stored[<<req[r].id, req[r].ext>>] = r

AttachmentInv == TypeOK /\ RequestsInv /\ KnownInv /\ KeptInv

-----------------------------------------------------------------------------
(***************************************************************************)
(* Documents and files.                                                     *)
(***************************************************************************)

\* The types of the module are those of attachments of any kind.
LEMMA Types == File = FilesOf(Attachment) /\ Document = DocumentsOf(Attachment)
BY DEF File, FilesOf, Document, DocumentsOf, Kinds

\* An empty document is a document whatever its attachments may be.
LEMMA EmptyFiles ==
  ASSUME NEW S, NEW k \in Kinds
  PROVE  NewDocument \in DocumentsOf(S) /\ FileOf(k) \in FilesOf(S)
BY DEF NewDocument, DocumentsOf, FileOf, FilesOf

LEMMA FileWithDocument ==
  ASSUME NEW S, NEW document \in DocumentsOf(S)
  PROVE  FileWith(document) \in FilesOf(S)
BY DEF FileWith, FilesOf, Kinds

\* A document with attachments in S has attachments in every larger set.
LEMMA FilesGrow ==
  ASSUME NEW S, NEW T, S \subseteq T
  PROVE  FilesOf(S) \subseteq FilesOf(T) /\ DocumentsOf(S) \subseteq DocumentsOf(T)
<1>1. Seq(S) \subseteq Seq(T)
  OBVIOUS
<1>2. DocumentsOf(S) \subseteq DocumentsOf(T)
  BY <1>1 DEF DocumentsOf
<1>. QED
  BY <1>2 DEF FilesOf

\* Adding an attachment to a document.
LEMMA AddedDocument ==
  ASSUME NEW S, NEW document \in DocumentsOf(S), NEW a \in S
  PROVE  Added(document, a) \in DocumentsOf(S)
BY DEF Added, DocumentsOf

\* A set of numbers that is not empty has a smallest one.
Smaller == {s \in Nat \X Nat : s[1] < s[2]}
LEMMA SmallerWellFounded == IsWellFoundedOn(Smaller, Nat)
<1>1. OpToRel(<, Nat) = Smaller
  BY DEF OpToRel, Smaller
<1>. QED
  BY <1>1, NatLessThanWellFounded

LEMMA SmallestOf ==
  ASSUME NEW I \in SUBSET Nat, I # {}
  PROVE  \E x \in I : \A y \in I : x =< y
<1>1. PICK x \in I : \A y \in I : <<y, x>> \notin Smaller
  BY SmallerWellFounded, WFMin, Zenon
<1>2. \A y \in I : x =< y
  <2> TAKE y \in I
  <2>1. x \in Nat /\ y \in Nat
    OBVIOUS
  <2>2. ~ (y < x)
    BY <1>1, <2>1 DEF Smaller
  <2>. QED
    BY <2>1, <2>2
<1>. QED
  BY <1>2

\* The search of an attachment stays within the list.
LEMMA FirstNamedRange ==
  ASSUME NEW S, NEW document \in DocumentsOf(S), NEW n
  PROVE  /\ FirstNamed(document, n) \in 0..Len(document.attachments)
         /\ document.attachments \in Seq(S)
<1> DEFINE q == document.attachments
           I == {i \in 1..Len(q) : q[i].name = n}
<1>1. q \in Seq(S)
  BY DEF DocumentsOf
<1>2. FirstNamed(document, n) = IF I # {} THEN Min(I) ELSE 0
  BY DEF FirstNamed, SelectInSeq
<1>3. I # {} => Min(I) \in I
  <2>1. SUFFICES ASSUME I # {} PROVE \E x \in I : \A y \in I : x =< y
    BY DEF Min
  <2>3. I \subseteq Nat
    BY <1>1
  <2>. QED
    BY <2>1, <2>3, SmallestOf
<1>. QED
  BY <1>1, <1>2, <1>3

\* Taking an attachment out of a document.
LEMMA WithoutDocument ==
  ASSUME NEW S, NEW document \in DocumentsOf(S), NEW n
  PROVE  Without(document, n) \in DocumentsOf(S)
<1> DEFINE q == document.attachments
           k == FirstNamed(document, n)
<1>1. q \in Seq(S) /\ k \in 0..Len(q)
  BY FirstNamedRange
<1>2. CASE k = 0
  BY <1>2 DEF Without
<1>3. CASE k # 0
  <2>1. k \in 1..Len(q)
    BY <1>1, <1>3
  <2>2. SubSeq(q, 1, k - 1) \in Seq(S) /\ SubSeq(q, k + 1, Len(q)) \in Seq(S)
    BY <1>1, <2>1, SubSeqProperties
  <2>3. RemoveAt(q, k) \in Seq(S)
    BY <2>2, ConcatProperties DEF RemoveAt
  <2>4. Without(document, n) = [document EXCEPT !.attachments = RemoveAt(q, k)]
    BY <1>3 DEF Without
  <2>. HIDE DEF q, k
  <2>. QED
    BY <2>3, <2>4 DEF DocumentsOf
<1>. QED
  BY <1>2, <1>3

\* What getDocument returns is a file.
LEMMA GetDocumentFile ==
  ASSUME NEW S, NEW d \in Times, xml[d] \in FilesOf(S)
  PROVE  GetDocument(d) \in FilesOf(S)
BY EmptyFiles DEF GetDocument, Kinds

-----------------------------------------------------------------------------
(***************************************************************************)
(* What the steps have in common.                                           *)
(***************************************************************************)

\* No upload has come in, and those that are there are the same.
SameUploads ==
  \A r \in Requests :
    /\ req'[r].op = "upload" <=> req[r].op = "upload"
    /\ req[r].op = "upload" => req'[r].id = req[r].id /\ req'[r].ext = req[r].ext

LEMMA UploadsUnchanged ==
  ASSUME SameUploads
  PROVE  Uploads' = Uploads
<1>1. \A a \in Attachment : a \in Uploads' <=> a \in Uploads
  BY DEF SameUploads, Uploads, Attachment
<1>. QED
  BY <1>1 DEF Uploads

LEMMA KeptUnchanged ==
  ASSUME SameUploads, KeptInv, stored' = stored
  PROVE  KeptInv'
<1> SUFFICES ASSUME NEW r \in Requests,
                    req'[r].op = "upload", req'[r].ext # NoExtension,
                    \A t \in Requests \ {r} : ~SameFile(r, t)'
             PROVE  stored[<<req'[r].id, req'[r].ext>>] = r
  BY DEF KeptInv
<1>1. req[r].op = "upload" /\ req'[r].id = req[r].id /\ req'[r].ext = req[r].ext
  BY DEF SameUploads
<1>2. \A t \in Requests \ {r} : ~SameFile(r, t)
  BY <1>1 DEF SameUploads, SameFile
<1>. QED
  BY <1>1, <1>2 DEF KeptInv

\* The arguments of a request that has just come in.
LEMMA ArgumentsType ==
  ASSUME TypeOK, NEW r \in Requests, NEW op \in Operations, NEW d \in Times
  PROVE  /\ Arguments(r, op, d) \in Request
         /\ Arguments(r, op, d).op = op
BY DEF TypeOK, Arguments, Request

\* Request r goes on with its document; its arguments are those it came with,
\* or it has just come in and is no upload.
LEMMA TakeStep ==
  ASSUME AttachmentInv, NEW r \in Requests, NEW d \in Times, NEW args \in Request,
         NEW step \in {"delete", "open"}, NEW file \in FilesOf(Uploads),
         Take(r, d, args, step, file),
         args = req[r] \/ (req[r].op # "upload" /\ args.op # "upload")
  PROVE  AttachmentInv'
<1> DEFINE now == [args EXCEPT !.doc = d, !.step = step, !.snap = file]
<1>1. file \in File
  <2>1. Uploads \subseteq Attachment
    BY DEF Uploads
  <2>. QED
    BY <2>1, FilesGrow, Types
<1>2. now \in Request
  BY <1>1 DEF Request, Steps
<1>3. /\ now.op = args.op /\ now.id = args.id /\ now.ext = args.ext
      /\ now.name = args.name /\ now.step = step /\ now.snap = file
  BY DEF Request
<1>. HIDE DEF now
<1>4. /\ req' = [req EXCEPT ![r] = now]
      /\ disturbed' \in [Times -> BOOLEAN]
      /\ UNCHANGED <<clock, xml, stored, promised>>
  BY DEF Take, now, AttachmentInv, TypeOK
<1>5. TypeOK'
  BY <1>2, <1>4 DEF AttachmentInv, TypeOK
<1>6. req'[r] = now /\ \A t \in Requests \ {r} : req'[t] = req[t]
  BY <1>4 DEF AttachmentInv, TypeOK
<1>7. SameUploads
  BY <1>3, <1>6 DEF SameUploads
<1>8. RequestsInv'
  BY <1>3, <1>6 DEF AttachmentInv, RequestsInv
<1>9. KnownInv'
  BY <1>3, <1>4, <1>6, <1>7, UploadsUnchanged DEF AttachmentInv, KnownInv
<1>10. KeptInv'
  BY <1>4, <1>7, KeptUnchanged DEF AttachmentInv
<1>. QED
  BY <1>5, <1>8, <1>9, <1>10 DEF AttachmentInv

\* Request r is refused, on arrival or after its file was received.
LEMMA RefuseStep ==
  ASSUME AttachmentInv, NEW r \in Requests, NEW args \in Request,
         Refuse(r, args), args.snap = req[r].snap,
         args = req[r] \/ (req[r].op # "upload" /\ args.op # "upload")
  PROVE  AttachmentInv'
<1> DEFINE now == [args EXCEPT !.step = "fault"]
<1>1. now \in Request
  BY DEF Request, Steps
<1>2. /\ now.op = args.op /\ now.id = args.id /\ now.ext = args.ext
      /\ now.name = args.name /\ now.step = "fault" /\ now.snap = req[r].snap
  BY DEF Request
<1>. HIDE DEF now
<1>3. req' = [req EXCEPT ![r] = now] /\ UNCHANGED <<clock, xml, stored, disturbed, promised>>
  BY DEF Refuse, now
<1>4. TypeOK'
  BY <1>1, <1>3 DEF AttachmentInv, TypeOK
<1>5. req'[r] = now /\ \A t \in Requests \ {r} : req'[t] = req[t]
  BY <1>3 DEF AttachmentInv, TypeOK
<1>6. SameUploads
  BY <1>2, <1>5 DEF SameUploads
<1>7. RequestsInv'
  BY <1>2, <1>5 DEF AttachmentInv, RequestsInv
<1>8. KnownInv'
  BY <1>2, <1>3, <1>5, <1>6, UploadsUnchanged DEF AttachmentInv, KnownInv
<1>9. KeptInv'
  BY <1>3, <1>6, KeptUnchanged DEF AttachmentInv
<1>. QED
  BY <1>4, <1>7, <1>8, <1>9 DEF AttachmentInv

-----------------------------------------------------------------------------
(***************************************************************************)
(* The steps.                                                               *)
(***************************************************************************)

LEMMA InitAttachment == Init => AttachmentInv
<1> SUFFICES ASSUME Init PROVE AttachmentInv
  OBVIOUS
<1> USE DEF Init
<1>1. 0 \in Times
  BY TimeAssumption DEF Times
<1>2. \A S : \A k \in Kinds : FileOf(k) \in FilesOf(S) /\ FileWith(NewDocument) \in FilesOf(S)
  BY EmptyFiles, FileWithDocument
<1>3. \A S : (\A d \in Times : xml[d] \in FilesOf(S)) /\ \A r \in Requests : req[r].snap \in FilesOf(S)
  BY <1>2 DEF Kinds
<1>4. TypeOK
  <2>1. xml \in [Times -> File]
    <3>1. xml = [d \in Times |-> xml[d]]
      OBVIOUS
    <3>. QED
      BY <1>3, <3>1, Types
  <2>2. stored \in [Times \X AnyExtension -> Requests \union {None}]
    OBVIOUS
  <2>3. req \in [Requests -> Request]
    <3>1. FileOf("none") \in File
      BY <1>2, Types DEF Kinds
    <3>. QED
      BY <1>1, <3>1 DEF Request, Operations, Steps, AnyExtension
  <2>. QED
    BY <1>1, <2>1, <2>2, <2>3 DEF TypeOK
<1>5. RequestsInv /\ KeptInv
  BY DEF RequestsInv, KeptInv
<1>. QED
  BY <1>3, <1>4, <1>5 DEF AttachmentInv, KnownInv

LEMMA CreateAttachment ==
  ASSUME AttachmentInv, NEW r \in Requests, CreateDocument(r)
  PROVE  AttachmentInv'
<1> DEFINE now == [Arguments(r, "create", clock) EXCEPT
                     !.step = "open", !.snap = FileWith(NewDocument)]
<1>1. clock \in Times /\ Arguments(r, "create", clock) \in Request
  BY ArgumentsType DEF AttachmentInv, TypeOK, Operations
<1>2. \A S : FileWith(NewDocument) \in FilesOf(S)
  BY EmptyFiles, FileWithDocument DEF Kinds
<1>3. FileWith(NewDocument) \in File
  BY <1>2, Types
<1>4. now \in Request
  BY <1>1, <1>3 DEF Request, Steps
<1>5. now.op = "create" /\ now.step = "open" /\ now.snap = FileWith(NewDocument)
  BY <1>1, ArgumentsType DEF AttachmentInv, Request, Operations
<1>. HIDE DEF now
<1>6. /\ req' = [req EXCEPT ![r] = now]
      /\ disturbed' \in [Times -> BOOLEAN]
      /\ UNCHANGED <<clock, xml, stored, promised>>
  BY <1>1 DEF CreateDocument, now, AttachmentInv, TypeOK
<1>7. TypeOK'
  BY <1>4, <1>6 DEF AttachmentInv, TypeOK
<1>8. req'[r] = now /\ \A t \in Requests \ {r} : req'[t] = req[t]
  BY <1>6 DEF AttachmentInv, TypeOK
<1>9. req[r].op = "none"
  BY DEF CreateDocument, Arrives, AttachmentInv, RequestsInv
<1>10. SameUploads
  BY <1>5, <1>8, <1>9 DEF SameUploads
<1>11. RequestsInv'
  BY <1>5, <1>8 DEF AttachmentInv, RequestsInv
<1>12. KnownInv'
  BY <1>2, <1>5, <1>6, <1>8, <1>10, UploadsUnchanged DEF AttachmentInv, KnownInv
<1>13. KeptInv'
  BY <1>6, <1>10, KeptUnchanged DEF AttachmentInv
<1>. QED
  BY <1>7, <1>11, <1>12, <1>13 DEF AttachmentInv

LEMMA ChangeAttachment ==
  ASSUME AttachmentInv, NEW r \in Requests, NEW d \in Times, NEW op \in Operations,
         op # "upload", Arrives(r), NEW allowed, NEW document,
         xml[d].kind = "document" => document \in DocumentsOf(Uploads),
         Change(r, op, d, allowed, document)
  PROVE  AttachmentInv'
<1>1. Arguments(r, op, d) \in Request /\ Arguments(r, op, d).op = op
  BY ArgumentsType DEF AttachmentInv
<1>2. req[r].op # "upload"
  BY DEF Arrives, AttachmentInv, RequestsInv
<1>3. Arguments(r, op, d).snap = req[r].snap
  BY DEF Arguments, AttachmentInv, TypeOK, Request
<1>4. CASE xml[d].kind = "document" /\ allowed
  <2>1. FileWith(document) \in FilesOf(Uploads)
    BY <1>4, FileWithDocument
  <2>2. Take(r, d, Arguments(r, op, d), "open", FileWith(document))
    BY <1>4 DEF Change
  <2>. QED
    BY <1>1, <1>2, <2>1, <2>2, TakeStep
<1>5. CASE ~(xml[d].kind = "document" /\ allowed)
  <2>1. Refuse(r, Arguments(r, op, d))
    BY <1>5 DEF Change
  <2>. QED
    BY <1>1, <1>2, <1>3, <2>1, RefuseStep
<1>. QED
  BY <1>4, <1>5

\* Registering or externalizing a document leaves its attachments.
LEMMA ChangedDocument ==
  ASSUME NEW S, NEW document \in DocumentsOf(S), NEW t \in Times
  PROVE  /\ [document EXCEPT !.number = t] \in DocumentsOf(S)
         /\ [document EXCEPT !.externalized = TRUE] \in DocumentsOf(S)
BY DEF DocumentsOf

LEMMA RegisterAttachment ==
  ASSUME AttachmentInv, NEW r \in Requests, NEW d \in Times, RegisterDocument(r, d)
  PROVE  AttachmentInv'
<1>1. xml[d].doc \in DocumentsOf(Uploads) /\ clock \in Times
  BY DEF AttachmentInv, KnownInv, FilesOf, TypeOK
<1>2. [xml[d].doc EXCEPT !.number = clock] \in DocumentsOf(Uploads)
  BY <1>1, ChangedDocument
<1>. QED
  BY <1>2, ChangeAttachment DEF RegisterDocument, Operations

LEMMA ExternalizeAttachment ==
  ASSUME AttachmentInv, NEW r \in Requests, NEW d \in Times, ExternalizeDocument(r, d)
  PROVE  AttachmentInv'
<1>1. GetDocument(d).doc \in DocumentsOf(Uploads) /\ clock \in Times
  BY GetDocumentFile DEF AttachmentInv, KnownInv, FilesOf, TypeOK
<1>2. [GetDocument(d).doc EXCEPT !.externalized = TRUE] \in DocumentsOf(Uploads)
  BY <1>1, ChangedDocument
<1>. QED
  BY <1>2, ChangeAttachment DEF ExternalizeDocument, Operations

LEMMA RemoveAttachment ==
  ASSUME AttachmentInv, NEW r \in Requests, NEW d \in Times, NEW n \in Names,
         RemoveDocumentAttachment(r, d, n)
  PROVE  AttachmentInv'
<1> DEFINE file == GetDocument(d)
           first == FirstNamed(file.doc, n)
           id == IF first = 0 THEN None ELSE file.doc.attachments[first].id
           args == [Arguments(r, "remove", d) EXCEPT !.name = n, !.id = id]
           after == [file EXCEPT !.doc = Without(file.doc, n)]
<1>1. file \in FilesOf(Uploads)
  BY GetDocumentFile DEF AttachmentInv, KnownInv
<1>2. file.doc \in DocumentsOf(Uploads)
  BY <1>1 DEF FilesOf
<1>3. after \in FilesOf(Uploads)
  BY <1>1, <1>2, WithoutDocument DEF FilesOf
<1>4. id \in Times \union {None}
  <2>1. first \in 0..Len(file.doc.attachments) /\ file.doc.attachments \in Seq(Uploads)
    BY <1>2, FirstNamedRange
  <2>2. \A a \in Uploads : a.id \in Times
    BY DEF Uploads, Attachment
  <2>. HIDE DEF file, first
  <2>. QED
    BY <2>1, <2>2
<1>. HIDE DEF file, first, id
<1>5. Arguments(r, "remove", d) \in Request /\ Arguments(r, "remove", d).op = "remove"
  BY ArgumentsType DEF AttachmentInv, Operations
<1>6. args \in Request /\ args.op = "remove"
  BY <1>4, <1>5 DEF Request
<1>7. req[r].op # "upload"
  BY DEF RemoveDocumentAttachment, Arrives, AttachmentInv, RequestsInv
<1>8. Take(r, d, args, "delete", after)
  BY DEF RemoveDocumentAttachment, file, first, id
<1>. HIDE DEF args, after
<1>. QED
  BY <1>3, <1>6, <1>7, <1>8, TakeStep

LEMMA ReadAttachment ==
  ASSUME AttachmentInv, NEW r \in Requests, ReadForUpload(r)
  PROVE  AttachmentInv'
<1> DEFINE d == req[r].doc
<1>1. d \in Times /\ req[r] \in Request /\ req[r].op = "upload" /\ req[r].step = "read"
  BY DEF ReadForUpload, AttachmentInv, TypeOK, Request, RequestsInv
<1>2. AttachmentOf(r) \in Uploads
  BY <1>1 DEF AttachmentOf, Uploads, Attachment, AttachmentInv, RequestsInv, Request
<1>3. xml[d].doc \in DocumentsOf(Uploads)
  BY <1>1 DEF AttachmentInv, KnownInv, FilesOf
<1>4. FileWith(Added(xml[d].doc, AttachmentOf(r))) \in FilesOf(Uploads)
  BY <1>2, <1>3, AddedDocument, FileWithDocument
<1>5. CASE xml[d].kind = "document"
  <2>1. Take(r, d, req[r], "open", FileWith(Added(xml[d].doc, AttachmentOf(r))))
    BY <1>5 DEF ReadForUpload
  <2>. QED
    BY <1>1, <1>4, <2>1, TakeStep
<1>6. CASE xml[d].kind # "document"
  <2>1. Refuse(r, req[r])
    BY <1>6 DEF ReadForUpload
  <2>. QED
    BY <1>1, <2>1, RefuseStep
<1>. QED
  BY <1>5, <1>6

LEMMA DeleteAttachment ==
  ASSUME AttachmentInv, NEW r \in Requests, DeleteFile(r)
  PROVE  AttachmentInv'
<1>1. PICK step \in {"open", "fault"} : req' = [req EXCEPT ![r].step = step]
  BY DEF DeleteFile
<1>2. /\ req[r].step = "delete"
      /\ UNCHANGED <<clock, xml, disturbed, promised>>
  BY DEF DeleteFile
<1>3. \A t \in Requests : /\ req'[t].op = req[t].op /\ req'[t].id = req[t].id
                          /\ req'[t].ext = req[t].ext /\ req'[t].name = req[t].name
                          /\ req'[t].snap = req[t].snap
                          /\ req'[t].step \in {req[t].step, step}
  BY <1>1 DEF AttachmentInv, TypeOK, Request
<1>4. stored' \in [Times \X AnyExtension -> Requests \union {None}]
  BY DEF DeleteFile, AttachmentInv, TypeOK
<1>5. TypeOK'
  <2>1. step \in Steps
    BY DEF Steps
  <2>2. req' \in [Requests -> Request]
    BY <1>1, <2>1 DEF AttachmentInv, TypeOK, Request
  <2>. QED
    BY <1>2, <1>4, <2>2 DEF AttachmentInv, TypeOK
<1>6. SameUploads
  BY <1>3 DEF SameUploads
<1>7. RequestsInv'
  BY <1>3 DEF AttachmentInv, RequestsInv
<1>8. KnownInv'
  BY <1>2, <1>3, <1>6, UploadsUnchanged DEF AttachmentInv, KnownInv
<1>9. KeptInv'
  <2> SUFFICES ASSUME NEW t \in Requests,
                      req'[t].op = "upload", req'[t].ext # NoExtension,
                      \A u \in Requests \ {t} : ~SameFile(t, u)'
               PROVE  stored'[<<req'[t].id, req'[t].ext>>] = t
    BY DEF KeptInv
  <2>1. \A u \in Requests \ {t} : ~SameFile(t, u)
    BY <1>3 DEF SameFile
  <2>2. stored[<<req[t].id, req[t].ext>>] = t
    BY <1>3, <2>1 DEF AttachmentInv, KeptInv
  <2>3. <<req[t].id, req[t].ext>> \in Times \X AnyExtension
    BY <1>3 DEF AttachmentInv, RequestsInv, TypeOK, Request
  <2>4. <<req[t].id, req[t].ext>> # DeletedName(req[r].id)
    BY <1>3 DEF DeletedName
  <2>5. stored'[<<req[t].id, req[t].ext>>] = stored[<<req[t].id, req[t].ext>>]
    BY <2>3, <2>4 DEF DeleteFile, AttachmentInv, TypeOK
  <2>. QED
    BY <1>3, <2>2, <2>5
<1>. QED
  BY <1>5, <1>7, <1>8, <1>9 DEF AttachmentInv

LEMMA ReceiveStep ==
  ASSUME AttachmentInv, NEW r \in Requests, NEW d \in Times, NEW n \in Names,
         NEW e \in AnyExtension, ReceiveAttachment(r, d, n, e)
  PROVE  AttachmentInv'
<1> DEFINE now == [Arguments(r, "upload", d) EXCEPT !.step = "read", !.name = n, !.ext = e]
<1>1. clock \in Times /\ req[r] \in Request /\ req[r].op = "none"
  BY DEF ReceiveAttachment, Arrives, AttachmentInv, TypeOK, RequestsInv
<1>2. /\ now \in Request /\ now.op = "upload" /\ now.step = "read" /\ now.name = n
      /\ now.ext = e /\ now.id = clock /\ now.snap = req[r].snap
  BY <1>1 DEF Arguments, Request, Operations, Steps
<1>3. /\ req' = [req EXCEPT ![r] = now]
      /\ stored' = [stored EXCEPT ![<<clock, e>>] = r]
      /\ UNCHANGED <<clock, xml, disturbed, promised>>
  BY DEF ReceiveAttachment
<1>. HIDE DEF now
<1>4. TypeOK'
  BY <1>2, <1>3 DEF AttachmentInv, TypeOK
<1>5. req'[r] = now /\ \A t \in Requests \ {r} : req'[t] = req[t]
  BY <1>3 DEF AttachmentInv, TypeOK
<1>6. RequestsInv'
  BY <1>1, <1>2, <1>5 DEF AttachmentInv, RequestsInv
<1>7. KnownInv'
  <2>1. \A a \in Attachment : a \in Uploads => a \in Uploads'
    BY <1>1, <1>5 DEF Uploads, Attachment
  <2>2. Uploads \subseteq Uploads'
    BY <2>1 DEF Uploads
  <2>3. FilesOf(Uploads) \subseteq FilesOf(Uploads')
    BY <2>2, FilesGrow
  <2>4. \A d1 \in Times : xml'[d1] \in FilesOf(Uploads')
    BY <1>3, <2>3 DEF AttachmentInv, KnownInv
  <2>5. \A t \in Requests : req'[t].snap \in FilesOf(Uploads')
    BY <1>2, <1>5, <2>3 DEF AttachmentInv, KnownInv
  <2>. QED
    BY <2>4, <2>5 DEF KnownInv
<1>8. KeptInv'
  <2> SUFFICES ASSUME NEW t \in Requests,
                      req'[t].op = "upload", req'[t].ext # NoExtension,
                      \A u \in Requests \ {t} : ~SameFile(t, u)'
               PROVE  stored'[<<req'[t].id, req'[t].ext>>] = t
    BY DEF KeptInv
  <2>1. CASE t = r
    BY <1>1, <1>2, <1>3, <1>5, <2>1 DEF AttachmentInv, TypeOK
  <2>2. CASE t # r
    <3>1. req'[t] = req[t]
      BY <1>5, <2>2
    <3>2. \A u \in Requests \ {t} : ~SameFile(t, u)
      <4> SUFFICES ASSUME NEW u \in Requests \ {t} PROVE ~SameFile(t, u)
        OBVIOUS
      <4>1. CASE u = r
        BY <1>1, <4>1 DEF SameFile
      <4>2. CASE u # r
        BY <1>5, <3>1, <4>2 DEF SameFile
      <4>. QED
        BY <4>1, <4>2
    <3>3. stored[<<req[t].id, req[t].ext>>] = t
      BY <3>1, <3>2 DEF AttachmentInv, KeptInv
    <3>4. <<req[t].id, req[t].ext>> # <<clock, e>>
      <4>1. r \in Requests \ {t}
        BY <2>2
      <4>2. ~SameFile(t, r)'
        BY <4>1
      <4>. QED
        BY <1>2, <1>5, <3>1, <4>2 DEF SameFile
    <3>5. <<req[t].id, req[t].ext>> \in Times \X AnyExtension
      BY <3>1 DEF AttachmentInv, RequestsInv, TypeOK, Request
    <3>. QED
      BY <1>3, <3>1, <3>3, <3>4, <3>5 DEF AttachmentInv, TypeOK
  <2>. QED
    BY <2>1, <2>2
<1>. QED
  BY <1>4, <1>6, <1>7, <1>8 DEF AttachmentInv

LEMMA OpenAttachment ==
  ASSUME AttachmentInv, NEW r \in Requests, OpenFile(r)
  PROVE  AttachmentInv'
<1> DEFINE d == req[r].doc
           writers == {t \in Requests \ {r} : req[t].step = "write" /\ req[t].doc = d}
<1>1. /\ xml' = [xml EXCEPT ![d] = FileOf("torn")]
      /\ req[r].step = "open"
      /\ UNCHANGED <<clock, stored, disturbed, promised>>
  BY DEF OpenFile
<1>2. req' = [t \in Requests |->
                IF t = r THEN [req[r] EXCEPT !.step = "write", !.mixed = writers # {}]
                ELSE IF t \in writers THEN [req[t] EXCEPT !.mixed = TRUE]
                ELSE req[t]]
  BY DEF OpenFile
<1>3. (writers # {}) \in BOOLEAN
  OBVIOUS
<1>. HIDE DEF writers
<1>4. \A t \in Requests : /\ req'[t].op = req[t].op /\ req'[t].id = req[t].id
                          /\ req'[t].ext = req[t].ext /\ req'[t].name = req[t].name
                          /\ req'[t].snap = req[t].snap
                          /\ req'[t].step \in {req[t].step, "write"}
                          /\ req'[t] \in Request
  <2> SUFFICES ASSUME NEW t \in Requests
               PROVE  /\ req'[t].op = req[t].op /\ req'[t].id = req[t].id
                      /\ req'[t].ext = req[t].ext /\ req'[t].name = req[t].name
                      /\ req'[t].snap = req[t].snap
                      /\ req'[t].step \in {req[t].step, "write"}
                      /\ req'[t] \in Request
    OBVIOUS
  <2>1. req[t] \in Request
    BY DEF AttachmentInv, TypeOK
  <2>2. CASE t = r
    <3>1. req'[t] = [req[t] EXCEPT !.step = "write", !.mixed = writers # {}]
      BY <1>2, <2>2
    <3>2. PICK m \in BOOLEAN : req'[t] = [req[t] EXCEPT !.step = "write", !.mixed = m]
      BY <1>3, <3>1
    <3>. QED
      BY <2>1, <3>2 DEF Request, Steps
  <2>3. CASE t # r /\ t \in writers
    <3>1. req'[t] = [req[t] EXCEPT !.mixed = TRUE]
      BY <1>2, <2>3
    <3>. QED
      BY <2>1, <3>1 DEF Request
  <2>4. CASE t # r /\ t \notin writers
    BY <1>2, <2>1, <2>4
  <2>. QED
    BY <2>2, <2>3, <2>4
<1>5. \A S : FileOf("torn") \in FilesOf(S)
  BY EmptyFiles DEF Kinds
<1>6. TypeOK'
  <2>1. xml' \in [Times -> File]
    BY <1>1, <1>5, Types DEF AttachmentInv, TypeOK
  <2>2. req' \in [Requests -> Request]
    BY <1>2, <1>4
  <2>. QED
    BY <1>1, <2>1, <2>2 DEF AttachmentInv, TypeOK
<1>7. SameUploads
  BY <1>4 DEF SameUploads
<1>8. RequestsInv'
  BY <1>4 DEF AttachmentInv, RequestsInv
<1>9. KnownInv'
  <2>1. \A d1 \in Times : xml'[d1] \in FilesOf(Uploads)
    BY <1>1, <1>5 DEF AttachmentInv, KnownInv, TypeOK
  <2>. QED
    BY <1>4, <1>7, <2>1, UploadsUnchanged DEF AttachmentInv, KnownInv
<1>10. KeptInv'
  BY <1>1, <1>7, KeptUnchanged DEF AttachmentInv
<1>. QED
  BY <1>6, <1>8, <1>9, <1>10 DEF AttachmentInv

\* What an answer promises of a document is a document.
LEMMA EffectType ==
  ASSUME AttachmentInv, NEW r \in Requests, NEW file \in File
  PROVE  Effect(r, file) \in File
<1> DEFINE document == file.doc
<1>1. file \in FilesOf(Attachment) /\ document \in DocumentsOf(Attachment)
  BY Types DEF FilesOf
<1>2. FileWith(NewDocument) \in File
  BY EmptyFiles, FileWithDocument, Types DEF Kinds
<1>3. [file EXCEPT !.doc.number = req[r].id] \in File
  BY <1>1, Types DEF AttachmentInv, TypeOK, Request, FilesOf, DocumentsOf
<1>4. [file EXCEPT !.doc.externalized = TRUE] \in File
  BY <1>1, Types DEF FilesOf, DocumentsOf
<1>5. req[r].op = "upload" => [file EXCEPT !.doc = Added(document, AttachmentOf(r))] \in File
  <2>1. req[r].op = "upload" => AttachmentOf(r) \in Attachment
    BY DEF AttachmentInv, RequestsInv, TypeOK, Request, AttachmentOf, Attachment
  <2>2. req[r].op = "upload" => Added(document, AttachmentOf(r)) \in DocumentsOf(Attachment)
    BY <1>1, <2>1, AddedDocument
  <2>. QED
    BY <1>1, <2>2, Types DEF FilesOf
<1>6. [file EXCEPT !.doc = Without(document, req[r].name)] \in File
  <2>1. Without(document, req[r].name) \in DocumentsOf(Attachment)
    BY <1>1, WithoutDocument
  <2>. QED
    BY <1>1, <2>1, Types DEF FilesOf
<1>. QED
  BY <1>2, <1>3, <1>4, <1>5, <1>6 DEF Effect

LEMMA WriteAttachment ==
  ASSUME AttachmentInv, NEW r \in Requests, WriteFile(r)
  PROVE  AttachmentInv'
<1> DEFINE d == req[r].doc
<1>1. d \in Times /\ req[r].snap \in FilesOf(Uploads)
  BY DEF AttachmentInv, TypeOK, Request, KnownInv
<1>2. PICK file \in {req[r].snap, FileOf("torn")} : xml' = [xml EXCEPT ![d] = file]
  BY DEF WriteFile
<1>3. /\ req' = [req EXCEPT ![r].step = "ok"]
      /\ promised' = [promised EXCEPT ![d] = Effect(r, @)]
      /\ UNCHANGED <<clock, stored, disturbed>>
  BY DEF WriteFile
<1>4. \A t \in Requests : /\ req'[t].op = req[t].op /\ req'[t].id = req[t].id
                          /\ req'[t].ext = req[t].ext /\ req'[t].name = req[t].name
                          /\ req'[t].snap = req[t].snap
                          /\ req'[t].step \in {req[t].step, "ok"}
  BY <1>3 DEF AttachmentInv, TypeOK, Request
<1>5. file \in FilesOf(Uploads)
  BY <1>1, EmptyFiles DEF Kinds
<1>6. TypeOK'
  <2>1. file \in File
    <3>1. Uploads \subseteq Attachment
      BY DEF Uploads
    <3>. QED
      BY <1>5, <3>1, FilesGrow, Types
  <2>2. promised' \in [Times -> File]
    BY <1>1, <1>3, EffectType DEF AttachmentInv, TypeOK
  <2>3. req' \in [Requests -> Request]
    BY <1>3 DEF AttachmentInv, TypeOK, Request, Steps
  <2>. QED
    BY <1>2, <1>3, <2>1, <2>2, <2>3 DEF AttachmentInv, TypeOK
<1>7. SameUploads
  BY <1>4 DEF SameUploads
<1>8. RequestsInv'
  BY <1>4 DEF AttachmentInv, RequestsInv
<1>9. KnownInv'
  <2>1. \A d1 \in Times : xml'[d1] \in FilesOf(Uploads)
    BY <1>2, <1>5 DEF AttachmentInv, KnownInv, TypeOK
  <2>. QED
    BY <1>4, <1>7, <2>1, UploadsUnchanged DEF AttachmentInv, KnownInv
<1>10. KeptInv'
  BY <1>3, <1>7, KeptUnchanged DEF AttachmentInv
<1>. QED
  BY <1>6, <1>8, <1>9, <1>10 DEF AttachmentInv

LEMMA SetTypeFailsAttachment ==
  ASSUME AttachmentInv, NEW r \in Requests, SetTypeFails(r)
  PROVE  AttachmentInv'
<1> DEFINE d == req[r].doc
<1>1. d \in Times /\ xml[d] \in FilesOf(Uploads)
  BY DEF AttachmentInv, TypeOK, Request, KnownInv
<1>2. /\ \E step \in {"fault", "cut"} : req' = [req EXCEPT ![r].step = step]
      /\ \E file \in {FileOf("torn"), xml[d]} : xml' = [xml EXCEPT ![d] = file]
      /\ UNCHANGED <<clock, stored, disturbed, promised>>
  <2>1. CASE req[r].step = "open"
    <3>1. xml' = [xml EXCEPT ![d] = xml[d]]
      BY <2>1 DEF SetTypeFails, AttachmentInv, TypeOK
    <3>. QED
      BY <2>1, <3>1 DEF SetTypeFails
  <2>2. CASE req[r].step # "open"
    BY <2>2 DEF SetTypeFails
  <2>. QED
    BY <2>1, <2>2
<1>3. PICK step \in {"fault", "cut"} : req' = [req EXCEPT ![r].step = step]
  BY <1>2
<1>4. PICK file \in {FileOf("torn"), xml[d]} : xml' = [xml EXCEPT ![d] = file]
  BY <1>2
<1>5. \A t \in Requests : /\ req'[t].op = req[t].op /\ req'[t].id = req[t].id
                          /\ req'[t].ext = req[t].ext /\ req'[t].name = req[t].name
                          /\ req'[t].snap = req[t].snap
                          /\ req'[t].step \in {req[t].step, "fault", "cut"}
  BY <1>3 DEF AttachmentInv, TypeOK, Request
<1>6. file \in FilesOf(Uploads)
  BY <1>1, EmptyFiles DEF Kinds
<1>7. TypeOK'
  <2>1. file \in File
    <3>1. Uploads \subseteq Attachment
      BY DEF Uploads
    <3>. QED
      BY <1>6, <3>1, FilesGrow, Types
  <2>2. req' \in [Requests -> Request]
    BY <1>3 DEF AttachmentInv, TypeOK, Request, Steps
  <2>. QED
    BY <1>2, <1>4, <2>1, <2>2 DEF AttachmentInv, TypeOK
<1>8. SameUploads
  BY <1>5 DEF SameUploads
<1>9. RequestsInv'
  BY <1>5 DEF AttachmentInv, RequestsInv
<1>10. KnownInv'
  <2>1. \A d1 \in Times : xml'[d1] \in FilesOf(Uploads)
    BY <1>4, <1>6 DEF AttachmentInv, KnownInv, TypeOK
  <2>. QED
    BY <1>5, <1>8, <2>1, UploadsUnchanged DEF AttachmentInv, KnownInv
<1>11. KeptInv'
  BY <1>2, <1>8, KeptUnchanged DEF AttachmentInv
<1>. QED
  BY <1>7, <1>9, <1>10, <1>11 DEF AttachmentInv

LEMMA NextAttachment == AttachmentInv /\ [Next]_vars => AttachmentInv'
<1> SUFFICES ASSUME AttachmentInv, [Next]_vars PROVE AttachmentInv'
  OBVIOUS
<1>1. CASE Tick
  <2>1. clock' \in Times /\ UNCHANGED <<xml, stored, req, disturbed, promised>>
    BY <1>1, TimeAssumption DEF Tick, AttachmentInv, TypeOK, Times
  <2>. QED
    BY <2>1 DEF AttachmentInv, TypeOK, RequestsInv, KnownInv, KeptInv, SameFile, Uploads
<1>2. CASE UNCHANGED vars
  BY <1>2 DEF vars, AttachmentInv, TypeOK, RequestsInv, KnownInv, KeptInv, SameFile, Uploads
<1>. QED
  BY <1>1, <1>2, CreateAttachment, RegisterAttachment, ExternalizeAttachment,
     RemoveAttachment, ReceiveStep, DeleteAttachment, ReadAttachment, OpenAttachment,
     WriteAttachment, SetTypeFailsAttachment DEF Next

\* Every state of the mock has its type, for any requests and any clock:
\* documents, files and promises stay what the web service can return.
THEOREM TypeCorrect == Spec => []TypeOK
<1>1. AttachmentInv => TypeOK
  BY DEF AttachmentInv
<1>. QED
  BY <1>1, InitAttachment, NextAttachment, PTL DEF Spec

\* The search for the last attachment of a name finds it.
LEMMA LastNamedIs ==
  ASSUME NEW S, NEW document \in DocumentsOf(S), NEW i \in DOMAIN document.attachments,
         \A j \in DOMAIN document.attachments :
           j > i => document.attachments[j].name # document.attachments[i].name
  PROVE  LastNamed(document, document.attachments[i].name) = i
<1> DEFINE q == document.attachments
           n == q[i].name
           I == {j \in 1..Len(q) : q[j].name = n}
<1>1. q \in Seq(S) /\ DOMAIN q = 1..Len(q)
  BY DEF DocumentsOf
<1>2. LastNamed(document, n) = IF I # {} THEN Max(I) ELSE 0
  BY DEF LastNamed, SelectLastInSeq
<1>3. i \in I /\ \A j \in I : i >= j
  BY <1>1
<1>4. \A k \in I : (\A j \in I : k >= j) => k = i
  BY <1>1, <1>3
<1>5. Max(I) = i
  BY <1>3, <1>4 DEF Max
<1>. QED
  BY <1>2, <1>3, <1>5

LEMMA AttachmentInvIntact == AttachmentInv => AttachmentIntact
<1> SUFFICES ASSUME AttachmentInv, NEW d \in Times,
                    NEW i \in DOMAIN xml[d].doc.attachments,
                    xml[d].doc.attachments[i].ext # NoExtension,
                    ~SameMillisecond(xml[d].doc.attachments[i]),
                    \A j \in DOMAIN xml[d].doc.attachments :
                      j > i => xml[d].doc.attachments[j].name # xml[d].doc.attachments[i].name
             PROVE  ServedFor(xml[d].doc, xml[d].doc.attachments[i].name)
                      = xml[d].doc.attachments[i].from
  BY DEF AttachmentIntact
<1> DEFINE a == xml[d].doc.attachments[i]
<1>1. a \in Uploads
  <2>1. xml[d].doc.attachments \in Seq(Uploads)
    BY DEF AttachmentInv, KnownInv, FilesOf, DocumentsOf
  <2>. QED
    BY <2>1
<1>. HIDE DEF a
<1>2. /\ a.from \in Requests /\ req[a.from].op = "upload"
      /\ req[a.from].id = a.id /\ req[a.from].ext = a.ext
  BY <1>1 DEF Uploads, Attachment
<1>3. a.ext # NoExtension /\ \A t \in Requests \ {a.from} : ~SameFile(a.from, t)
  BY <1>2 DEF a, SameMillisecond, SameFile
<1>4. stored[<<a.id, a.ext>>] = a.from
  BY <1>2, <1>3 DEF AttachmentInv, KeptInv
<1>5. LastNamed(xml[d].doc, a.name) = i /\ i # 0
  <2>1. xml[d].doc \in DocumentsOf(Uploads)
    BY DEF AttachmentInv, KnownInv, FilesOf
  <2>2. LastNamed(xml[d].doc, a.name) = i
    BY <2>1, LastNamedIs DEF a
  <2>3. i # 0
    BY <2>1 DEF DocumentsOf
  <2>. QED
    BY <2>2, <2>3
<1>6. ServedFor(xml[d].doc, a.name) = a.from
  BY <1>3, <1>4, <1>5 DEF ServedFor, a
<1>. QED
  BY <1>6 DEF a

\* Whatever requests overlap, fail or are refused, the download by a name returns
\* the content of the last attachment of that name that the document lists, when
\* it has an extension and no two uploads share a millisecond: doPost stores the file before the document names it, and
\* removeDocumentAttachment deletes no file with an extension.
THEOREM AttachmentsIntact == Spec => []AttachmentIntact
<1>. QED
  BY AttachmentInvIntact, InitAttachment, NextAttachment, PTL DEF Spec

-----------------------------------------------------------------------------
(***************************************************************************)
(* Documents that one request at a time has in its hands.                   *)
(***************************************************************************)

\* Request r will write what it will promise; one that is about to write a
\* document that is not there, or cannot be read, is a removal and writes no
\* document.
PromiseKept(r) ==
  LET d == req[r].doc IN
  /\ promised[d].kind = "document" \/ req[r].op = "create" =>
       \/ req[r].snap = Effect(r, promised[d])
       \/ req[r].op = "remove" /\ req[r].snap.kind = "empty" /\ CutOff(d)
  /\ promised[d].kind # "document" /\ req[r].op # "create" =>
       req[r].op = "remove" /\ req[r].snap.kind = "empty"
  /\ req[r].step = "write" => ~req[r].mixed

RemovalOf(d) == \E r \in Requests : req[r].op = "remove" /\ req[r].doc = d

\* The file of a document that nobody writes is as promised.
FileKept(d) ==
  /\ promised[d].kind = "document" =>
       xml[d] = promised[d] \/ (xml[d].kind \in {"torn", "empty"} /\ CutOff(d))
  /\ promised[d].kind # "document" =>
       \/ xml[d].kind = "none"
       \/ xml[d].kind \in {"torn", "empty"} /\ (RemovalOf(d) \/ CutOff(d))

SerialAt(d) ==
  /\ \A r, t \in Requests : Holding(r, d) /\ Holding(t, d) => r = t
  /\ ~BeingWritten(d) => FileKept(d)
  /\ \A r \in Requests : Holding(r, d) => PromiseKept(r)

SerialInv == \A d \in Times : ~disturbed[d] => SerialAt(d)

LEMMA InitSerial == Init => SerialInv
<1> SUFFICES ASSUME Init, NEW d \in Times PROVE SerialAt(d)
  BY DEF SerialInv
<1>1. \A r \in Requests : ~Holding(r, d)
  BY DEF Init, Holding
<1>2. FileKept(d)
  BY DEF Init, FileKept, FileOf, FileWith
<1>. QED
  BY <1>1, <1>2 DEF SerialAt

\* What an answer promises depends on the arguments of the request alone.
LEMMA SameEffect ==
  ASSUME NEW r \in Requests, req'[r].op = req[r].op, req'[r].id = req[r].id,
         req'[r].name = req[r].name, req'[r].ext = req[r].ext, NEW file
  PROVE  Effect(r, file)' = Effect(r, file)
<1>1. AttachmentOf(r)' = AttachmentOf(r)
  BY DEF AttachmentOf
<1>. QED
  BY <1>1 DEF Effect

\* A step that leaves request t as it is, or in which t has nothing to do with
\* document d before or after it.
Quiet(t, d) ==
  \/ req'[t] = req[t]
  \/ /\ ~Holding(t, d) /\ ~Holding(t, d)'
     /\ req[t].op = "remove" => req'[t].op = "remove" /\ req'[t].doc = req[t].doc
     /\ req[t].step = "cut" => req'[t].step = "cut" /\ req'[t].doc = req[t].doc

\* A step keeps the invariant of a document that it is not about.
LEMMA OtherDocument ==
  ASSUME NEW d \in Times, SerialAt(d), xml'[d] = xml[d], promised'[d] = promised[d],
         \A t \in Requests : Quiet(t, d)
  PROVE  SerialAt(d)'
<1>1. \A t \in Requests : Holding(t, d)' => req'[t] = req[t] /\ Holding(t, d)
  BY DEF Quiet, Holding
<1>2. \A t \in Requests : Holding(t, d) => req'[t] = req[t] /\ Holding(t, d)'
  BY DEF Quiet, Holding
<1>3. BeingWritten(d) => BeingWritten(d)'
  BY <1>2 DEF BeingWritten, Holding
<1>4. (RemovalOf(d) => RemovalOf(d)') /\ (CutOff(d) => CutOff(d)')
  BY DEF RemovalOf, CutOff, Quiet
<1>5. FileKept(d) => FileKept(d)'
  BY <1>4 DEF FileKept
<1>6. ASSUME NEW t \in Requests, Holding(t, d)' PROVE PromiseKept(t)'
  <2>1. PromiseKept(t) /\ req'[t] = req[t] /\ req[t].doc = d
    BY <1>1, <1>6 DEF SerialAt, Holding
  <2>2. Effect(t, promised[d])' = Effect(t, promised[d])
    <3>1. \A file : Effect(t, file)' = Effect(t, file)
      BY <2>1, SameEffect
    <3>. QED
      BY <2>1, <3>1 DEF Effect, AttachmentOf
  <2>. QED
    BY <1>4, <2>1, <2>2 DEF PromiseKept
<1>. QED
  BY <1>1, <1>3, <1>5, <1>6 DEF SerialAt

\* Taking a document: the file the request will write is what it will promise.
LEMMA TakeSerial ==
  ASSUME AttachmentInv, SerialInv, NEW r \in Requests, NEW d \in Times,
         NEW args \in Request, NEW step \in {"delete", "open"}, NEW file \in File,
         Take(r, d, args, step, file),
         req[r].step \in {"idle", "read"}, args.op # "create",
         xml[d].kind = "document" => file = Effect(r, xml[d])',
         xml[d].kind # "document" => args.op = "remove" /\ file.kind = "empty"
  PROVE  SerialInv'
<1> DEFINE now == [args EXCEPT !.doc = d, !.step = step, !.snap = file]
<1>1. now.op = args.op /\ now.doc = d /\ now.step = step /\ now.snap = file
  BY DEF Request
<1>. HIDE DEF now
<1>2. /\ req' = [req EXCEPT ![r] = now]
      /\ disturbed' = [disturbed EXCEPT ![d] = @ \/ Others(r, d) # {}]
      /\ xml' = xml /\ promised' = promised
  BY DEF Take, now
<1>3. req'[r] = now /\ \A t \in Requests \ {r} : req'[t] = req[t]
  BY <1>2 DEF AttachmentInv, TypeOK
<1>4. \A e \in Times : ~Holding(r, e)
  BY DEF Holding
<1>5. req[r].op # "remove"
  BY DEF AttachmentInv, RequestsInv
<1> SUFFICES ASSUME NEW e \in Times, ~disturbed'[e] PROVE SerialAt(e)'
  BY DEF SerialInv
<1>6. ~disturbed[e] /\ (e = d => Others(r, d) = {})
  BY <1>2 DEF AttachmentInv, TypeOK
<1>7. SerialAt(e)
  BY <1>6 DEF SerialInv
<1>8. CASE e # d
  <2>1. ~Holding(r, e)'
    BY <1>1, <1>3, <1>8 DEF Holding
  <2>2. \A t \in Requests : Quiet(t, e)
    BY <1>3, <1>4, <1>5, <2>1 DEF Quiet
  <2>. QED
    BY <1>2, <1>7, <2>2, OtherDocument
<1>9. CASE e = d
  <2>1. \A t \in Requests : ~Holding(t, d)
    BY <1>4, <1>6, <1>9 DEF Others
  <2>2. \A t \in Requests : Holding(t, d)' => t = r
    BY <1>3, <2>1 DEF Holding
  <2>3. FileKept(d)
    BY <1>7, <1>9, <2>1 DEF SerialAt, BeingWritten, Holding
  <2>4. (RemovalOf(d) => RemovalOf(d)') /\ (CutOff(d) => CutOff(d)')
    BY <1>3, <1>5 DEF RemovalOf, CutOff
  <2>5. FileKept(d)'
    BY <1>2, <2>3, <2>4 DEF FileKept
  <2>6. PromiseKept(r)'
    <3>1. req'[r].doc = d /\ req'[r].op = args.op /\ req'[r].snap = file /\ req'[r].step # "write"
      BY <1>1, <1>3
    <3>2. CASE promised[d].kind = "document"
      <4>1. CASE xml[d] = promised[d]
        <5>1. xml'[d] = promised'[d]
          BY <1>2, <4>1
        <5>2. file = Effect(r, promised[d])'
          BY <3>2, <4>1, <5>1 DEF Effect, AttachmentOf
        <5>. QED
          BY <1>2, <3>1, <3>2, <5>2 DEF PromiseKept
      <4>2. CASE xml[d].kind \in {"torn", "empty"} /\ CutOff(d)
        BY <1>2, <2>4, <3>1, <3>2, <4>2 DEF PromiseKept
      <4>. QED
        BY <2>3, <3>2, <4>1, <4>2 DEF FileKept
    <3>3. CASE promised[d].kind # "document"
      <4>1. xml[d].kind # "document"
        BY <2>3, <3>3 DEF FileKept
      <4>. QED
        BY <1>2, <3>1, <3>3, <4>1 DEF PromiseKept
    <3>. QED
      BY <3>2, <3>3
  <2>. QED
    BY <1>9, <2>2, <2>5, <2>6 DEF SerialAt
<1>. QED
  BY <1>8, <1>9

LEMMA RefuseSerial ==
  ASSUME AttachmentInv, SerialInv, NEW r \in Requests, NEW args \in Request,
         Refuse(r, args), req[r].step \in {"idle", "read"}
  PROVE  SerialInv'
<1> DEFINE now == [args EXCEPT !.step = "fault"]
<1>1. now.step = "fault"
  BY DEF Request
<1>. HIDE DEF now
<1>2. req' = [req EXCEPT ![r] = now] /\ xml' = xml /\ promised' = promised /\ disturbed' = disturbed
  BY DEF Refuse, now
<1>3. req'[r] = now /\ \A t \in Requests \ {r} : req'[t] = req[t]
  BY <1>2 DEF AttachmentInv, TypeOK
<1>4. req[r].op # "remove"
  BY DEF AttachmentInv, RequestsInv
<1>5. \A t \in Requests, d \in Times : Quiet(t, d)
  BY <1>1, <1>3, <1>4 DEF Quiet, Holding
<1>. QED
  BY <1>2, <1>5, OtherDocument DEF SerialInv

LEMMA CreateSerial ==
  ASSUME AttachmentInv, SerialInv, NEW r \in Requests, CreateDocument(r)
  PROVE  SerialInv'
<1> DEFINE now == [Arguments(r, "create", clock) EXCEPT
                     !.step = "open", !.snap = FileWith(NewDocument)]
<1>1. clock \in Times /\ Arguments(r, "create", clock) \in Request
      /\ Arguments(r, "create", clock).op = "create"
  BY ArgumentsType DEF AttachmentInv, TypeOK, Operations
<1>2. now.op = "create" /\ now.step = "open" /\ now.snap = FileWith(NewDocument)
      /\ now.doc = clock
  BY <1>1 DEF Arguments, AttachmentInv, TypeOK, Request
<1>. HIDE DEF now
<1>3. /\ req' = [req EXCEPT ![r] = now]
      /\ disturbed' = [disturbed EXCEPT
                         ![clock] = @ \/ Others(r, clock) # {} \/ xml[clock].kind # "none"]
      /\ xml' = xml /\ promised' = promised /\ req[r].step = "idle"
  BY DEF CreateDocument, Arrives, now
<1>4. req'[r] = now /\ \A t \in Requests \ {r} : req'[t] = req[t]
  BY <1>3 DEF AttachmentInv, TypeOK
<1>5. /\ \A e \in Times : ~Holding(r, e)
      /\ req[r].op # "remove"
  BY <1>3 DEF Holding, AttachmentInv, RequestsInv
<1> SUFFICES ASSUME NEW e \in Times, ~disturbed'[e] PROVE SerialAt(e)'
  BY DEF SerialInv
<1>6. ~disturbed[e] /\ (e = clock => Others(r, clock) = {})
  BY <1>3 DEF AttachmentInv, TypeOK
<1>7. SerialAt(e)
  BY <1>6 DEF SerialInv
<1>8. CASE e # clock
  <2>1. ~Holding(r, e)'
    BY <1>2, <1>4, <1>8 DEF Holding
  <2>2. \A t \in Requests : Quiet(t, e)
    BY <1>3, <1>4, <1>5, <2>1 DEF Quiet
  <2>. QED
    BY <1>3, <1>7, <2>2, OtherDocument
<1>9. CASE e = clock
  <2>1. \A t \in Requests : ~Holding(t, e)
    BY <1>5, <1>6, <1>9 DEF Others
  <2>2. \A t \in Requests : Holding(t, e)' => t = r
    BY <1>4, <2>1 DEF Holding
  <2>3. FileKept(e)
    BY <1>7, <2>1 DEF SerialAt, BeingWritten, Holding
  <2>4. (RemovalOf(e) => RemovalOf(e)') /\ (CutOff(e) => CutOff(e)')
    BY <1>3, <1>4, <1>5 DEF RemovalOf, CutOff
  <2>5. FileKept(e)'
    BY <1>3, <2>3, <2>4 DEF FileKept
  <2>6. PromiseKept(r)'
    <3>1. req'[r].snap = FileWith(NewDocument) /\ req'[r].op = "create"
          /\ req'[r].step = "open" /\ req'[r].doc = e
      BY <1>2, <1>4, <1>9
    <3>2. Effect(r, promised[e])' = FileWith(NewDocument)
      BY <1>2, <1>4 DEF Effect
    <3>. QED
      BY <3>1, <3>2 DEF PromiseKept
  <2>. QED
    BY <2>2, <2>5, <2>6 DEF SerialAt
<1>. QED
  BY <1>8, <1>9

\* Externalizing the document of a file.
LEMMA ExternalizedFile ==
  ASSUME NEW file \in File, file.kind = "document", NEW x
  PROVE  [file EXCEPT !.doc.externalized = x]
           = FileWith([file.doc EXCEPT !.externalized = x])
BY DEF File, FileWith

LEMMA ChangeSerial ==
  ASSUME AttachmentInv, SerialInv, NEW r \in Requests, NEW d \in Times,
         NEW op \in Operations \ {"create"}, Arrives(r), NEW allowed, NEW document,
         xml[d].kind = "document" /\ allowed => document \in DocumentsOf(Attachment),
         Change(r, op, d, allowed, document),
         Take(r, d, Arguments(r, op, d), "open", FileWith(document))
           /\ xml[d].kind = "document" => FileWith(document) = Effect(r, xml[d])'
  PROVE  SerialInv'
<1>1. Arguments(r, op, d) \in Request /\ Arguments(r, op, d).op = op
  BY ArgumentsType DEF AttachmentInv
<1>2. req[r].step \in {"idle", "read"}
  BY DEF Arrives
<1>3. CASE xml[d].kind = "document" /\ allowed
  <2>1. FileWith(document) \in File
    BY <1>3, FileWithDocument, Types
  <2>2. Take(r, d, Arguments(r, op, d), "open", FileWith(document))
    BY <1>3 DEF Change
  <2>3. FileWith(document) = Effect(r, xml[d])'
    BY <1>3, <2>2
  <2>4. "open" \in {"delete", "open"} /\ op # "create"
    OBVIOUS
  <2>. QED
    BY <1>1, <1>2, <1>3, <2>1, <2>2, <2>3, <2>4, TakeSerial
<1>4. CASE ~(xml[d].kind = "document" /\ allowed)
  <2>1. Refuse(r, Arguments(r, op, d))
    BY <1>4 DEF Change
  <2>. QED
    BY <1>1, <1>2, <2>1, RefuseSerial
<1>. QED
  BY <1>3, <1>4

\* What a request has after taking its document.
LEMMA Taken ==
  ASSUME TypeOK, NEW r \in Requests, NEW d \in Times, NEW args \in Request,
         NEW step \in Steps, NEW file \in File, Take(r, d, args, step, file)
  PROVE  /\ req'[r].op = args.op /\ req'[r].id = args.id
         /\ req'[r].name = args.name /\ req'[r].ext = args.ext
         /\ xml' = xml
BY DEF Take, TypeOK, Request

LEMMA RegisterSerial ==
  ASSUME AttachmentInv, SerialInv, NEW r \in Requests, NEW d \in Times, RegisterDocument(r, d)
  PROVE  SerialInv'
<1> DEFINE document == [xml[d].doc EXCEPT !.number = clock]
           args == Arguments(r, "register", d)
<1>1. xml[d] \in File /\ xml[d].doc \in DocumentsOf(Attachment) /\ clock \in Times
  BY Types DEF AttachmentInv, TypeOK, FilesOf
<1>2. document \in DocumentsOf(Attachment) /\ FileWith(document) \in File
  BY <1>1, ChangedDocument, FileWithDocument, Types
<1>3. args \in Request /\ args.op = "register" /\ args.id = clock
  <2>1. args \in Request /\ args.op = "register"
    BY ArgumentsType DEF AttachmentInv, Operations
  <2>2. req[r] \in Request
    BY DEF AttachmentInv, TypeOK
  <2>3. args.id = clock
    BY <2>2 DEF Arguments, Request
  <2>. QED
    BY <2>1, <2>3
<1>4. ASSUME Take(r, d, args, "open", FileWith(document)), xml[d].kind = "document"
      PROVE  FileWith(document) = Effect(r, xml[d])'
  <2>1. req'[r].op = "register" /\ req'[r].id = clock /\ xml' = xml
    BY <1>2, <1>3, <1>4, Taken DEF AttachmentInv, Steps
  <2>2. Effect(r, xml[d])' = [xml[d] EXCEPT !.doc.number = clock]
    BY <2>1 DEF Effect
  <2>3. [xml[d] EXCEPT !.doc.number = clock] = FileWith(document)
    BY <1>1, <1>4 DEF File, FileWith
  <2>. QED
    BY <2>2, <2>3
<1>5. Arrives(r) /\ Change(r, "register", d, xml[d].doc.number = None, document)
  BY DEF RegisterDocument
<1>6. "register" \in Operations \ {"create"}
  BY DEF Operations
<1>. HIDE DEF document, args
<1>. QED
  BY <1>2, <1>4, <1>5, <1>6, ChangeSerial DEF args

LEMMA ExternalizeSerial ==
  ASSUME AttachmentInv, SerialInv, NEW r \in Requests, NEW d \in Times, ExternalizeDocument(r, d)
  PROVE  SerialInv'
<1> DEFINE document == [GetDocument(d).doc EXCEPT !.externalized = TRUE]
           args == Arguments(r, "externalize", d)
<1>1. xml[d] \in File /\ GetDocument(d).doc \in DocumentsOf(Attachment)
  BY Types, GetDocumentFile DEF AttachmentInv, TypeOK, FilesOf
<1>2. document \in DocumentsOf(Attachment) /\ FileWith(document) \in File
  BY <1>1, ChangedDocument, FileWithDocument, Types DEF AttachmentInv, TypeOK
<1>3. args \in Request /\ args.op = "externalize"
  BY ArgumentsType DEF AttachmentInv, Operations
<1>4. ASSUME Take(r, d, args, "open", FileWith(document)), xml[d].kind = "document"
      PROVE  FileWith(document) = Effect(r, xml[d])'
  <2>1. req'[r].op = "externalize" /\ xml' = xml
    BY <1>2, <1>3, <1>4, Taken DEF AttachmentInv, Steps
  <2>2. Effect(r, xml[d])' = [xml[d] EXCEPT !.doc.externalized = TRUE]
    BY <2>1 DEF Effect
  <2>3. [xml[d] EXCEPT !.doc.externalized = TRUE] = FileWith(document)
    <3>1. document = [xml[d].doc EXCEPT !.externalized = TRUE]
      BY <1>4 DEF GetDocument
    <3>2. [xml[d] EXCEPT !.doc.externalized = TRUE]
            = FileWith([xml[d].doc EXCEPT !.externalized = TRUE])
      BY <1>1, <1>4, ExternalizedFile
    <3>. QED
      BY <3>1, <3>2
  <2>. QED
    BY <2>2, <2>3
<1>5. /\ Arrives(r)
      /\ Change(r, "externalize", d, GetDocument(d).kind = "document", document)
  BY DEF ExternalizeDocument
<1>6. "externalize" \in Operations \ {"create"}
  BY DEF Operations
<1>. HIDE DEF document, args
<1>. QED
  BY <1>2, <1>4, <1>5, <1>6, ChangeSerial DEF args

LEMMA RemoveSerial ==
  ASSUME AttachmentInv, SerialInv, NEW r \in Requests, NEW d \in Times,
         NEW n \in Names, RemoveDocumentAttachment(r, d, n)
  PROVE  SerialInv'
<1> DEFINE file == GetDocument(d)
           first == FirstNamed(file.doc, n)
           id == IF first = 0 THEN None ELSE file.doc.attachments[first].id
           args == [Arguments(r, "remove", d) EXCEPT !.name = n, !.id = id]
           after == [file EXCEPT !.doc = Without(file.doc, n)]
<1>1. file \in FilesOf(Attachment) /\ file.doc \in DocumentsOf(Attachment)
  BY GetDocumentFile, Types DEF AttachmentInv, TypeOK, FilesOf
<1>2. after \in File
  BY <1>1, WithoutDocument, Types DEF FilesOf
<1>3. id \in Times \union {None}
  <2>1. first \in 0..Len(file.doc.attachments) /\ file.doc.attachments \in Seq(Attachment)
    BY <1>1, FirstNamedRange
  <2>2. \A a \in Attachment : a.id \in Times
    BY DEF Attachment
  <2>. HIDE DEF file, first
  <2>. QED
    BY <2>1, <2>2
<1>4. /\ file.kind = xml[d].kind \/ (file.kind = "empty" /\ xml[d].kind # "document")
      /\ xml[d].kind = "document" => file = xml[d]
  BY DEF GetDocument, FileOf
<1>5. after.kind = file.kind
  BY <1>1 DEF FilesOf
<1>. HIDE DEF file, first, id
<1>6. Arguments(r, "remove", d) \in Request /\ Arguments(r, "remove", d).op = "remove"
  BY ArgumentsType DEF AttachmentInv, Operations
<1>7. args \in Request /\ args.op = "remove" /\ args.name = n
  BY <1>3, <1>6 DEF Request
<1>8. Take(r, d, args, "delete", after)
  BY DEF RemoveDocumentAttachment, file, first, id
<1>. HIDE DEF args
<1>9. req'[r].op = "remove" /\ req'[r].name = n /\ xml' = xml
  BY <1>2, <1>7, <1>8, Taken DEF AttachmentInv, Steps
<1>10. Effect(r, xml[d])' = [xml[d] EXCEPT !.doc = Without(xml[d].doc, n)]
  BY <1>9 DEF Effect
<1>11. xml[d].kind = "document" => after = Effect(r, xml[d])'
  BY <1>4, <1>10
<1>12. xml[d].kind # "document" => after.kind = "empty"
  BY <1>5 DEF file, GetDocument, FileOf
<1>13. req[r].step \in {"idle", "read"} /\ args.op # "create"
  BY <1>7 DEF RemoveDocumentAttachment, Arrives
<1>. HIDE DEF after
<1>. QED
  BY <1>2, <1>7, <1>8, <1>11, <1>12, <1>13, TakeSerial

LEMMA ReadSerial ==
  ASSUME AttachmentInv, SerialInv, NEW r \in Requests, ReadForUpload(r)
  PROVE  SerialInv'
<1> DEFINE d == req[r].doc
           file == FileWith(Added(xml[d].doc, AttachmentOf(r)))
<1>1. d \in Times /\ req[r] \in Request /\ req[r].op = "upload" /\ req[r].step = "read"
  BY DEF ReadForUpload, AttachmentInv, TypeOK, Request, RequestsInv
<1>2. AttachmentOf(r) \in Attachment
  BY <1>1 DEF AttachmentOf, Attachment, AttachmentInv, RequestsInv, Request
<1>3. xml[d] \in File /\ xml[d].doc \in DocumentsOf(Attachment)
  BY <1>1, Types DEF AttachmentInv, TypeOK, FilesOf
<1>4. file \in File
  BY <1>2, <1>3, AddedDocument, FileWithDocument, Types
<1>5. CASE xml[d].kind = "document"
  <2>1. Take(r, d, req[r], "open", file)
    BY <1>5 DEF ReadForUpload
  <2>2. /\ req'[r].op = "upload" /\ req'[r].id = req[r].id /\ xml' = xml
        /\ req'[r].name = req[r].name /\ req'[r].ext = req[r].ext
    BY <1>1, <1>4, <2>1, Taken DEF AttachmentInv, Steps
  <2>3. AttachmentOf(r)' = AttachmentOf(r)
    BY <2>2 DEF AttachmentOf
  <2>4. [xml[d] EXCEPT !.doc = Added(xml[d].doc, AttachmentOf(r))] = file
    BY <1>3, <1>5 DEF File, FileWith
  <2>5. \A e \in Times : Effect(r, xml[e])' = [xml[e] EXCEPT !.doc = Added(xml[e].doc, AttachmentOf(r))]
    BY <2>2, <2>3 DEF Effect
  <2>6. PICK e \in Times : e = d
    BY <1>1
  <2>7. file = Effect(r, xml[e])'
    BY <2>4, <2>5, <2>6
  <2>8. req[r].op # "create"
    BY <1>1
  <2>9. Take(r, e, req[r], "open", file) /\ xml[e].kind = "document"
    BY <1>5, <2>1, <2>6
  <2>. HIDE DEF d, file
  <2>. QED
    BY <1>1, <1>4, <2>7, <2>8, <2>9, TakeSerial
<1>6. CASE xml[d].kind # "document"
  <2>1. Refuse(r, req[r])
    BY <1>6 DEF ReadForUpload
  <2>. QED
    BY <1>1, <2>1, RefuseSerial
<1>. QED
  BY <1>5, <1>6

LEMMA ReceiveSerial ==
  ASSUME AttachmentInv, SerialInv, NEW r \in Requests, NEW d \in Times, NEW n \in Names,
         NEW e \in AnyExtension, ReceiveAttachment(r, d, n, e)
  PROVE  SerialInv'
<1> DEFINE now == [Arguments(r, "upload", d) EXCEPT !.step = "read", !.name = n, !.ext = e]
<1>1. now.step = "read"
  BY DEF Arguments, AttachmentInv, TypeOK, Request
<1>. HIDE DEF now
<1>2. /\ req' = [req EXCEPT ![r] = now] /\ req[r].step = "idle"
      /\ xml' = xml /\ disturbed' = disturbed /\ promised' = promised
  BY DEF ReceiveAttachment, Arrives, now
<1>3. req'[r] = now /\ \A t \in Requests \ {r} : req'[t] = req[t]
  BY <1>2 DEF AttachmentInv, TypeOK
<1>4. req[r].op # "remove"
  BY <1>2 DEF AttachmentInv, RequestsInv
<1>5. \A t \in Requests, d1 \in Times : Quiet(t, d1)
  BY <1>1, <1>2, <1>3, <1>4 DEF Quiet, Holding
<1>. QED
  BY <1>2, <1>5, OtherDocument DEF SerialInv

LEMMA DeleteSerial ==
  ASSUME AttachmentInv, SerialInv, NEW r \in Requests, DeleteFile(r)
  PROVE  SerialInv'
<1>1. PICK step \in {"open", "fault"} : req' = [req EXCEPT ![r].step = step]
  BY DEF DeleteFile
<1>2. /\ req[r].step = "delete"
      /\ UNCHANGED <<clock, xml, disturbed, promised>>
  BY DEF DeleteFile
<1>3. \A t \in Requests : /\ req'[t].op = req[t].op /\ req'[t].id = req[t].id
                          /\ req'[t].ext = req[t].ext /\ req'[t].name = req[t].name
                          /\ req'[t].snap = req[t].snap /\ req'[t].doc = req[t].doc
                          /\ t # r => req'[t] = req[t]
  BY <1>1 DEF AttachmentInv, TypeOK, Request
<1>4. req'[r].step = step
  BY <1>1 DEF AttachmentInv, TypeOK, Request
<1> SUFFICES ASSUME NEW d \in Times, ~disturbed'[d] PROVE SerialAt(d)'
  BY DEF SerialInv
<1>5. SerialAt(d)
  BY <1>2 DEF SerialInv
<1>6. \A t \in Requests : Holding(t, d)' => Holding(t, d)
  BY <1>2, <1>3 DEF Holding
<1>7. BeingWritten(d) => BeingWritten(d)'
  BY <1>2, <1>3 DEF BeingWritten
<1>8. (CutOff(d) => CutOff(d)') /\ (FileKept(d) => FileKept(d)')
  <2>1. CutOff(d) => CutOff(d)'
    BY <1>2, <1>3 DEF CutOff
  <2>2. RemovalOf(d) => RemovalOf(d)'
    BY <1>3 DEF RemovalOf
  <2>. QED
    BY <1>2, <2>1, <2>2 DEF FileKept
<1>9. ASSUME NEW t \in Requests, Holding(t, d)' PROVE PromiseKept(t)'
  <2>1. PromiseKept(t) /\ req[t].doc = d
    BY <1>3, <1>5, <1>6, <1>9 DEF SerialAt, Holding
  <2>2. req'[t].step = "write" => req[t].step = "write" /\ req'[t] = req[t]
    BY <1>3, <1>4
  <2>3. Effect(t, promised[d])' = Effect(t, promised[d])
    BY <1>2, <1>3 DEF Effect, AttachmentOf
  <2>. QED
    BY <1>2, <1>3, <1>8, <2>1, <2>2, <2>3 DEF PromiseKept
<1>. QED
  BY <1>5, <1>6, <1>7, <1>8, <1>9 DEF SerialAt

LEMMA OpenSerial ==
  ASSUME AttachmentInv, SerialInv, NEW r \in Requests, OpenFile(r)
  PROVE  SerialInv'
<1> DEFINE d == req[r].doc
           writers == {t \in Requests \ {r} : req[t].step = "write" /\ req[t].doc = d}
<1>1. /\ xml' = [xml EXCEPT ![d] = FileOf("torn")]
      /\ req[r].step = "open"
      /\ UNCHANGED <<clock, stored, disturbed, promised>>
  BY DEF OpenFile
<1>2. req' = [t \in Requests |->
                IF t = r THEN [req[r] EXCEPT !.step = "write", !.mixed = writers # {}]
                ELSE IF t \in writers THEN [req[t] EXCEPT !.mixed = TRUE]
                ELSE req[t]]
  BY DEF OpenFile
<1>3. \A t \in Requests : t # r /\ t \notin writers => req'[t] = req[t]
  BY <1>2
<1>4. req'[r].step = "write"
  <2>1. PICK m \in BOOLEAN : m = (writers # {})
    OBVIOUS
  <2>2. req'[r] = [req[r] EXCEPT !.step = "write", !.mixed = m]
    BY <1>2, <2>1
  <2>. QED
    BY <2>2 DEF AttachmentInv, TypeOK, Request
<1>5. /\ req'[r].op = req[r].op /\ req'[r].id = req[r].id /\ req'[r].name = req[r].name
      /\ req'[r].ext = req[r].ext /\ req'[r].snap = req[r].snap /\ req'[r].doc = d
  BY <1>2 DEF AttachmentInv, TypeOK, Request
<1>6. \A t \in writers : /\ req'[t].op = req[t].op /\ req'[t].doc = d /\ req[t].doc = d
                         /\ req'[t].step = "write" /\ req[t].step = "write"
  <2> SUFFICES ASSUME NEW t \in writers
               PROVE  /\ req'[t].op = req[t].op /\ req'[t].doc = d /\ req[t].doc = d
                      /\ req'[t].step = "write" /\ req[t].step = "write"
    OBVIOUS
  <2>1. req'[t] = [req[t] EXCEPT !.mixed = TRUE] /\ req[t] \in Request
    BY <1>2 DEF AttachmentInv, TypeOK
  <2>2. req[t].step = "write" /\ req[t].doc = d
    OBVIOUS
  <2>. HIDE DEF writers, d
  <2>. QED
    BY <2>1, <2>2 DEF Request
<1> SUFFICES ASSUME NEW e \in Times, ~disturbed'[e] PROVE SerialAt(e)'
  BY DEF SerialInv
<1>7. SerialAt(e)
  BY <1>1 DEF SerialInv
<1>8. CASE e # d
  <2>1. \A t \in Requests : Quiet(t, e)
    <3> SUFFICES ASSUME NEW t \in Requests PROVE Quiet(t, e)
      OBVIOUS
    <3>1. CASE t = r
      BY <1>1, <1>5, <1>8, <3>1 DEF Quiet, Holding
    <3>2. CASE t \in writers
      <4>. HIDE DEF writers, d
      <4>. QED
        BY <1>6, <1>8, <3>2 DEF Quiet, Holding
    <3>3. CASE t # r /\ t \notin writers
      BY <1>3, <3>3 DEF Quiet
    <3>. QED
      BY <3>1, <3>2, <3>3
  <2>2. xml'[e] = xml[e] /\ promised'[e] = promised[e]
    BY <1>1, <1>8 DEF AttachmentInv, TypeOK
  <2>. QED
    BY <1>7, <2>1, <2>2, OtherDocument
<1>9. CASE e = d
  <2>1. Holding(r, e)
    BY <1>1, <1>9 DEF Holding
  <2>2. \A t \in Requests : Holding(t, e) => t = r
    BY <1>7, <2>1 DEF SerialAt
  <2>3. writers = {}
    BY <1>9, <2>2 DEF Holding
  <2>4. /\ req'[r] = [req[r] EXCEPT !.step = "write", !.mixed = FALSE]
        /\ \A t \in Requests \ {r} : req'[t] = req[t]
    BY <1>2, <2>3
  <2>5. \A t \in Requests : Holding(t, e)' => t = r
    BY <2>2, <2>4 DEF Holding
  <2>6. BeingWritten(e)'
    BY <1>4, <1>5, <1>9 DEF BeingWritten
  <2>7. ~req'[r].mixed
    BY <2>4 DEF AttachmentInv, TypeOK, Request
  <2>8. Effect(r, promised[e])' = Effect(r, promised[e])
    BY <1>1, <1>5 DEF Effect, AttachmentOf
  <2>9. CutOff(e) => CutOff(e)'
    BY <1>1, <2>4 DEF CutOff
  <2>10. PromiseKept(r)'
    BY <1>1, <1>5, <1>7, <1>9, <2>1, <2>7, <2>8, <2>9 DEF SerialAt, PromiseKept
  <2>. QED
    BY <2>5, <2>6, <2>10 DEF SerialAt
<1>. QED
  BY <1>8, <1>9

LEMMA WriteSerial ==
  ASSUME AttachmentInv, SerialInv, NEW r \in Requests, WriteFile(r)
  PROVE  SerialInv'
<1> DEFINE d == req[r].doc
           written == req[r].snap
<1>1. PICK file \in IF req[r].mixed \/ written.kind = "empty"
                      THEN {written, FileOf("torn")} ELSE {written} :
        xml' = [xml EXCEPT ![d] = file]
  BY DEF WriteFile
<1>2. /\ req' = [req EXCEPT ![r].step = "ok"]
      /\ promised' = [promised EXCEPT ![d] = Effect(r, @)]
      /\ req[r].step = "write"
      /\ UNCHANGED <<clock, stored, disturbed>>
  BY DEF WriteFile
<1>3. /\ req'[r].op = req[r].op /\ req'[r].doc = d /\ req'[r].step = "ok"
      /\ \A t \in Requests \ {r} : req'[t] = req[t]
      /\ d \in Times
  BY <1>2 DEF AttachmentInv, TypeOK, Request
<1> SUFFICES ASSUME NEW e \in Times, ~disturbed'[e] PROVE SerialAt(e)'
  BY DEF SerialInv
<1>4. SerialAt(e)
  BY <1>2 DEF SerialInv
<1>5. CASE e # d
  <2>1. \A t \in Requests : Quiet(t, e)
    BY <1>2, <1>3, <1>5 DEF Quiet, Holding
  <2>2. xml'[e] = xml[e] /\ promised'[e] = promised[e]
    BY <1>1, <1>2, <1>5 DEF AttachmentInv, TypeOK
  <2>. QED
    BY <1>4, <2>1, <2>2, OtherDocument
<1>6. CASE e = d
  <2>1. Holding(r, e) /\ req[r].doc = e
    BY <1>2, <1>6 DEF Holding
  <2>2. \A t \in Requests : Holding(t, e) => t = r
    BY <1>4, <2>1 DEF SerialAt
  <2>3. \A t \in Requests : ~Holding(t, e)'
    BY <1>3, <2>2 DEF Holding
  <2>4. PromiseKept(r) /\ ~req[r].mixed
    BY <1>2, <1>4, <2>1 DEF SerialAt, PromiseKept
  <2>5. xml'[e] = file /\ promised'[e] = Effect(r, promised[e])
    BY <1>1, <1>2, <1>6 DEF AttachmentInv, TypeOK
  <2>6. promised[e] \in File
    BY DEF AttachmentInv, TypeOK
  <2>7. CASE /\ promised[e].kind = "document" \/ req[r].op = "create"
             /\ written = Effect(r, promised[e])
    <3>1. written = Effect(r, promised[e])
      BY <2>7
    <3>2. written.kind = "document"
      <4>1. CASE req[r].op = "create"
        BY <3>1, <4>1 DEF Effect, FileWith
      <4>2. CASE req[r].op # "create"
        <5>1. promised[e].kind = "document"
          BY <2>7, <4>2
        <5>2. Effect(r, promised[e]).kind = promised[e].kind
          BY <2>6, <4>2 DEF Effect, File
        <5>. QED
          BY <3>1, <5>1, <5>2
      <4>. QED
        BY <4>1, <4>2
    <3>3. file = written
      BY <1>1, <2>4, <3>2
    <3>4. FileKept(e)'
      BY <2>5, <3>1, <3>2, <3>3 DEF FileKept
    <3>. QED
      BY <2>3, <3>4 DEF SerialAt
  <2>8. CASE ~(promised[e].kind = "document" \/ req[r].op = "create")
    <3>1. req[r].op = "remove" /\ written.kind = "empty"
      BY <2>1, <2>4, <2>8 DEF PromiseKept
    <3>2. Effect(r, promised[e]).kind = promised[e].kind
      BY <2>6, <3>1 DEF Effect, File
    <3>3. file.kind \in {"torn", "empty"}
      BY <1>1, <3>1 DEF FileOf
    <3>4. RemovalOf(e)'
      BY <1>3, <2>1, <3>1 DEF RemovalOf
    <3>5. FileKept(e)'
      BY <2>5, <2>8, <3>2, <3>3, <3>4 DEF FileKept
    <3>. QED
      BY <2>3, <3>5 DEF SerialAt
  <2>9. CASE /\ promised[e].kind = "document" \/ req[r].op = "create"
             /\ written # Effect(r, promised[e])
    <3>1. req[r].op = "remove" /\ written.kind = "empty" /\ CutOff(e)
      BY <2>1, <2>4, <2>9 DEF PromiseKept
    <3>2. CutOff(e)'
      BY <1>2, <1>3, <3>1 DEF CutOff
    <3>3. file.kind \in {"torn", "empty"}
      BY <1>1, <3>1 DEF FileOf
    <3>4. FileKept(e)'
      BY <2>5, <3>2, <3>3 DEF FileKept
    <3>. QED
      BY <2>3, <3>4 DEF SerialAt
  <2>. QED
    BY <2>7, <2>8, <2>9
<1>. QED
  BY <1>5, <1>6

LEMMA SetTypeFailsSerial ==
  ASSUME AttachmentInv, SerialInv, NEW r \in Requests, SetTypeFails(r)
  PROVE  SerialInv'
<1> DEFINE d == req[r].doc
<1>1. /\ req[r].step \in {"open", "write"} /\ d \in Times
      /\ UNCHANGED <<clock, stored, disturbed, promised>>
  BY DEF SetTypeFails, AttachmentInv, TypeOK, Request
<1>2. PICK step \in {"fault", "cut"} :
        /\ req' = [req EXCEPT ![r].step = step]
        /\ step = "fault" <=> req[r].step = "open"
  BY DEF SetTypeFails
<1>3. /\ req'[r].op = req[r].op /\ req'[r].doc = d /\ req'[r].step = step
      /\ \A t \in Requests \ {r} : req'[t] = req[t]
  BY <1>2 DEF AttachmentInv, TypeOK, Request
<1> SUFFICES ASSUME NEW e \in Times, ~disturbed'[e] PROVE SerialAt(e)'
  BY DEF SerialInv
<1>4. SerialAt(e)
  BY <1>1 DEF SerialInv
<1>5. CASE e # d
  <2>1. \A t \in Requests : Quiet(t, e)
    BY <1>1, <1>3, <1>5 DEF Quiet, Holding
  <2>2. xml'[e] = xml[e] /\ promised'[e] = promised[e]
    BY <1>1, <1>5 DEF SetTypeFails, AttachmentInv, TypeOK
  <2>. QED
    BY <1>4, <2>1, <2>2, OtherDocument
<1>6. CASE e = d
  <2>1. Holding(r, e) /\ req[r].doc = e
    BY <1>1, <1>6 DEF Holding
  <2>2. \A t \in Requests : Holding(t, e) => t = r
    BY <1>4, <2>1 DEF SerialAt
  <2>3. \A t \in Requests : ~Holding(t, e)'
    BY <1>3, <2>2 DEF Holding
  <2>4. CASE req[r].step = "open"
    <3>1. ~BeingWritten(e)
      BY <2>1, <2>2, <2>4 DEF BeingWritten, Holding
    <3>2. (RemovalOf(e) => RemovalOf(e)') /\ (CutOff(e) => CutOff(e)')
      BY <1>3, <2>4 DEF RemovalOf, CutOff
    <3>3. xml' = xml
      BY <2>4 DEF SetTypeFails
    <3>4. FileKept(e)'
      BY <1>1, <1>4, <3>1, <3>2, <3>3 DEF SerialAt, FileKept
    <3>. QED
      BY <2>3, <3>4 DEF SerialAt
  <2>5. CASE req[r].step = "write"
    <3>1. CutOff(e)'
      BY <1>2, <1>3, <1>6, <2>5 DEF CutOff
    <3>2. ~req[r].mixed
      BY <1>4, <2>1, <2>5 DEF SerialAt, PromiseKept
    <3>3. xml' = [xml EXCEPT ![d] = FileOf("torn")]
      BY <2>5, <3>2 DEF SetTypeFails
    <3>4. xml'[e].kind = "torn"
      BY <1>6, <3>3 DEF AttachmentInv, TypeOK, FileOf
    <3>5. FileKept(e)'
      BY <3>1, <3>4 DEF FileKept
    <3>. QED
      BY <2>3, <3>5 DEF SerialAt
  <2>. QED
    BY <1>1, <2>4, <2>5
<1>. QED
  BY <1>5, <1>6

LEMMA NextSerial ==
  AttachmentInv /\ SerialInv /\ [Next]_vars => SerialInv'
<1> SUFFICES ASSUME AttachmentInv, SerialInv, [Next]_vars PROVE SerialInv'
  OBVIOUS
<1>1. CASE Tick \/ UNCHANGED vars
  <2>1. xml' = xml /\ req' = req /\ promised' = promised /\ disturbed' = disturbed
    BY <1>1 DEF Tick, vars
  <2>2. \A t \in Requests, d \in Times : Quiet(t, d)
    BY <2>1 DEF Quiet
  <2>. QED
    BY <2>1, <2>2, OtherDocument DEF SerialInv
<1>. QED
  BY <1>1, CreateSerial, RegisterSerial, ExternalizeSerial, RemoveSerial,
     ReceiveSerial, DeleteSerial, ReadSerial, OpenSerial, WriteSerial,
     SetTypeFailsSerial DEF Next

LEMMA Invariance == Spec => [](AttachmentInv /\ SerialInv)
<1>. QED
  BY InitAttachment, NextAttachment, InitSerial, NextSerial, PTL DEF Spec

\* For any number of requests: as long as no two have had a document in their
\* hands at the same time, its file is what the answers promise, or cannot be read
\* because a request was refused while it wrote it; it is never another document.
THEOREM SerialKept == Spec => []SerialRequestsKept
<1>1. SerialInv => SerialRequestsKept
  BY DEF SerialInv, SerialAt, FileKept, SerialRequestsKept
<1>. QED
  BY <1>1, Invariance, PTL

\* A file makes searching fail between requests only after two had its document in
\* their hands, or a write of it was refused in the middle, or a removal was asked of
\* a document that was not there.
THEOREM SearchStays == Spec => []SearchWorks
<1>1. SerialInv => SearchWorks
  <2> SUFFICES ASSUME SerialInv, NEW d \in Times, ~Searchable(d),
                      ~disturbed[d], ~BeingWritten(d), ~CutOff(d)
               PROVE  promised[d].kind # "document"
                      /\ \E r \in Requests : req[r].op = "remove" /\ req[r].doc = d
    BY DEF SearchWorks
  <2>1. FileKept(d)
    BY DEF SerialInv, SerialAt
  <2>. QED
    BY <2>1 DEF FileKept, RemovalOf, Searchable
<1>. QED
  BY <1>1, Invariance, PTL
=============================================================================

------------------------------- MODULE ErisMock -------------------------------
(***************************************************************************)
(* The ERIS mock: the document web service (DocumentManagementServiceV5Impl) *)
(* and the upload and download servlet (ErisMockServlet) over one directory  *)
(* of files, an XML file per document and a file per attachment              *)
(* (MockXmlFileLoader).                                                      *)
(*                                                                           *)
(* Every request is served by a thread of its own. A request that changes a  *)
(* document reads its XML file, changes the object, opens the file, which    *)
(* empties it, and writes it; nothing keeps two requests apart. The          *)
(* marshaller checks what it writes against the schema while it writes, so   *)
(* that a refused value leaves a file cut off. What becomes of a file that   *)
(* two threads write at the same time, and what the marshaller makes of a    *)
(* response without a document, is not decided by the code: both are choices *)
(* here.                                                                     *)
(***************************************************************************)
EXTENDS Naturals, SequencesExt

CONSTANTS
  Requests,    \* the requests, each served once
  Names,       \* attachment names
  Extensions,  \* extensions of attachment names other than none
  NoExtension, \* the extension of a name without a dot
  None,
  MaxTime      \* bound: the last millisecond

ASSUME SentinelAssumption == NoExtension \notin Extensions /\ None \notin Names
ASSUME TimeAssumption == MaxTime \in Nat /\ None \notin Nat

\* Documents and attachments are named by the time they are made at.
Times == 0..MaxTime
AnyExtension == Extensions \union {NoExtension}

Attachment == [id: Times, name: Names, ext: AnyExtension, from: Requests]
Document == [attachments: Seq(Attachment), number: Times \union {None},
             externalized: BOOLEAN]
NewDocument == [attachments |-> <<>>, number |-> None, externalized |-> FALSE]

\* An XML file: missing, cut off in the middle (or mixed from two writers),
\* without a document in its response, or with one.
File == [kind: {"none", "torn", "empty", "document"}, doc: Document]
FileOf(kind) == [kind |-> kind, doc |-> NewDocument]
FileWith(document) == [kind |-> "document", doc |-> document]

VARIABLES
  clock,      \* System.currentTimeMillis()
  xml,        \* xml[d]: the file GetDocumentResponseType_<d>.xml
  stored,     \* stored[<<id, ext>>]: whose content attachment_<id>.<ext> has
  req,        \* req[r]: the request: operation, arguments, what it has read
  disturbed,  \* disturbed[d]: two requests have had document d in their hands
  promised    \* promised[d]: document d according to the answers given so far

vars == <<clock, xml, stored, req, disturbed, promised>>

Operations == {"none", "create", "upload", "register", "externalize", "remove"}
\* The last three are ends: answered, refused, refused in the middle of the write.
Steps == {"idle", "read", "delete", "open", "write", "ok", "fault", "cut"}
Request == [op: Operations, step: Steps, doc: Times, name: Names \union {None},
            ext: AnyExtension, id: Times \union {None}, mixed: BOOLEAN, snap: File]

TypeOK ==
  /\ clock \in Times
  /\ xml \in [Times -> File]
  /\ stored \in [Times \X AnyExtension -> Requests \union {None}]
  /\ req \in [Requests -> Request]
  /\ disturbed \in [Times -> BOOLEAN]
  /\ promised \in [Times -> File]

\* The directory holds one document from before, made at time 0.
Init ==
  /\ clock = 0
  /\ xml = [d \in Times |-> IF d = 0 THEN FileWith(NewDocument) ELSE FileOf("none")]
  /\ stored = [key \in Times \X AnyExtension |-> None]
  /\ req = [r \in Requests |->
              [op |-> "none", step |-> "idle", doc |-> 0, name |-> None,
               ext |-> NoExtension, id |-> None, mixed |-> FALSE,
               snap |-> FileOf("none")]]
  /\ disturbed = [d \in Times |-> FALSE]
  /\ promised = xml

Tick ==
  /\ clock < MaxTime
  /\ clock' = clock + 1
  /\ UNCHANGED <<xml, stored, req, disturbed, promised>>

\* r has read document d, or made it, and has not written it yet.
Holding(r, d) == req[r].step \in {"delete", "open", "write"} /\ req[r].doc = d
Others(r, d) == {t \in Requests \ {r} : Holding(t, d)}

\* Request r takes document d in its hands as file, and goes on at step.
Take(r, d, args, step, file) ==
  /\ req' = [req EXCEPT ![r] = [args EXCEPT !.doc = d, !.step = step, !.snap = file]]
  /\ disturbed' = [disturbed EXCEPT ![d] = @ \/ Others(r, d) # {}]
  /\ UNCHANGED <<clock, xml, stored, promised>>

\* The request ends with a fault or an exception.
Refuse(r, args) ==
  /\ req' = [req EXCEPT ![r] = [args EXCEPT !.step = "fault"]]
  /\ UNCHANGED <<clock, xml, stored, disturbed, promised>>

LaterArguments(r, op, d) ==  \* mutant of Arguments: the clock of the next request
  [req[r] EXCEPT !.op = op, !.doc = d, !.id = clock + 1]

Arguments(r, op, d) == [req[r] EXCEPT !.op = op, !.doc = d, !.id = clock]
Arrives(r) == req[r].step = "idle"

(***************************************************************************)
(* The web service.                                                         *)
(***************************************************************************)

\* createDocument: the id is the time; a file of that name is replaced.
CreateDocument(r) ==
  /\ Arrives(r)
  /\ req' = [req EXCEPT ![r] = [Arguments(r, "create", clock) EXCEPT
                                  !.step = "open", !.snap = FileWith(NewDocument)]]
  /\ disturbed' = [disturbed EXCEPT
                     ![clock] = \/ @
                                \/ Others(r, clock) # {}
                                \/ xml[clock].kind # "none"]
  /\ UNCHANGED <<clock, xml, stored, promised>>

\* Mutant of Change: a missing document is written as removeDocumentAttachment does.
ChangeMissing(r, op, d, allowed, document) ==
  IF xml[d].kind = "document" => allowed
    THEN Take(r, d, Arguments(r, op, d), "open",
              IF xml[d].kind = "document" THEN FileWith(document) ELSE FileOf("empty"))
    ELSE Refuse(r, Arguments(r, op, d))

Change(r, op, d, allowed, document) ==
  IF xml[d].kind = "document" /\ allowed
    THEN Take(r, d, Arguments(r, op, d), "open", FileWith(document))
    ELSE Refuse(r, Arguments(r, op, d))

\* registerDocument: refused when a number is there already.
RegisterDocument(r, d) ==
  /\ Arrives(r)
  /\ Change(r, "register", d, xml[d].doc.number = None,
            [xml[d].doc EXCEPT !.number = clock])

\* getDocument by id: the response has no document when there is none to read.
GetDocument(d) == IF xml[d].kind = "document" THEN xml[d] ELSE FileOf("empty")

\* externalizeDocument changes what getDocument returns.
ExternalizeDocument(r, d) ==
  /\ Arrives(r)
  /\ Change(r, "externalize", d, GetDocument(d).kind = "document",
            [GetDocument(d).doc EXCEPT !.externalized = TRUE])

\* The position of the first attachment of that name, or 0.
FirstNamed(document, n) == SelectInSeq(document.attachments, LAMBDA a : a.name = n)
Without(document, n) ==
  IF FirstNamed(document, n) = 0 THEN document
  ELSE [document EXCEPT !.attachments = RemoveAt(@, FirstNamed(document, n))]

\* removeDocumentAttachment, its load() and the search for the attachment: the
\* first of the name is taken out. An exception of getDocument is caught, and the
\* request goes on with a response without a document.
RemoveDocumentAttachment(r, d, n) ==
  LET file == GetDocument(d)
      first == FirstNamed(file.doc, n)
  IN /\ Arrives(r)
     /\ Take(r, d,
             [Arguments(r, "remove", d) EXCEPT
                !.name = n,
                !.id = IF first = 0 THEN None ELSE file.doc.attachments[first].id],
             "delete", [file EXCEPT !.doc = Without(file.doc, n)])

\* removeDocumentAttachment, the file: it is named by the id alone, and so is
\* only there for an attachment without extension. Emptying the caches raises
\* when nobody has made them, which is not caught.
DeletedWithExtension(id) == <<id, CHOOSE e \in Extensions : TRUE>>  \* mutant of DeletedName

DeletedName(id) == <<id, NoExtension>>
DeleteFile(r) ==
  /\ req[r].step = "delete"
  /\ stored' = IF req[r].id = None THEN stored
               ELSE [stored EXCEPT ![DeletedName(req[r].id)] = None]
  /\ req' \in {[req EXCEPT ![r].step = step] : step \in {"open", "fault"}}
  /\ UNCHANGED <<clock, xml, disturbed, promised>>

(***************************************************************************)
(* The servlet: doPost.                                                     *)
(***************************************************************************)

\* The file is written first, under the time the request came in.
ReceiveAttachment(r, d, n, e) ==
  /\ Arrives(r)
  /\ stored' = [stored EXCEPT ![<<clock, e>>] = r]
  /\ req' = [req EXCEPT ![r] = [Arguments(r, "upload", d) EXCEPT
                                  !.step = "read", !.name = n, !.ext = e]]
  /\ UNCHANGED <<clock, xml, disturbed, promised>>

Added(document, a) == [document EXCEPT !.attachments = Append(@, a)]
AttachmentOf(r) ==
  [id |-> req[r].id, name |-> req[r].name, ext |-> req[r].ext, from |-> r]

\* Mutant of ReadForUpload: the list is replaced by the new attachment.
ReadForReplacement(r) ==
  LET d == req[r].doc IN
  /\ req[r].step = "read"
  /\ IF xml[d].kind = "document"
       THEN Take(r, d, req[r], "open",
                 FileWith([xml[d].doc EXCEPT !.attachments = <<AttachmentOf(r)>>]))
       ELSE Refuse(r, req[r])

\* Then the document is read, and the attachment added to it.
ReadForUpload(r) ==
  LET d == req[r].doc IN
  /\ req[r].step = "read"
  /\ IF xml[d].kind = "document"
       THEN Take(r, d, req[r], "open", FileWith(Added(xml[d].doc, AttachmentOf(r))))
       ELSE Refuse(r, req[r])

(***************************************************************************)
(* setType: the marshaller opens the file, then writes it.                  *)
(***************************************************************************)
OpenFile(r) ==
  LET d == req[r].doc
      writers == {t \in Requests \ {r} : req[t].step = "write" /\ req[t].doc = d}
  IN /\ req[r].step = "open"
     /\ xml' = [xml EXCEPT ![d] = FileOf("torn")]
     /\ req' = [t \in Requests |->
                  IF t = r THEN [req[r] EXCEPT !.step = "write", !.mixed = writers # {}]
                  ELSE IF t \in writers THEN [req[t] EXCEPT !.mixed = TRUE]
                  ELSE req[t]]
     /\ UNCHANGED <<clock, stored, disturbed, promised>>

\* What the answer to r promises of its document, given what was promised.
Effect(r, file) ==
  LET document == file.doc IN
  CASE req[r].op = "create" -> FileWith(NewDocument)
    [] req[r].op = "register" -> [file EXCEPT !.doc.number = req[r].id]
    [] req[r].op = "externalize" -> [file EXCEPT !.doc.externalized = TRUE]
    [] req[r].op = "upload" -> [file EXCEPT !.doc = Added(document, AttachmentOf(r))]
    [] OTHER -> [file EXCEPT !.doc = Without(document, req[r].name)]

WriteFile(r) ==
  LET d == req[r].doc
      written == req[r].snap
      outcomes == IF req[r].mixed \/ written.kind = "empty"
                    THEN {written, FileOf("torn")} ELSE {written}
  IN /\ req[r].step = "write"
     /\ \E file \in outcomes : xml' = [xml EXCEPT ![d] = file]
     /\ req' = [req EXCEPT ![r].step = "ok"]
     /\ promised' = [promised EXCEPT ![d] = Effect(r, @)]
     /\ UNCHANGED <<clock, stored, disturbed>>

\* setType throws: before the file is opened, or in the middle of the write, when
\* the schema does not allow a value or the disk is full; what was written until
\* then stays. removeDocumentAttachment catches it and answers all the same, an
\* answer that is empty and so promises nothing.
SetTypeFails(r) ==
  LET d == req[r].doc IN
  /\ \/ req[r].step = "open" /\ req' = [req EXCEPT ![r].step = "fault"] /\ UNCHANGED xml
     \/ /\ req[r].step = "write" /\ req' = [req EXCEPT ![r].step = "cut"]
        /\ \E file \in {FileOf("torn")} \union (IF req[r].mixed THEN {xml[d]} ELSE {}) :
             xml' = [xml EXCEPT ![d] = file]
  /\ UNCHANGED <<clock, stored, disturbed, promised>>

Next ==
  \/ Tick
  \/ \E r \in Requests :
       \/ CreateDocument(r)
       \/ \E d \in Times : RegisterDocument(r, d)
       \/ \E d \in Times : ExternalizeDocument(r, d)
       \/ \E d \in Times, n \in Names : RemoveDocumentAttachment(r, d, n)
       \/ \E d \in Times, n \in Names, e \in AnyExtension : ReceiveAttachment(r, d, n, e)
       \/ DeleteFile(r)
       \/ ReadForUpload(r)
       \/ OpenFile(r)
       \/ WriteFile(r)
       \/ SetTypeFails(r)

Spec == Init /\ [][Next]_vars

-----------------------------------------------------------------------------
(***************************************************************************)
(* What the reading operations return.                                      *)
(***************************************************************************)

\* doGet by the name of an attachment: of those that have it the last one counts
\* (removal takes the first). Its file has its id and its extension; a name
\* without extension gets a dot that no file has.
LastNamed(document, n) == SelectLastInSeq(document.attachments, LAMBDA a : a.name = n)
ServedFor(document, n) ==
  LET a == document.attachments[LastNamed(document, n)]
  IN IF LastNamed(document, n) = 0 \/ a.ext = NoExtension THEN None
     ELSE stored[<<a.id, a.ext>>]

\* searchDocument reads every file: one that cannot be read, or has no document,
\* makes it fail for all.
Searchable(d) == xml[d].kind \in {"none", "document"}

-----------------------------------------------------------------------------
(***************************************************************************)
(* Properties.                                                              *)
(***************************************************************************)

\* Another upload came in at the same millisecond with the same extension.
SameMillisecond(a) ==
  \E r \in Requests \ {a.from} :
    req[r].op = "upload" /\ req[r].id = a.id /\ req[r].ext = a.ext

\* An attachment with an extension that a document lists as the last one of its
\* name is what a download by that name returns, with the content that was
\* uploaded, unless two uploads share a millisecond: the file is there before the
\* document names it, and no removal reaches it.
AttachmentIntact ==
  \A d \in Times : xml[d].kind = "document" =>
    \A i \in DOMAIN xml[d].doc.attachments :
      LET a == xml[d].doc.attachments[i] IN
      (/\ a.ext # NoExtension /\ ~SameMillisecond(a)
       /\ \A j \in DOMAIN xml[d].doc.attachments :
            j > i => xml[d].doc.attachments[j].name # a.name)
        => ServedFor(xml[d].doc, a.name) = a.from

BeingWritten(d) == \E r \in Requests : req[r].step = "write" /\ req[r].doc = d

\* A write of document d was refused when its file was open already.
CutOff(d) == \E r \in Requests : req[r].step = "cut" /\ req[r].doc = d

\* As long as no two requests have had a document in their hands at the same
\* time, its file is what the answers given so far promise: nothing that was
\* acknowledged is lost, nothing that was refused has an effect. One exception: a
\* request that was refused while it wrote leaves no document at all (but never
\* another one than was promised).
SerialRequestsKept ==
  \A d \in Times :
    (~disturbed[d] /\ ~BeingWritten(d) /\ promised[d].kind = "document") =>
      \/ xml[d] = promised[d]
      \/ CutOff(d) /\ xml[d].kind \in {"torn", "empty"}

\* Between two requests, a search fails only because of a document that was
\* disturbed, or of which a write was cut off, or that was not there when a
\* removal was asked of it.
SearchWorks ==
  \A d \in Times :
    \/ Searchable(d)
    \/ disturbed[d] \/ BeingWritten(d) \/ CutOff(d)
    \/ promised[d].kind # "document" /\ \E r \in Requests : req[r].op = "remove" /\ req[r].doc = d

=============================================================================

------------------------------- MODULE Uploads -------------------------------
(***************************************************************************)
(* What POST /invoice-files accepts, and how the answers show a stored     *)
(* file.  Content is its beginning: a byte order mark, how the rest        *)
(* decodes, and its first characters as tokens.                            *)
(***************************************************************************)
EXTENDS Naturals, Sequences, SequencesExt, FiniteSets, FiniteSetsExt

CONSTANTS
    MaxBytes,   \* settings.invoice_file_max_bytes
    MaxName     \* characters of a stored file name (255)

XmlMimeTypes == {"application/xml", "text/xml"}
Signature(mime) ==
    CASE mime = "application/pdf" -> "%PDF-"
      [] mime = "image/png" -> "PNG"
      [] mime = "image/jpeg" -> "JPEG"
AllowedMimeTypes == XmlMimeTypes \cup {"application/pdf", "image/png", "image/jpeg"}

-----------------------------------------------------------------------------
(* Checks.                                                                 *)

White == "white"

\* The first token that is not white space, or "end".
FirstToken(tokens) ==
    LET solid == {n \in DOMAIN tokens : tokens[n] # White}
    IN  IF solid = {} THEN "end" ELSE tokens[Min(solid)]

\* A declaration, or a name right after the first "<".
LooksLikeXmlText(tokens) == FirstToken(tokens) \in {"<?xml", "<name"}

\* What if the declaration or the root were looked for anywhere?
LooksLikeXmlAnywhere(content) == \E n \in DOMAIN content.tokens : LooksLikeXmlText(<<content.tokens[n]>>)

\* UTF-16 is decoded after its byte order mark; without one, its zero bytes
\* are no XML to the check.
LooksLikeXml(content) ==
    CASE content.bom \in {"utf16le", "utf16be"} -> content.decodes /\ LooksLikeXmlText(content.tokens)
      [] OTHER -> content.encoding = "ascii" /\ LooksLikeXmlText(content.tokens)

CheckMagicBytes(content, mime) ==
    IF mime \in XmlMimeTypes THEN LooksLikeXml(content)
    ELSE content.bom = "none" /\ content.tokens # << >> /\ content.tokens[1] = Signature(mime)

\* The checks, in order, and the status they answer with.
Answer(upload) ==
    IF upload.size > MaxBytes THEN 413
    ELSE IF upload.mime \notin AllowedMimeTypes \/ ~CheckMagicBytes(upload.content, upload.mime)
    THEN 415
    ELSE 201

\* Names are sequences of characters.
Separators == {"/", "\\"}
BaseName(name) ==
    LET cuts == {n \in DOMAIN name : name[n] \in Separators}
    IN  IF cuts = {} THEN name ELSE SubSeq(name, Max(cuts) + 1, Len(name))
Upload == <<"u", "p", "l", "o", "a", "d">>

SanitizeFilename(name) ==
    LET safe == IF BaseName(name) = << >> THEN Upload ELSE BaseName(name)
    IN  SubSeq(safe, 1, Min({MaxName, Len(safe)}))

-----------------------------------------------------------------------------
(* Answers.                                                                *)

Nothing == "absent"

\* _coerce_*: a value of the provider's JSON that cannot be read is nothing.
CoerceStr(v)     == IF v \in {Nothing, "blank"} THEN Nothing ELSE v
CoerceDate(v)    == IF v = "date" THEN v ELSE Nothing
CoerceDecimal(v) == IF v \in {"number", "NaN"} THEN v ELSE Nothing

\* InvoiceFileResponse.from_model: the result, << >> when there is none, shows
\* only while COMPLETED.
FromModel(row) ==
    LET shown == row.status = "completed" /\ row.result # << >>
        r     == row.result
    IN  [status |-> row.status,
         vendor_name  |-> IF shown THEN CoerceStr(r.vendor_name) ELSE Nothing,
         invoice_date |-> IF shown THEN CoerceDate(r.invoice_date) ELSE Nothing,
         total_amount |-> IF shown THEN CoerceDecimal(r.total_amount) ELSE Nothing,
         currency     |-> IF shown THEN CoerceStr(r.currency) ELSE Nothing]

\* InvoiceFileRepository.get_by_id: another tenant's file is not found.
FileOf(rows, tenant, id) == {r \in rows : r.id = id /\ r.tenant = tenant}

GetExtractionStatus(rows, tenant, id) ==
    {[file |-> r.id, status |-> r.status, attempts |-> r.attempts, result |-> r.result, invoice |-> r.invoice] :
       r \in FileOf(rows, tenant, id)}
GetInvoiceFile(rows, storage, tenant, id) ==
    {storage[r.path] : r \in {r \in FileOf(rows, tenant, id) : r.path \in DOMAIN storage}}

\* list_all and count_all: a page of the newest files first, those of one time
\* in any order, then the total.
NewestFirst(rows) ==
    {s \in SetToSeqs(rows) : \A m, n \in DOMAIN s : m < n => s[m].created >= s[n].created}
Listed(rows, tenant, limit, offset) ==
    {SubSeq(s, offset + 1, Min({offset + limit, Len(s)})) :
       s \in NewestFirst({r \in rows : r.tenant = tenant})}
CountAll(rows, tenant) == Cardinality({r \in rows : r.tenant = tenant})
ListInvoiceFiles(rows, later, tenant, limit, offset) ==
    {[items |-> [n \in DOMAIN page |-> [id |-> page[n].id, shown |-> FromModel(page[n])]],
      total |-> CountAll(later, tenant)] : page \in Listed(rows, tenant, limit, offset)}
=============================================================================

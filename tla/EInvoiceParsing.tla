--------------------------- MODULE EInvoiceParsing ---------------------------
(***************************************************************************)
(* What the fast path reads from an uploaded e-invoice: detection of the   *)
(* format, the XML embedded in a PDF, and the fields of an invoice in UBL  *)
(* or CII.  A file is XML or a PDF or neither; a document gives each field *)
(* a reading: absent, blank, a word, a number, or not a number ("NaN" is a *)
(* decimal to Python, but not to the result's schema).                     *)
(***************************************************************************)
EXTENDS Naturals, Sequences, SequencesExt, FiniteSets, FiniteSetsExt

Absent == "absent"
None   == "none"
NoXml  == [root |-> None, doc |-> << >>]

XmlMimes == {"application/xml", "text/xml"}
Pdf      == "application/pdf"

-----------------------------------------------------------------------------
(* Detection.                                                              *)

\* The XML of the first attachment with a known name, whatever that XML is.
Embedded(file) ==
    LET known == {n \in DOMAIN file.attachments : file.attachments[n].known}
    IN  IF file.kind # "pdf" \/ known = {} THEN NoXml ELSE file.attachments[Min(known)].xml

XmlFormat(xml) ==
    CASE xml.root = "ubl" -> "xrechnung_ubl"
      [] xml.root = "cii" -> "xrechnung_cii"
      [] OTHER -> None     \* another root, or not well formed

\* mime is without parameters and in lower case.
Detect(file, mime) ==
    IF mime \in XmlMimes /\ file.kind = "xml" THEN XmlFormat(file.xml)
    ELSE IF mime = Pdf /\ Embedded(file) # NoXml THEN "zugferd_pdf"
    ELSE None

-----------------------------------------------------------------------------
(* Fields.                                                                 *)

\* _text: an empty element is like none.
Reading(value) == IF value = "blank" THEN Absent ELSE value

\* _to_decimal, _to_date: what they accept.
IsDecimal(value) == value \in {"number", "NaN"}
IsDate(value)    == value = "date"

\* _optional_decimal: unreadable numbers of a line are dropped.
OptionalDecimal(value) == IF IsDecimal(value) THEN value ELSE None

Required == <<"invoice_number", "vendor_name", "invoice_date", "total_amount",
              "net_amount", "tax_amount", "currency">>
Amounts  == {"total_amount", "net_amount", "tax_amount"}

\* UBL falls back on the sum of the lines when the net total is missing.
UblFields(doc) ==
    [f \in ToSet(Required) |->
        IF f = "net_amount" /\ Reading(doc[f]) = Absent
        THEN Reading(doc.line_extension) ELSE Reading(doc[f])]
CiiFields(doc) == [f \in ToSet(Required) |-> Reading(doc[f])]

\* A line without a description is left out.
Line(l) == [description |-> l.description, price |-> OptionalDecimal(Reading(l.price))]
Lines(doc) ==
    FoldLeft(LAMBDA lines, l : IF Reading(l.description) = Absent THEN lines
                               ELSE Append(lines, Line(l)),
             << >>, doc.lines)

\* ZugferdProfile.from_urn
Profile(doc) == IF doc.profile \in {"minimum", "basic_wl", "basic", "en16931", "extended", "xrechnung"}
                THEN doc.profile ELSE None

\* ExtractedLineItem and ExtractedInvoiceData accept finite numbers only.
ValidLines(lines)   == \A n \in DOMAIN lines : lines[n].price # "NaN"
ValidFields(fields) == \A f \in Amounts : fields[f] # "NaN"

Raised(error) == [outcome |-> error, fields |-> << >>, lines |-> << >>, profile |-> None]

\* EinvoiceParseError for what is missing or cannot be converted; in between,
\* when the lines are built, and in the end a ValidationError, which is no
\* EinvoiceParseError.
Parsed(fields, lines, profile) ==
    IF \E f \in DOMAIN fields : fields[f] = Absent THEN Raised("parse_error")
    ELSE IF ~ValidLines(lines) THEN Raised("validation_error")
    ELSE IF ~IsDate(fields["invoice_date"]) \/ \E f \in Amounts : ~IsDecimal(fields[f])
    THEN Raised("parse_error")
    ELSE IF ~ValidFields(fields) THEN Raised("validation_error")
    ELSE [outcome |-> "parsed", fields |-> fields, lines |-> lines, profile |-> profile]

ParseUbl(doc) == Parsed(UblFields(doc), Lines(doc), Profile(doc))
ParseCii(doc) == Parsed(CiiFields(doc), Lines(doc), Profile(doc))

Parse(xml, format) ==
    IF xml.root = "malformed" THEN Raised("parse_error")
    ELSE CASE format = "xrechnung_ubl" -> ParseUbl(xml.doc)
           [] format = "xrechnung_cii" -> ParseCii(xml.doc)
           [] OTHER -> Raised("unsupported")

-----------------------------------------------------------------------------
(* try_extract, up to the parsed data: NotHandled when it returns None,    *)
(* otherwise the method and what was parsed, or the ValidationError that   *)
(* escapes it.                                                             *)

NotHandled == [method |-> None, result |-> Raised(None)]
Handled(method, result) ==
    IF result.outcome = "parse_error" THEN NotHandled ELSE [method |-> method, result |-> result]

\* What if the embedded document were parsed in the format of the file?
TryExtractOuter(file, mime) ==
    LET format == Detect(file, mime)
    IN  CASE format = None -> NotHandled
          [] format = "zugferd_pdf" -> Handled("zugferd_v2", Parse(Embedded(file), format))
          [] OTHER -> Handled(format, Parse(file.xml, format))

TryExtract(file, mime) ==
    LET format == Detect(file, mime)
        inner == Detect([kind |-> "xml", xml |-> Embedded(file), attachments |-> << >>],
                        "application/xml")
    IN  CASE format = None -> NotHandled
          [] format = "zugferd_pdf" ->
                 IF inner \in {"xrechnung_ubl", "xrechnung_cii"}
                 THEN Handled("zugferd_v2", Parse(Embedded(file), inner)) ELSE NotHandled
          [] OTHER -> Handled(format, Parse(file.xml, format))

=============================================================================

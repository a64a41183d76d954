------------------------------- MODULE Content -------------------------------
(***************************************************************************)
(* From bytes to the components of a message: FileInspector (server/       *)
(* detection/file_inspector.py), the normaliser of the HTTP gateway        *)
(* (network/content_normalizer.py) and ParsedMessage (server/detection/    *)
(* models.py).                                                             *)
(*                                                                         *)
(* Abstracted: a text is a sequence of items, what is between its          *)
(* separators; the empty one is a text that strip() makes empty.  An item  *)
(* is a value under encodings, outermost first, and may stand inside a     *)
(* script or style element, which only matters where HTML is stripped.  A  *)
(* file is a format and its parts in the order in which they are read;     *)
(* reading a broken part raises.                                           *)
(***************************************************************************)
EXTENDS Integers, Sequences, FiniteSets, SequencesExt

CONSTANTS
  Files,     \* files, with those that are attached to them
  Nesting,   \* per file: how deep files are attached in it
  MaxText,   \* MAX_COMPONENT_TEXT, in items
  Passes     \* max_depth of normalize

Sequence(s) == s \in Seq(ToSet(s))
Attached == {"string", "bytes", "message"}     \* the kinds of parts that are files
Bodies == {"plain", "markup"}                  \* and those that are bodies of a mail

\* "short" is a base64 text below _MIN_B64_LENGTH, which is never decoded.
Encodings == {"url", "html", "base64", "short"}
Item(value, code, hidden) == [value |-> value, code |-> code, hidden |-> hidden]

IsText(text) ==
  /\ Sequence(text)
  /\ \A x \in ToSet(text) :
       x = Item(x.value, x.code, x.hidden) /\ x.code \in Seq(Encodings) /\ x.hidden \in BOOLEAN
IsFile(f) ==
  /\ Sequence(f.parts)
  /\ \A p \in ToSet(f.parts) : {"kind", "text", "broken"} \subseteq DOMAIN p /\ IsText(p.text) /\ p.broken \in BOOLEAN

\* Only mails have bodies, and files attached, instead of text of their own or with it
\* ("string"); and the text of an HTML file is one part.
Handled == {"paged", "html", "eml"}     \* the formats of _HANDLERS
Formats == Handled \cup {"text", "binary", "large"}
IsDocumentFile(f) ==
  /\ f.format \in Formats
  /\ f.format = "html" => Len(f.parts) = 1
  /\ \A p \in ToSet(f.parts) : /\ p.kind \in Bodies \cup Attached => f.format = "eml"
                               /\ p.kind \in {"bytes", "message"} => p.text = << >>

\* What is attached to a file is a file, less deep.
ASSUME FilesAssumption ==
  \A f \in Files :
    /\ IsFile(f) /\ IsDocumentFile(f) /\ Nesting[f] \in Nat
    /\ \A p \in ToSet(f.parts) : p.kind \in Attached => p.inner \in Files /\ Nesting[p.inner] < Nesting[f]
ASSUME BoundsAssumption == MaxText \in Nat /\ Passes \in Nat

Types == {"envelope", "subject", "body", "attachment", "generic"}
\* note: why the text is not what the file holds, "none" if it is.  file: what the
\* metadata tell of the file, [mime, ext, name, size], a sequence of one or none.
Component(type, text, note, file) == [type |-> type, text |-> text, note |-> note, file |-> file]

Truncated(text) == SubSeq(text, 1, Min({Len(text), MaxText}))
TextComponent(type, text) ==
  Component(type, Truncated(text), IF Len(text) > MaxText THEN "truncated" ELSE "none", << >>)

\* A component without the bytes of its file has the file's name.
Unseen(meta) == [meta EXCEPT !.mime = "octet-stream", !.size = 0]

\* The members of s in these positions, in their order.
Picked(s, positions) ==
  FlattenSeq([i \in DOMAIN s |-> IF i \in positions THEN <<s[i]>> ELSE << >>])

\* _HTMLTextExtractor.get_text
Stripped(text) == Picked(text, {i \in DOMAIN text : ~text[i].hidden})

\* The parts read before the first broken one.
Readable(parts) == Picked(parts, {i \in DOMAIN parts : \A j \in 1..i : ~parts[j].broken})

\* _extract_pdf, _extract_docx, _extract_xlsx, _extract_pptx: a page, a sheet, a slide
\* or a table with text is a component of its own.
Pages_(parts) ==                        \* a mutant: the first page only
  IF parts = << >> THEN << >> ELSE <<TextComponent("body", parts[1].text)>>
Pages(parts) ==
  LET read == Readable(parts)   text == Picked(read, {i \in DOMAIN read : read[i].text # << >>})
  IN [i \in DOMAIN text |-> TextComponent("body", text[i].text)]

Joined(components) == FlattenSeq([i \in DOMAIN components |-> components[i].text])

\* _extract_html
HtmlPage(parts) == Pages(<<[Head(parts) EXCEPT !.text = Stripped(@)]>>)

TypeOf(part) ==
  CASE part.kind \in Bodies -> "body" [] part.kind \in Attached -> "attachment"
    [] OTHER -> part.kind

\* get_body(preferencelist=("plain", "html")) takes the first plain text, or the first HTML
\* where there is none, and iter_attachments leaves bodies out: the other bodies are never
\* read.
PassedOver(parts) ==
  {i \in DOMAIN parts : parts[i].kind \in Bodies /\ \E j \in DOMAIN parts :
     \/ parts[j].kind = "plain" /\ parts[i].kind = "markup"
     \/ parts[j].kind = parts[i].kind /\ j < i}

\* Envelope and subject are not truncated.
MailPart(part) ==
  IF part.kind \notin Bodies \cup Attached THEN Component(part.kind, part.text, "none", << >>)
  ELSE [TextComponent(TypeOf(part), part.text) EXCEPT
          !.file = IF part.kind \in Attached THEN <<part.inner.meta>> ELSE << >>]
\* _extract_eml: envelope, subject and body if there is text, and every attachment.
MailParts(parts) ==
  LET read == Readable(parts)
      there == Picked(read, {i \in DOMAIN read : read[i].text # << >> \/ read[i].kind \in Attached})
  IN [i \in DOMAIN there |-> MailPart(there[i])]

(***************************************************************************)
(* FileInspector.inspect: the components, and whether it raises.  A        *)
(* handler that raises leaves the components it has added and a            *)
(* placeholder; a plain text whose detected encoding Python does not know  *)
(* raises to the caller.  An attachment of a mail that is not text is      *)
(* inspected in its turn and the texts found are joined; what goes wrong   *)
(* in it leaves no note in the mail, except that raising ends the mail.  A *)
(* mail attached to a mail ("message") is neither text nor bytes: nothing  *)
(* of it is read.                                                          *)
(***************************************************************************)
Nothing == [components |-> << >>, raised |-> FALSE]
OpenedPart(part, inner) ==
  [part EXCEPT !.broken = @ \/ inner.raised,
               !.text = CASE part.kind = "bytes" -> Joined(inner.components)
                          [] part.kind = "message" -> << >>
                          [] part.kind = "markup" -> Stripped(@)
                          [] OTHER -> @]
Extracted(f, opened) ==
  CASE f.format \in {"paged", "text"} -> Pages(f.parts)
    [] f.format = "html" -> HtmlPage(f.parts)
    [] f.format = "eml" -> MailParts(opened)
    [] f.format = "binary" -> <<Component("attachment", << >>, "unsupported", <<f.meta>>)>>
    [] f.format = "large" -> <<Component("generic", << >>, "large", << >>)>>
Failed == Component("generic", << >>, "failed", << >>)
WithName(f, components) ==
  [i \in DOMAIN components |-> IF components[i].file # << >> THEN components[i]
                               ELSE [components[i] EXCEPT !.file = <<Unseen(f.meta)>>]]
OpenedParts(parts, inner) ==
  [i \in DOMAIN parts |-> IF i \in PassedOver(parts) THEN [parts[i] EXCEPT !.text = << >>, !.broken = FALSE]
                          ELSE OpenedPart(parts[i], inner[i])]
\* The outcome for f, given those for what is attached to it.
Inspection(f, inner) ==
  LET opened == OpenedParts(f.parts, inner)
      broken == \E i \in DOMAIN opened : opened[i].broken
      found == Extracted(f, opened)
  IN [components |-> WithName(f, IF f.format \in Handled /\ broken THEN Append(found, Failed) ELSE found),
      raised |-> f.format = "text" /\ broken]
Inspect[f \in Files] ==
  Inspection(f, [i \in DOMAIN f.parts |-> IF f.parts[i].kind = "bytes" THEN Inspect[f.parts[i].inner] ELSE Nothing])

-----------------------------------------------------------------------------
(* The normaliser.                                                         *)

\* One decoder on one item: it takes off the outermost encoding if that is its own.
Off(code, kind) == IF code # << >> /\ Head(code) = kind THEN Tail(code) ELSE code
\* _decode_pass: URL, then HTML entities, then base64.  unquote and unescape take off
\* one layer, whatever is below it.
DecodePass(text) ==
  [i \in DOMAIN text |-> [text[i] EXCEPT !.code = Off(Off(Off(@, "url"), "html"), "base64")]]

\* What the first passes make of the text.
Decoded(text, depth) ==
  LET made[k \in 0..depth] == IF k = 0 THEN text ELSE DecodePass(made[k - 1])
  IN made[depth]
\* normalize: the text and what each pass makes of it, until one changes nothing.
Normalize(text) ==
  LET ends == {k \in 0..Passes : k = Passes \/ Decoded(text, k + 1) = Decoded(text, k)}
  IN [k \in 1..Min(ends) + 1 |-> Decoded(text, k - 1)]
=============================================================================

----------------------------- MODULE CgiOutput -----------------------------
(***************************************************************************)
(* What the gateway makes of the output of git http-backend: one search    *)
(* for CR LF CR LF, if it fails one for LF LF, then header lines and body. *)
(* git ends its lines with CR LF and packs follow, which may hold any      *)
(* byte; both searches run over the body as well.  A header line is one    *)
(* symbol here, a byte of a body CR, LF or another.                        *)
(***************************************************************************)
EXTENDS SequencesExt

CONSTANTS
  MaxLines,  \* bound: lines of a header
  MaxBody    \* bound: bytes of a body

VARIABLES
  output,    \* standard output of git http-backend
  search,    \* "idle", "crlf", "lf", "found", "absent", "answered", "failed"
  position,  \* where the separator is looked for
  response,  \* [status, headers, body]; the headers by how often each came
  meant      \* history: what git wrote, in parts

cgiVars == <<output, search, position, response, meant>>

StatusLine == "Status: 404 Not Found"
Field == {"Content-Type: text/plain"}
HeaderLine == {StatusLine} \cup Field
Byte == {"CR", "LF", "byte"}
CrLf == <<"CR", "LF">>
Lf == <<"LF">>

Separator(eol) == eol \o eol

(* What git writes: lines, an empty line, the body.                        *)
Meant ==
  [lines : BoundedSeq(HeaderLine, MaxLines) \ {<< >>}, eol : {CrLf, Lf},
   body : BoundedSeq(Byte, MaxBody)]

Written(m) ==
  FlattenSeq([i \in DOMAIN m.lines |-> <<m.lines[i]>> \o m.eol])
    \o m.eol \o m.body

NoHeaders == [field \in Field |-> 0]
Nothing == [status |-> 0, headers |-> NoHeaders, body |-> << >>]
Unwritten == [lines |-> << >>, eol |-> CrLf, body |-> << >>]
-----------------------------------------------------------------------------
CgiInit ==
  /\ output = << >>
  /\ search = "idle"
  /\ position = 1
  /\ response = Nothing
  /\ meant = Unwritten

(* GitHttpBackend.handle: the process ends well, with a header or without, *)
Run ==
  /\ search = "idle"
  /\ \E m \in Meant :
        \/ meant' = m /\ output' = Written(m)
        \/ meant' = [Unwritten EXCEPT !.body = m.body] /\ output' = m.body
  /\ search' = "crlf"
  /\ UNCHANGED <<position, response>>

(* or it fails, and stderr is the answer.                                  *)
RunFails ==
  /\ search = "idle"
  /\ search' = "failed"
  /\ response' = [Nothing EXCEPT !.status = 500]
  /\ UNCHANGED <<output, position, meant>>

(* The bytes from a position on that are compared with a separator         *)
At(i, eol) == SubSeq(output, i, i + Len(Separator(eol)) - 1)

(* Mutant: index < output.length - 4                                       *)
InReachShort(i, eol) == i < Len(output) - Len(Separator(eol)) + 1

(* index < output.length - 3, and - 1 for LF LF; indexes begin with 1 here *)
InReach(i, eol) == i <= Len(output) - Len(Separator(eol)) + 1

(* findHeaderSeparator: one step of a loop; at its end the next begins.    *)
Look(name, eol, next) ==
  /\ search = name
  /\ IF InReach(position, eol)
       THEN IF At(position, eol) = Separator(eol)
              THEN search' = "found" /\ UNCHANGED position
              ELSE position' = position + 1 /\ UNCHANGED search
       ELSE search' = next /\ position' = 1
  /\ UNCHANGED <<output, response, meant>>

LookForCrLf == Look("crlf", CrLf, "lf")
LookForLf == Look("lf", Lf, "absent")

(* toResponse without a separator                                          *)
AnswerAll ==
  /\ search = "absent"
  /\ search' = "answered"
  /\ response' = [status |-> 200, headers |-> NoHeaders, body |-> output]
  /\ UNCHANGED <<output, position, meant>>

(* toResponse: the first byte tells which separator was found; lines that  *)
(* are no header are passed over, Status is not a header, and a field that *)
(* comes again is appended to.                                             *)
Found == IF output[position] = "CR" THEN CrLf ELSE Lf

HeadersOf(text) ==
  [field \in Field |-> Cardinality({i \in DOMAIN text : text[i] = field})]

StatusOf(text) == IF Contains(text, StatusLine) THEN 404 ELSE 200

AnswerParts ==
  LET head == SubSeq(output, 1, position - 1) IN
  /\ search = "found"
  /\ search' = "answered"
  /\ response' = [status |-> StatusOf(head), headers |-> HeadersOf(head),
                  body |-> SubSeq(output,
                                  position + Len(Separator(Found)),
                                  Len(output))]
  /\ UNCHANGED <<output, position, meant>>

CgiNext == \/ Run \/ RunFails \/ LookForCrLf \/ LookForLf
           \/ AnswerAll \/ AnswerParts

CgiSpec == CgiInit /\ [][CgiNext]_cgiVars
-----------------------------------------------------------------------------
CgiTypeOK ==
  /\ output \in Seq(HeaderLine \cup Byte)
  /\ search \in {"idle", "crlf", "lf", "found", "absent", "answered", "failed"}
  /\ position \in 1..(Len(output) + 1)
  /\ response.status \in {0, 200, 404, 500}
  /\ response.headers \in [Field -> Nat]
  /\ response.body \in Seq(HeaderLine \cup Byte)

Holds(bytes, part) ==
  \E i \in 1..(Len(bytes) - Len(part) + 1) :
    SubSeq(bytes, i, i + Len(part) - 1) = part

(* The bodies that a search for the end of the header may stumble over:    *)
(* the first search goes through the whole output.                         *)
Misleading(m) ==
  IF m.lines = << >> THEN Holds(m.body, CrLf \o CrLf) \/ Holds(m.body, Lf \o Lf)
                     ELSE m.eol = Lf /\ Holds(m.body, CrLf \o CrLf)

(* A response carries the header lines git wrote, its status, and its body *)
(* byte for byte, whatever the body holds and when it is empty.  Only a    *)
(* header with bare LF needs a body without CR LF CR LF, and an output     *)
(* without header a body without either separator.                         *)
ResponseIsExact ==
  search = "answered" /\ ~Misleading(meant) =>
    response = [status |-> StatusOf(meant.lines),
                headers |-> HeadersOf(meant.lines),
                body |-> meant.body]
=============================================================================

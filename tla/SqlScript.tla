----------------------------- MODULE SqlScript -----------------------------
(***************************************************************************)
(* How the libSQL driver executes a text of several statements: one pass   *)
(* over its characters cuts it at the semicolons outside quoted text, and  *)
(* one request carries the pieces to the database, which runs them one by  *)
(* one without a transaction.  The texts are those the repositories build: *)
(* fixed words and values quoted by quoteSqlText.  The characters are the  *)
(* four the pass tells apart, and any other one.                           *)
(***************************************************************************)
EXTENDS SequencesExt, FiniteSetsExt

CONSTANT MaxValue   \* bound: characters of a quoted value

VARIABLES
  sql,            \* the text being executed, << >> for none
  index,          \* the position of the next character
  current,        \* the statement being collected
  inSingleQuote,
  statements,     \* the statements found
  outcome,        \* "idle", "scanning", "sending", "returned", "thrown"
  intended,       \* history: the statements the caller wrote
  executed        \* history: positions of the statements the database ran

sqlVars == <<sql, index, current, inSingleQuote, statements, outcome,
             intended, executed>>

Character == {"quote", "semicolon", "space", "other"}

(* String.trim                                                             *)
Trim(text) ==
  LET kept == {i \in DOMAIN text : text[i] # "space"} IN
  IF kept = {} THEN << >> ELSE SubSeq(text, Min(kept), Max(kept))

QuoteSqlText(value) ==
  <<"quote">>
    \o FlattenSeq([i \in DOMAIN value |->
                     IF value[i] = "quote" THEN <<"quote", "quote">>
                                           ELSE <<value[i]>>])
    \o <<"quote">>

Values == BoundedSeq(Character, MaxValue)

(* A statement with one value, or nothing but white space.                 *)
Texts ==
  {<<"space">>}
    \cup {<<"space", "other">> \o QuoteSqlText(v) \o <<"space">> : v \in Values}

(* A statement is kept when trim leaves something of it.                   *)
Adding(list, text) ==
  IF Trim(text) = << >> THEN list ELSE Append(list, Trim(text))

Intended(first, second) == Adding(Adding(<< >>, first), second)
-----------------------------------------------------------------------------
SqlInit ==
  /\ sql = << >>
  /\ index = 1
  /\ current = << >>
  /\ inSingleQuote = FALSE
  /\ statements = << >>
  /\ outcome = "idle"
  /\ intended = << >>
  /\ executed = {}

(* execute(statement): statements that end with a semicolon, but for the   *)
(* last, which may do without.                                             *)
Terminated(text) == Append(text, "semicolon")

Execute ==
  /\ outcome = "idle"
  /\ \E first, last \in Texts, closed \in BOOLEAN :
        LET tail == IF closed THEN Terminated(last) ELSE last IN
        /\ sql' = Terminated(first) \o tail
        /\ intended' = Intended(Terminated(first), tail)
  /\ outcome' = "scanning"
  /\ UNCHANGED <<index, current, inSingleQuote, statements, executed>>

Following(i) == IF i + 1 \in DOMAIN sql THEN sql[i + 1] ELSE "none"

(* Two quotes inside a quoted text                                         *)
IsDoubledQuote(i) ==
  /\ sql[i] = "quote"
  /\ inSingleQuote
  /\ Following(i) = "quote"

(* Mutant: the second quote is passed over and not collected.              *)
ScanDoubledQuoteOnce ==
  /\ IsDoubledQuote(index)
  /\ current' = Append(current, "quote")
  /\ index' = index + 2
  /\ UNCHANGED <<inSingleQuote, statements>>

ScanDoubledQuote ==
  /\ IsDoubledQuote(index)
  /\ current' = current \o <<"quote", "quote">>
  /\ index' = index + 2
  /\ UNCHANGED <<inSingleQuote, statements>>

ScanQuote ==
  /\ sql[index] = "quote"
  /\ ~IsDoubledQuote(index)
  /\ current' = Append(current, "quote")
  /\ inSingleQuote' = ~inSingleQuote
  /\ index' = index + 1
  /\ UNCHANGED statements

Found(text) == Adding(statements, text)

ScanSemicolon ==
  /\ sql[index] = "semicolon"
  /\ ~inSingleQuote
  /\ statements' = Found(Terminated(current))
  /\ current' = << >>
  /\ index' = index + 1
  /\ UNCHANGED inSingleQuote

ScanOther ==
  /\ sql[index] # "quote"
  /\ ~(sql[index] = "semicolon" /\ ~inSingleQuote)
  /\ current' = Append(current, sql[index])
  /\ index' = index + 1
  /\ UNCHANGED <<inSingleQuote, statements>>

Scan ==
  /\ outcome = "scanning"
  /\ index \in DOMAIN sql
  /\ ScanDoubledQuote \/ ScanQuote \/ ScanSemicolon \/ ScanOther
  /\ UNCHANGED <<sql, outcome, intended, executed>>

(* The tail is a statement as well; without any statement nothing is sent. *)
EndScan ==
  /\ outcome = "scanning"
  /\ index \notin DOMAIN sql
  /\ statements' = Found(current)
  /\ outcome' = IF Found(current) = << >> THEN "returned" ELSE "sending"
  /\ UNCHANGED <<sql, index, current, inSingleQuote, intended, executed>>

(* request: the database runs some of the statements; the driver throws    *)
(* when the response is not ok or holds an error.  A server is taken to    *)
(* report every statement that it did not run.                             *)
Send ==
  /\ outcome = "sending"
  /\ executed' \in SUBSET DOMAIN statements
  /\ \E ok \in BOOLEAN :
        outcome' = IF ok /\ executed' = DOMAIN statements THEN "returned"
                                                           ELSE "thrown"
  /\ UNCHANGED <<sql, index, current, inSingleQuote, statements, intended>>

SqlNext == Execute \/ Scan \/ EndScan \/ Send

SqlSpec == SqlInit /\ [][SqlNext]_sqlVars
-----------------------------------------------------------------------------
SqlTypeOK ==
  /\ sql \in Seq(Character)
  /\ index \in 1..(Len(sql) + 1)
  /\ current \in Seq(Character)
  /\ inSingleQuote \in BOOLEAN
  /\ statements \in Seq(Seq(Character))
  /\ outcome \in {"idle", "scanning", "sending", "returned", "thrown"}
  /\ intended \in Seq(Seq(Character))
  /\ executed \subseteq DOMAIN statements

(* Whatever the values hold, quotes and semicolons included, the pass      *)
(* finds the statements the caller wrote, no more, no fewer, none cut or   *)
(* changed; and a call that returns has run them all.                      *)
ScriptIsRunAsWritten ==
  /\ outcome \in {"sending", "returned", "thrown"} => statements = intended
  /\ outcome = "returned" => executed = DOMAIN intended
=============================================================================

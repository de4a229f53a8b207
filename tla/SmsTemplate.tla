------------------------------ MODULE SmsTemplate ------------------------------
(***************************************************************************)
(* The SMS template language (backend/internal/smsparser/compiler.go): what *)
(* a merchant may write, what it compiles to, and what a match yields.      *)
(*                                                                         *)
(* A text is a sequence of lexemes: braces, a question mark, blanks, names  *)
(* of fields, named groups of a regular expression, and other text, byte by *)
(* byte.  What a pattern finds in a body is RE2's part and an argument      *)
(* here: for each field what its group captured, or NULL when it took no    *)
(* part.                                                                    *)
(*                                                                         *)
(* A definition Name_Bug is Name with one plausible bug, kept beside it to  *)
(* show that the properties notice; nothing refers to it.                   *)
(***************************************************************************)
EXTENDS Naturals, Sequences, SequencesExt

CONSTANTS
  NULL,              \* SQL NULL, nil
  Unusable,          \* a value no field can take: empty, or no number where one is due
  maxTemplateLength  \* the longest template, in bytes

ASSUME SmsTemplateAssumption == NULL # Unusable /\ maxTemplateLength \in Nat

FieldNames == {"amount", "sender", "trxId", "balance"}
Required   == {"amount", "trxId"}

\* Named groups of a regular expression, a group of another name, a parenthesis
\* that is never closed.
Group   == [amount |-> "(?P<amount>", sender |-> "(?P<sender>",
            trxId |-> "(?P<trxId>", balance |-> "(?P<balance>"]
Groups  == {Group[f] : f \in FieldNames} \cup {"(?P<other>"}
Lexemes == FieldNames \cup Groups \cup {"{", "}", "?", " ", "(", "word"}

\* The bytes of a lexeme; "word" is one byte of other text.
Bytes(x) ==
  CASE x \in {"amount", "sender"}               -> 6
    [] x = "trxId"                              -> 5
    [] x = "balance"                            -> 7
    [] x \in {Group["amount"], Group["sender"]} -> 11
    [] x \in {Group["trxId"], "(?P<other>"}     -> 10
    [] x = Group["balance"]                     -> 12
    [] OTHER                                    -> 1

ByteLength(s) ==
  LET upto[i \in 0 .. Len(s)] == IF i = 0 THEN 0 ELSE upto[i - 1] + Bytes(s[i])
  IN upto[Len(s)]

\* ErrTemplateTooLong.
TooLong_AtLimit(s) == ByteLength(s) >= maxTemplateLength
TooLong(s) == ByteLength(s) > maxTemplateLength

\* normalizeText: runs of blanks become one, those at the ends none.
Kept(s, i) ==
  s[i] # " " \/ (i > 1 /\ s[i - 1] # " " /\ \E j \in i + 1 .. Len(s) : s[j] # " ")

normalizeText(s) ==
  LET keep[i \in 0 .. Len(s)] ==
        IF i = 0 THEN <<>>
        ELSE IF Kept(s, i) THEN Append(keep[i - 1], s[i]) ELSE keep[i - 1]
  IN keep[Len(s)]

Placeholder(f, optional) == [field |-> f, optional |-> optional]
Literal == Placeholder("", FALSE)
Bad     == Placeholder("invalid", FALSE)

\* What the braces around a name stand for.
Named(name) ==
  CASE Len(name) = 1 /\ name[1] \in FieldNames -> Placeholder(name[1], FALSE)
    [] Len(name) = 2 /\ name[1] \in FieldNames /\ name[2] = "?" ->
         Placeholder(name[1], TRUE)
    [] OTHER -> Bad

\* Two placeholders with nothing between them have no boundary.
Adjacent_Allowed(tok, rest) == FALSE
Adjacent(tok, rest) == rest # <<>> /\ tok # Literal /\ Head(rest) # Literal

\* The tokens from position i on, given those from every later one, with a Bad
\* one where the code returns an error: a placeholder reaches from its brace to
\* the next closing one, a closing one elsewhere is an error, and the rest up to
\* the next brace is one literal.
Ends(s, i) == {j \in i + 1 .. Len(s) : s[j] = "}"}

Scan(s, i, from) ==
  CASE i > Len(s)  -> <<>>
    [] i <= Len(s) /\ s[i] = "}" -> <<Bad>>
    [] i <= Len(s) /\ s[i] = "{" ->
         IF Ends(s, i) = {} THEN <<Bad>>
         ELSE LET j    == Min(Ends(s, i))
                  tok  == Named(SubSeq(s, i + 1, j - 1))
                  rest == from[j + 1]
              IN IF Adjacent(tok, rest) THEN <<Bad>> ELSE <<tok>> \o rest
    [] OTHER -> LET rest == from[i + 1] IN
         IF rest # <<>> /\ Head(rest) = Literal THEN rest ELSE <<Literal>> \o rest

tokensFrom(s) == LET from[i \in 1 .. Len(s) + 1] == Scan(s, i, from) IN from
tokenize(s)   == tokensFrom(s)[1]

\* A compilation that fails; its reason is not kept.
Invalid == [f \in {} |-> FALSE]

FieldsOf(tokens) == {tokens[i].field : i \in 1 .. Len(tokens)} \ {""}

\* regexp.Compile refuses a group name used twice.
Repeats(tokens) ==
  \E i, j \in 1 .. Len(tokens) :
    i # j /\ tokens[i].field = tokens[j].field /\ tokens[i] # Literal

\* Compile: the fields a match may capture, each with whether it always does.
Compile(s) ==
  LET tokens == tokenize(normalizeText(s)) IN
  IF \/ TooLong(normalizeText(s))
     \/ Bad.field \in FieldsOf(tokens)
     \/ ~(Required \subseteq FieldsOf(tokens))
     \/ Repeats(tokens)
  THEN Invalid
  ELSE [f \in FieldsOf(tokens) |-> Contains(tokens, Placeholder(f, FALSE))]

\* CompileRegex: whether a group always takes part is not known.
CompileRegex(s) ==
  LET named == {f \in FieldNames : Contains(s, Group[f])}
      twice == \E i, j \in 1 .. Len(s) : i # j /\ s[i] = s[j] /\ s[i] \in Groups
  IN IF \/ TooLong(normalizeText(s))
        \/ Contains(s, "(") \/ twice
        \/ Contains(s, "(?P<other>")
        \/ ~(Required \subseteq named)
     THEN Invalid
     ELSE [f \in named |-> FALSE]

compileByMode(mode, s) == IF mode = "regex" THEN CompileRegex(s) ELSE Compile(s)

\* The pattern kept with a template: equal only for one mode and one text up to
\* blanks.
PatternOf(mode, s) == <<mode, normalizeText(s)>>

--------------------------------------------------------------------------------
\* Match.  `groups` is NULL when the pattern is not found in the body, else
\* groups[f] is what the group of field f captured: NULL when it took no part,
\* Unusable when that is empty or parseAmount makes no number of it.

Match(groups) ==
  IF groups = NULL THEN "none"
  ELSE IF \/ \E f \in FieldNames : groups[f] = Unusable
          \/ \E f \in Required : groups[f] = NULL
  THEN "error"
  ELSE "fields"

--------------------------------------------------------------------------------
\* The reference: what the language allows, told by where the braces are rather
\* than by a scan.

\* Braces come in pairs around a known name, which may end in "?"; between two
\* placeholders there is something; amount and trxId occur; no field occurs twice;
\* blanks apart, it is not longer than maxTemplateLength bytes.
Braces(s) == {i \in 1 .. Len(s) : s[i] \in {"{", "}"}}
Opens(s)  == {i \in 1 .. Len(s) : s[i] = "{"}
Pairs(s)  == {ij \in Opens(s) \X (Braces(s) \ Opens(s)) :
                ij[1] < ij[2] /\ \A k \in Braces(s) : ~(ij[1] < k /\ k < ij[2])}

PlaceholdersOf(text) ==
  LET s == normalizeText(text) IN {s[ij[1] + 1] : ij \in Pairs(s)}

Grammatical(text) ==
  LET s == normalizeText(text) IN
  /\ \A i \in Opens(s) : \E ij \in Pairs(s) : ij[1] = i
  /\ \A j \in Braces(s) \ Opens(s) : \E ij \in Pairs(s) : ij[2] = j
  /\ \A ij \in Pairs(s) :
       /\ ij[2] - ij[1] = 2 \/ (ij[2] - ij[1] = 3 /\ s[ij[2] - 1] = "?")
       /\ s[ij[1] + 1] \in FieldNames
       /\ ij[2] + 1 \notin Opens(s)
  /\ Required \subseteq PlaceholdersOf(text)
  /\ \A p, q \in Pairs(s) : s[p[1] + 1] = s[q[1] + 1] => p = q
  /\ ByteLength(s) <= maxTemplateLength
================================================================================

----------------------------- MODULE MCTemplates -----------------------------
(***************************************************************************)
(* Small instances of Templates.                                           *)
(***************************************************************************)
EXTENDS Templates, TLC

CONSTANTS b1, b2, admin, i1, i2, i3, p1, p2, a1, a2

Credited == <<"word", " ", "{", "amount", "}", " ", "{", "trxId", "}">>
AsGroups == <<"(?P<amount>", "word", "(?P<trxId>">>
NoTrxId  == <<"{", "amount", "}">>

OneBuiltin == <<[name |-> "bKash", text |-> Credited]>>

In(text, mode, direction, priority, script) ==
  [name |-> "bKash", text |-> text, mode |-> mode, direction |-> direction,
   priority |-> priority, script |-> script]

\* A body that leaves out what it can, a regular expression for cash-outs with
\* a priority out of range, and two bodies to refuse.
Bodies == {In(Credited, NULL, NULL, NULL, NULL),
           In(AsGroups, "regex", "debit", -1, "valid"),
           In(NoTrxId, "template", NULL, 0, NULL),
           In(Credited, "template", "credit", 0, "invalid")}

\* Every text of up to seven lexemes out of five, every text of up to four
\* pieces, among them optional, nameless and unbalanced placeholders, every text
\* of up to five pieces in which placeholders may be repeated, and texts of either
\* mode with up to six bytes of blanks and other text behind them, which may take
\* them to the limit and beyond.
ShortTexts == UNION {[1 .. n -> {"{", "}", " ", "amount", "trxId"}] : n \in 0 .. 7}

Pieces == {<<"{", f, "}">> : f \in {"amount", "trxId", "balance", "?"}}
            \cup {<<"{", f, "?", "}">> : f \in {"amount", "trxId"}}
            \cup {<<"word">>, <<" ">>, <<"{">>, <<"}">>}
Spaced == {<<"{", "amount", "}">>, <<"{", "trxId", "}">>, <<" ">>, <<"word">>}
Texted(pieces, most) ==
  {FlattenSeq(ps) : ps \in UNION {[1 .. n -> pieces] : n \in 0 .. most}}

Filled == {text \o FlattenSeq(ps) :
             text \in {Credited, AsGroups},
             ps \in UNION {[1 .. n -> {<<"word">>, <<" ">>}] : n \in 0 .. 6}}

BoundedTexts == ShortTexts \cup Texted(Pieces, 4) \cup Texted(Spaced, 5) \cup Filled

\* Rows and processes are interchangeable.
Symmetry == Permutations(Ids) \cup Permutations(Processes)
==============================================================================

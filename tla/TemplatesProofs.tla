----------------------------- MODULE TemplatesProofs -----------------------------
(***************************************************************************)
(* Theorems about Templates, for every set of tenants, rows, bodies,       *)
(* builtins and processes.                                                 *)
(*                                                                         *)
(* What a call accepted compiles, and edits replace text, mode and pattern *)
(* together; rows never vanish or change their business and name.  The     *)
(* rest is about the seeder: what it has passed is in the table.           *)
(***************************************************************************)
EXTENDS Templates, SmsTemplateProofs

\* A row whose text compiles, to the pattern kept with it.
Usable(row) ==
  /\ compileByMode(row.mode, row.text) # Invalid
  /\ row.pattern = PatternOf(row.mode, row.text)

\* What row i may become: created, edited or deactivated.
MayBecome(i, row) ==
  /\ row \in Row /\ Usable(row)
  /\ providers[i] # NULL =>
       /\ row.business = providers[i].business
       /\ row.name = providers[i].name
       /\ ~providers[i].active => ~row.active

\* What a step does to the table.
TableMoves ==
  /\ providers' \in [Ids -> Row \cup {NULL}]
  /\ \A i \in Ids : providers'[i] = providers[i] \/ MayBecome(i, providers'[i])

\* The builtins process p has passed are in the table, all of them once it serves.
PassedAreSeeded(p) ==
  /\ phase[p] \in {"get", "insert"} => todo[p] <= Len(Builtins)
  /\ phase[p] \in {"get", "insert"} =>
       \A n \in 1 .. todo[p] - 1 : Builtins[n].name \in Seeded(Names)
  /\ phase[p] = "serving" => Names \subseteq Seeded(Names)

\* What p found is still there, and the builtin it inserts was not.
FoundStays(p) ==
  /\ found[p] \subseteq Seeded(Names)
  /\ phase[p] = "insert" => Builtins[todo[p]].name \notin found[p]

\* A deactivation that rereads a row rereads an inactive one.
RereadIsInactive(a) ==
  step[a] = "reread" /\ target[a] # NULL =>
    target[a] \in Rows /\ ~providers[target[a]].active

Inv ==
  /\ TypeOK
  /\ StoredIsUsable
  /\ \A p \in Processes : PassedAreSeeded(p) /\ FoundStays(p)
  /\ \A a \in Withdrawals : RereadIsInactive(a)

--------------------------------------------------------------------------------
\* Rows.

\* A body that is accepted makes a row that compiles (Create, CreateProvider).
LEMMA NewRowUsable ==
  ASSUME NEW b \in Businesses \cup {NULL}, NEW in \in Input, Accepted(in)
  PROVE  /\ NewRow(b, in) \in Row
         /\ Usable(NewRow(b, in))
         /\ NewRow(b, in).business = b
         /\ NewRow(b, in).name = in.name
<1>1. /\ ModeOf(in) \in Modes
      /\ Default(in.direction, "credit") \in Directions
      /\ in.name \in Names /\ in.text \in Written
  BY DEF ModeOf, Default, Input, Modes, Directions
<1>2. PriorityOf(in) \in Priorities
  <2>1. 100 \in Priorities
    BY DEF Priorities
  <2>2. QED
    BY <2>1 DEF PriorityOf
<1>3. in.script \in {"valid", NULL} /\ compileByMode(ModeOf(in), in.text) # Invalid
  BY DEF Accepted, Input
<1>4. PatternOf(ModeOf(in), in.text) \in Patterns
  BY <1>1 DEF Patterns
<1>5. NewRow(b, in) \in Row
  BY <1>1, <1>2, <1>3, <1>4 DEF NewRow, Row
<1>6. /\ NewRow(b, in).mode = ModeOf(in) /\ NewRow(b, in).text = in.text
      /\ NewRow(b, in).pattern = PatternOf(ModeOf(in), in.text)
      /\ NewRow(b, in).business = b /\ NewRow(b, in).name = in.name
  BY DEF NewRow
<1>7. QED
  BY <1>3, <1>5, <1>6 DEF Usable

\* An edit leaves a row that compiles, in the same hands, as active as it was
\* (UpdateTemplate, UpdateProviderTemplate).
LEMMA EditedUsable ==
  ASSUME NEW row \in Row, NEW in \in Input, Accepted(in)
  PROVE  /\ Edited(row, in) \in Row
         /\ Usable(Edited(row, in))
         /\ Edited(row, in).business = row.business
         /\ Edited(row, in).name = row.name
         /\ Edited(row, in).active = row.active
<1>1. /\ ModeOf(in) \in Modes
      /\ Default(in.direction, "credit") \in Directions
      /\ in.text \in Written
  BY DEF ModeOf, Default, Input, Modes, Directions
<1>2. in.script \in {"valid", NULL} /\ compileByMode(ModeOf(in), in.text) # Invalid
  BY DEF Accepted, Input
<1>3. PatternOf(ModeOf(in), in.text) \in Patterns
  BY <1>1 DEF Patterns
<1>4. /\ Edited(row, in).mode = ModeOf(in) /\ Edited(row, in).text = in.text
      /\ Edited(row, in).pattern = PatternOf(ModeOf(in), in.text)
      /\ Edited(row, in).business = row.business /\ Edited(row, in).name = row.name
      /\ Edited(row, in).active = row.active
  BY DEF Edited, Row
<1>5. Edited(row, in) \in Row
  BY <1>1, <1>2, <1>3 DEF Edited, Row
<1>6. QED
  BY <1>2, <1>4, <1>5 DEF Usable

\* A deactivation changes nothing else.
LEMMA DeactivatedUsable ==
  ASSUME NEW row \in Row, Usable(row), NEW off, off = [row EXCEPT !.active = FALSE]
  PROVE  /\ off \in Row /\ Usable(off)
         /\ off.business = row.business /\ off.name = row.name /\ ~off.active
<1>1. /\ off.mode = row.mode /\ off.text = row.text /\ off.pattern = row.pattern
      /\ off.business = row.business /\ off.name = row.name /\ off.active = FALSE
  BY DEF Row
<1>2. off \in Row
  BY DEF Row
<1>3. QED
  BY <1>1, <1>2 DEF Usable

\* The seeder's rows compile and belong to everyone.
LEMMA BuiltinUsable ==
  ASSUME NEW n \in 1 .. Len(Builtins)
  PROVE  /\ BuiltinRow(n) \in Row /\ Usable(BuiltinRow(n))
         /\ BuiltinRow(n).business = NULL
         /\ BuiltinRow(n).name = Builtins[n].name
         /\ Builtins[n].name \in Names
<1> DEFINE in == [name |-> Builtins[n].name, text |-> Builtins[n].text,
                  mode |-> NULL, direction |-> NULL, priority |-> NULL, script |-> NULL]
<1>1. in \in Input /\ in.name = Builtins[n].name /\ in.name \in Names
  BY DEF Input, Names, Written
<1>2. Accepted(in)
  BY TemplatesAssumption DEF Accepted, ModeOf, Default, compileByMode
<1>3. BuiltinRow(n) = NewRow(NULL, in)
  BY DEF BuiltinRow
<1> HIDE DEF in
<1>4. QED
  BY <1>1, <1>2, <1>3, NewRowUsable

\* One row is written.
LEMMA RowWritten ==
  ASSUME TypeOK, NEW i \in Ids, NEW row, MayBecome(i, row),
         providers' = [providers EXCEPT ![i] = row]
  PROVE  TableMoves
  BY DEF TypeOK, TableMoves, MayBecome

\* No row is written.
LEMMA NoRowWritten ==
  ASSUME TypeOK, UNCHANGED providers
  PROVE  TableMoves
  BY DEF TypeOK, TableMoves

--------------------------------------------------------------------------------
\* Calls.

\* What the answer to a call shows, and to whom.
AnswerFits(w) ==
  /\ answer' \in Answers
  /\ answer'.to = w
  /\ answer'.row # NULL => w = Admin \/ answer'.row.business \in {NULL, w}

\* Whose rows a call of w may change.
InReach(w) ==
  \A i \in Rows : providers'[i] # providers[i] =>
    w = Admin \/ providers[i].business = w

\* What every call does.
CallEffects(w) ==
  /\ TableMoves /\ AnswerFits(w) /\ InReach(w)
  /\ UNCHANGED seeding

\* A call that is refused changes nothing.
LEMMA Refused ==
  ASSUME TypeOK, NEW w \in Businesses \cup {Admin},
         NEW code \in {"invalid", "not_found"}, Refuse(w, code)
  PROVE  TableMoves /\ AnswerFits(w) /\ InReach(w)
<1>1. UNCHANGED providers /\ answer' = Said(w, code, NULL)
  BY DEF Refuse
<1>2. AnswerFits(w)
  BY <1>1 DEF AnswerFits, Answers, Said
<1>3. QED
  BY <1>1, <1>2, NoRowWritten DEF InReach

\* A call that is shown a row and changes nothing.
LEMMA Shows ==
  ASSUME TypeOK, NEW w \in Businesses \cup {Admin}, NEW i \in Rows,
         i \in Ids, w = Admin \/ i \in Shown(w),
         answer' = Said(w, "ok", providers[i]), UNCHANGED providers
  PROVE  TableMoves /\ AnswerFits(w) /\ InReach(w)
<1>1. providers[i] \in Row
  BY DEF TypeOK, Rows
<1>2. AnswerFits(w)
  BY <1>1 DEF AnswerFits, Answers, Said, Shown, Owned, Globals
<1>3. QED
  BY <1>2, NoRowWritten DEF InReach

\* A call that writes a row, its own or a new one of its own.
LEMMA Writes ==
  ASSUME TypeOK, NEW w \in Businesses \cup {Admin}, NEW i \in Ids, NEW row,
         MayBecome(i, row), w = Admin \/ row.business = w, Write(w, i, row)
  PROVE  TableMoves /\ AnswerFits(w) /\ InReach(w)
<1>1. /\ providers' = [providers EXCEPT ![i] = row]
      /\ answer' = Said(w, "ok", row) \/ answer' = Said(w, "error", NULL)
  BY DEF Write
<1>2. TableMoves
  BY <1>1, RowWritten
<1>3. AnswerFits(w)
  <2>1. row \in Row
    BY DEF MayBecome
  <2>2. QED
    BY <1>1, <2>1 DEF AnswerFits, Answers, Said
<1>4. InReach(w)
  <2>1. SUFFICES ASSUME NEW j \in Rows, providers'[j] # providers[j]
        PROVE  w = Admin \/ providers[j].business = w
    BY DEF InReach
  <2>2. j = i /\ providers[i] # NULL
    BY <1>1, <2>1 DEF TypeOK, Rows
  <2>3. QED
    BY <2>2 DEF MayBecome
<1>5. QED
  BY <1>2, <1>3, <1>4

\* The calls of a merchant (ProviderHandler).
LEMMA MerchantCalls ==
  ASSUME TypeOK, StoredIsUsable, NEW w \in Businesses, Merchant(w)
  PROVE  CallEffects(w) /\ UNCHANGED <<step, target>>
<1>1. ASSUME NEW in \in Inputs, Create(w, in)
      PROVE  CallEffects(w) /\ UNCHANGED <<step, target>>
  <2>1. UNCHANGED <<seeding, step, target>>
    BY <1>1 DEF Create
  <2>2. CASE ~Accepted(in) /\ Refuse(w, "invalid")
    BY <2>1, <2>2, Refused DEF CallEffects
  <2>3. CASE Accepted(in) /\ \E i \in Free : Write(w, i, NewRow(w, in))
    <3>1. PICK i \in Free : Write(w, i, NewRow(w, in))
      BY <2>3
    <3>2. i \in Ids /\ providers[i] = NULL
      BY DEF Free, Rows
    <3>3. MayBecome(i, NewRow(w, in)) /\ NewRow(w, in).business = w
      BY <2>3, <3>2, NewRowUsable, TemplatesAssumption DEF MayBecome
    <3>4. QED
      BY <2>1, <3>1, <3>2, <3>3, Writes DEF CallEffects
  <2>4. QED
    BY <1>1, <2>2, <2>3 DEF Create
<1>2. ASSUME NEW i \in Ids, NEW in \in Inputs, UpdateTemplate(w, i, in)
      PROVE  CallEffects(w) /\ UNCHANGED <<step, target>>
  <2>1. UNCHANGED <<seeding, step, target>>
    BY <1>2 DEF UpdateTemplate
  <2>2. CASE Refuse(w, "invalid") \/ Refuse(w, "not_found")
    BY <2>1, <2>2, Refused DEF CallEffects
  <2>3. CASE Accepted(in) /\ i \in Mine(w) /\ Write(w, i, Edited(providers[i], in))
    <3>1. providers[i] \in Row /\ providers[i] # NULL /\ providers[i].business = w
      BY <2>3 DEF Mine, Owned, Rows, TypeOK
    <3>2. MayBecome(i, Edited(providers[i], in)) /\ Edited(providers[i], in).business = w
      BY <2>3, <3>1, EditedUsable, TemplatesAssumption DEF MayBecome
    <3>3. QED
      BY <2>1, <2>3, <3>2, Writes DEF CallEffects
  <2>4. QED
    BY <1>2, <2>2, <2>3 DEF UpdateTemplate
<1>3. ASSUME NEW i \in Ids, Deactivate(w, i)
      PROVE  CallEffects(w) /\ UNCHANGED <<step, target>>
  <2>1. UNCHANGED <<seeding, step, target>>
    BY <1>3 DEF Deactivate
  <2>2. CASE Refuse(w, "not_found")
    BY <2>1, <2>2, Refused DEF CallEffects
  <2>3. CASE i \in Mine(w) /\ Write(w, i, [providers[i] EXCEPT !.active = FALSE])
    <3> DEFINE off == [providers[i] EXCEPT !.active = FALSE]
    <3>1. providers[i] \in Row /\ Usable(providers[i]) /\ providers[i].business = w
      BY <2>3 DEF Mine, Owned, Rows, TypeOK, StoredIsUsable, Usable
    <3>2. MayBecome(i, off) /\ off.business = w
      BY <3>1, DeactivatedUsable DEF MayBecome
    <3>3. QED
      BY <2>1, <2>3, <3>2, Writes DEF CallEffects
  <2>4. QED
    BY <1>3, <2>2, <2>3 DEF Deactivate
<1>4. ASSUME NEW i \in Ids, Get(w, i)
      PROVE  CallEffects(w) /\ UNCHANGED <<step, target>>
  <2>1. UNCHANGED <<seeding, step, target>>
    BY <1>4 DEF Get
  <2>2. CASE Refuse(w, "not_found")
    BY <2>1, <2>2, Refused DEF CallEffects
  <2>3. CASE i \in Shown(w) /\ answer' = Said(w, "ok", providers[i]) /\ UNCHANGED providers
    <3>1. i \in Rows
      BY <2>3 DEF Shown, Owned, Globals
    <3>2. QED
      BY <2>1, <2>3, <3>1, Shows DEF CallEffects
  <2>4. QED
    BY <1>4, <2>2, <2>3 DEF Get
<1>5. QED
  BY <1>1, <1>2, <1>3, <1>4 DEF Merchant

\* The administrator creates and edits (ManageHandler).
LEMMA ManageWrites ==
  ASSUME TypeOK, StoredIsUsable,
         \/ \E b \in Businesses \cup {NULL}, in \in Inputs : CreateProvider(b, in)
         \/ \E i \in Ids, in \in Inputs : UpdateProviderTemplate(i, in)
  PROVE  CallEffects(Admin) /\ UNCHANGED <<step, target>>
<1>1. ASSUME NEW b \in Businesses \cup {NULL}, NEW in \in Inputs, CreateProvider(b, in)
      PROVE  CallEffects(Admin) /\ UNCHANGED <<step, target>>
  <2>1. UNCHANGED <<seeding, step, target>>
    BY <1>1 DEF CreateProvider
  <2>2. CASE Refuse(Admin, "invalid")
    BY <2>1, <2>2, Refused DEF CallEffects
  <2>3. CASE Accepted(in) /\ \E i \in Free : Write(Admin, i, NewRow(b, in))
    <3>1. PICK i \in Free : Write(Admin, i, NewRow(b, in))
      BY <2>3
    <3>2. i \in Ids /\ providers[i] = NULL
      BY DEF Free, Rows
    <3>3. MayBecome(i, NewRow(b, in))
      BY <2>3, <3>2, NewRowUsable, TemplatesAssumption DEF MayBecome
    <3>4. QED
      BY <2>1, <3>1, <3>2, <3>3, Writes DEF CallEffects
  <2>4. QED
    BY <1>1, <2>2, <2>3 DEF CreateProvider
<1>2. ASSUME NEW i \in Ids, NEW in \in Inputs, UpdateProviderTemplate(i, in)
      PROVE  CallEffects(Admin) /\ UNCHANGED <<step, target>>
  <2>1. UNCHANGED <<seeding, step, target>>
    BY <1>2 DEF UpdateProviderTemplate
  <2>2. CASE Refuse(Admin, "invalid") \/ Refuse(Admin, "not_found")
    BY <2>1, <2>2, Refused DEF CallEffects
  <2>3. CASE Accepted(in) /\ i \in Rows /\ Write(Admin, i, Edited(providers[i], in))
    <3>1. providers[i] \in Row /\ providers[i] # NULL
      BY <2>3 DEF Rows, TypeOK
    <3>2. MayBecome(i, Edited(providers[i], in))
      BY <2>3, <3>1, EditedUsable, TemplatesAssumption DEF MayBecome
    <3>3. QED
      BY <2>1, <2>3, <3>2, Writes DEF CallEffects
  <2>4. QED
    BY <1>2, <2>2, <2>3 DEF UpdateProviderTemplate
<1>3. QED
  BY <1>1, <1>2

\* Rows stay, and so does their being inactive.
LEMMA RowsStay ==
  ASSUME TableMoves, NEW i \in Rows
  PROVE  /\ i \in Rows' /\ providers'[i] # NULL
         /\ providers'[i].business = providers[i].business
         /\ providers'[i].name = providers[i].name
         /\ ~providers[i].active => ~providers'[i].active
<1>1. i \in Ids /\ providers[i] # NULL
  BY DEF Rows
<1>2. providers'[i] = providers[i] \/ MayBecome(i, providers'[i])
  BY <1>1 DEF TableMoves
<1>3. providers'[i] # NULL
  BY <1>1, <1>2, TemplatesAssumption DEF MayBecome
<1>4. QED
  BY <1>1, <1>2, <1>3 DEF MayBecome, Rows

\* What step c says once it is done with a row.
Told(c) ==
  step[c] # step'[c] /\ step'[c] = "done" /\ answer'.code = "ok" => ~answer'.row.active

\* What a step does to the administrator's deactivations.
WithdrawalsMove ==
  /\ step' \in [Withdrawals -> {"update", "reread", "done"}]
  /\ target' \in [Withdrawals -> Ids \cup {NULL}]
  /\ \A c \in Withdrawals : RereadIsInactive(c)' /\ Told(c)

\* Steps of anyone else.
LEMMA WithdrawalsRest ==
  ASSUME Inv, TableMoves, UNCHANGED <<step, target>>
  PROVE  WithdrawalsMove
<1>1. ASSUME NEW c \in Withdrawals  PROVE RereadIsInactive(c)'
  BY <1>1, RowsStay DEF Inv, RereadIsInactive
<1>2. ASSUME NEW c \in Withdrawals  PROVE Told(c)
  BY <1>2 DEF Told
<1>3. QED
  BY <1>1, <1>2 DEF WithdrawalsMove, Inv, TypeOK

\* The UPDATE of DeactivateProviderGlobal.
LEMMA WithdrawUpdates ==
  ASSUME Inv, NEW a \in Withdrawals, NEW i \in Ids \cup {NULL}, DeactivateProvider(a, i)
  PROVE  /\ TableMoves /\ InReach(Admin) /\ UNCHANGED seeding
         /\ UNCHANGED answer \/ AnswerFits(Admin)
         /\ WithdrawalsMove
<1>1. /\ step[a] = "update" /\ i \in Rows \cup {NULL}
      /\ target' = [target EXCEPT ![a] = i] /\ UNCHANGED seeding
      /\ TypeOK
  BY DEF DeactivateProvider, Inv
<1>2. CASE /\ i # NULL /\ providers[i].active
           /\ Write(Admin, i, [providers[i] EXCEPT !.active = FALSE])
           /\ step' = [step EXCEPT ![a] = "done"]
  <2> DEFINE off == [providers[i] EXCEPT !.active = FALSE]
  <2>1. i \in Ids /\ providers[i] # NULL /\ providers[i] \in Row /\ Usable(providers[i])
    BY <1>1, <1>2 DEF Rows, TypeOK, Inv, StoredIsUsable, Usable
  <2>2. MayBecome(i, off) /\ ~off.active
    BY <2>1, DeactivatedUsable DEF MayBecome
  <2>3. TableMoves /\ AnswerFits(Admin) /\ InReach(Admin)
    BY <1>1, <1>2, <2>1, <2>2, Writes
  <2>4. ASSUME NEW c \in Withdrawals  PROVE RereadIsInactive(c)'
    <3>1. c # a => step'[c] = step[c] /\ target'[c] = target[c]
      BY <1>1, <1>2 DEF TypeOK
    <3>2. c = a => step'[c] = "done"
      BY <1>1, <1>2 DEF TypeOK
    <3>3. QED
      BY <2>3, <3>1, <3>2, RowsStay DEF Inv, RereadIsInactive
  <2>5. ASSUME NEW c \in Withdrawals  PROVE Told(c)
    <3>1. answer' = Said(Admin, "ok", off) \/ answer' = Said(Admin, "error", NULL)
      BY <1>2 DEF Write
    <3> HIDE DEF off
    <3>2. answer'.code = "ok" => answer'.row = off
      BY <3>1 DEF Said
    <3>3. QED
      BY <2>2, <3>2 DEF Told
  <2>6. QED
    BY <1>1, <1>2, <2>3, <2>4, <2>5 DEF WithdrawalsMove, TypeOK
<1>3. CASE /\ ~(i # NULL /\ providers[i].active)
           /\ step' = [step EXCEPT ![a] = "reread"]
           /\ UNCHANGED <<providers, answer>>
  <2>1. TableMoves /\ InReach(Admin)
    BY <1>1, <1>3, NoRowWritten DEF InReach
  <2>2. ASSUME NEW c \in Withdrawals  PROVE RereadIsInactive(c)'
    <3>1. c # a => step'[c] = step[c] /\ target'[c] = target[c]
      BY <1>1, <1>3 DEF TypeOK
    <3>2. c = a => target'[c] = i
      BY <1>1, <1>3 DEF TypeOK
    <3>3. CASE c # a
      BY <2>1, <3>1, <3>3, RowsStay DEF Inv, RereadIsInactive
    <3>4. CASE c = a
      BY <1>1, <1>3, <2>1, <3>2, <3>4, RowsStay DEF RereadIsInactive
    <3>5. QED
      BY <3>3, <3>4
  <2>3. ASSUME NEW c \in Withdrawals  PROVE Told(c)
    BY <1>1, <1>3 DEF Told, TypeOK
  <2>4. QED
    BY <1>1, <1>3, <2>1, <2>2, <2>3 DEF WithdrawalsMove, TypeOK
<1>4. QED
  BY <1>2, <1>3 DEF DeactivateProvider

\* GetProvider, after an UPDATE that found no active row.
LEMMA WithdrawRereads ==
  ASSUME Inv, NEW a \in Withdrawals, RereadProvider(a)
  PROVE  CallEffects(Admin) /\ WithdrawalsMove
<1>1. /\ step[a] = "reread" /\ step' = [step EXCEPT ![a] = "done"]
      /\ UNCHANGED <<seeding, target>> /\ TypeOK
  BY DEF RereadProvider, Inv
<1>2. ASSUME NEW c \in Withdrawals, TableMoves  PROVE RereadIsInactive(c)'
  <2>1. c # a => step'[c] = step[c] /\ target'[c] = target[c]
    BY <1>1 DEF TypeOK
  <2>2. c = a => step'[c] = "done"
    BY <1>1 DEF TypeOK
  <2>3. QED
    BY <1>2, <2>1, <2>2, RowsStay DEF Inv, RereadIsInactive
<1>3. CASE target[a] = NULL /\ Refuse(Admin, "not_found")
  <2>1. CallEffects(Admin)
    BY <1>1, <1>3, Refused DEF CallEffects
  <2>2. answer'.code = "not_found"
    BY <1>3 DEF Refuse, Said
  <2>3. QED
    BY <1>1, <1>2, <2>1, <2>2 DEF WithdrawalsMove, Told, CallEffects, TypeOK
<1>4. CASE /\ target[a] # NULL /\ answer' = Said(Admin, "ok", providers[target[a]])
           /\ UNCHANGED providers
  <2>1. target[a] \in Rows /\ target[a] \in Ids /\ ~providers[target[a]].active
    BY <1>1, <1>4 DEF Inv, RereadIsInactive, Rows
  <2>2. CallEffects(Admin)
    BY <1>1, <1>4, <2>1, Shows DEF CallEffects
  <2>3. answer'.row = providers[target[a]]
    BY <1>4 DEF Said
  <2>4. QED
    BY <1>1, <1>2, <2>1, <2>2, <2>3 DEF WithdrawalsMove, Told, CallEffects, TypeOK
<1>5. QED
  BY <1>3, <1>4 DEF RereadProvider

--------------------------------------------------------------------------------
\* The seeder.

\* What is in the table for everyone stays there, under its name.
LEMMA SeededGrows ==
  ASSUME TableMoves
  PROVE  Seeded(Names) \subseteq Seeded(Names)'
<1>1. SUFFICES ASSUME NEW n \in Seeded(Names)  PROVE n \in Seeded(Names)'
  OBVIOUS
<1>2. PICK i \in Rows : providers[i].business = NULL /\ providers[i].name = n
  BY DEF Seeded, Globals
<1>3. i \in Rows' /\ providers'[i].business = NULL /\ providers'[i].name = n
  BY <1>2, RowsStay
<1>4. QED
  BY <1>1, <1>3 DEF Seeded, Globals

\* What a step does to the processes.
ProcessesMove ==
  /\ phase' \in [Processes -> {"off", "get", "insert", "serving", "failed"}]
  /\ todo' \in [Processes -> 1 .. Len(Builtins) + 1]
  /\ found' \in [Processes -> SUBSET Names]
  /\ \A q \in Processes : PassedAreSeeded(q)' /\ FoundStays(q)'

\* A process that a step leaves alone.
LEMMA ProcessRests ==
  ASSUME Inv, TableMoves, NEW q \in Processes,
         phase'[q] = phase[q], todo'[q] = todo[q], found'[q] = found[q]
  PROVE  PassedAreSeeded(q)' /\ FoundStays(q)'
<1>1. PassedAreSeeded(q) /\ FoundStays(q)
  BY DEF Inv
<1>2. Seeded(Names) \subseteq Seeded(Names)'
  BY SeededGrows
<1>3. PassedAreSeeded(q)'
  BY <1>1, <1>2 DEF PassedAreSeeded
<1>4. FoundStays(q)'
  BY <1>1, <1>2 DEF FoundStays
<1>5. QED
  BY <1>3, <1>4

\* Steps of anyone else.
LEMMA ProcessesRest ==
  ASSUME Inv, TableMoves, UNCHANGED seeding
  PROVE  ProcessesMove
<1>1. UNCHANGED <<phase, todo, found>>
  BY DEF seeding
<1>2. ASSUME NEW q \in Processes  PROVE PassedAreSeeded(q)' /\ FoundStays(q)'
  BY <1>1, ProcessRests
<1>3. QED
  BY <1>1, <1>2 DEF ProcessesMove, Inv, TypeOK

\* One process moves.
LEMMA OneProcessMoves ==
  ASSUME Inv, TableMoves, NEW p \in Processes,
         NEW ph \in {"off", "get", "insert", "serving", "failed"},
         NEW n \in 1 .. Len(Builtins) + 1, NEW names \in SUBSET Names,
         phase' = [phase EXCEPT ![p] = ph], todo' = [todo EXCEPT ![p] = n],
         found' = [found EXCEPT ![p] = names],
         PassedAreSeeded(p)', FoundStays(p)'
  PROVE  ProcessesMove
<1>1. ASSUME NEW q \in Processes \ {p}  PROVE PassedAreSeeded(q)' /\ FoundStays(q)'
  <2>1. phase'[q] = phase[q] /\ todo'[q] = todo[q] /\ found'[q] = found[q]
    BY DEF Inv, TypeOK
  <2>2. QED
    BY <2>1, ProcessRests
<1>2. QED
  BY <1>1 DEF ProcessesMove, Inv, TypeOK

\* Passing a builtin that is in the table (the loop of SeedBuiltins).
LEMMA Advances ==
  ASSUME Inv, TableMoves, NEW p \in Processes, phase[p] \in {"get", "insert"},
         Advance(p), UNCHANGED found, Builtins[todo[p]].name \in Seeded(Names)'
  PROVE  ProcessesMove
<1>0. TypeOK /\ Len(Builtins) \in Nat
  BY TemplatesAssumption DEF Inv
<1>1. /\ todo[p] \in 1 .. Len(Builtins)
      /\ \A n \in 1 .. todo[p] - 1 : Builtins[n].name \in Seeded(Names)
  <2>1. todo[p] \in 1 .. Len(Builtins) + 1
    BY <1>0 DEF TypeOK
  <2>2. PassedAreSeeded(p)
    BY DEF Inv
  <2>3. QED  BY <1>0, <2>1, <2>2 DEF PassedAreSeeded
<1>2. \A n \in 1 .. todo[p] : Builtins[n].name \in Seeded(Names)'
  <2>1. Seeded(Names) \subseteq Seeded(Names)'
    BY SeededGrows
  <2>2. QED
    BY <1>1, <2>1
<1> DEFINE ph == IF todo[p] = Len(Builtins) THEN "serving" ELSE "get"
<1>3. /\ todo' = [todo EXCEPT ![p] = todo[p] + 1] /\ phase' = [phase EXCEPT ![p] = ph]
      /\ todo'[p] = todo[p] + 1 /\ phase'[p] = ph
  BY <1>0 DEF Advance, TypeOK
<1>4. PassedAreSeeded(p)'
  <2>1. CASE todo[p] = Len(Builtins)
    <3>1. Names \subseteq Seeded(Names)'
      BY <1>2, <2>1 DEF Names
    <3>2. QED
      BY <1>3, <2>1, <3>1 DEF PassedAreSeeded
  <2>2. CASE todo[p] # Len(Builtins)
    BY <1>0, <1>1, <1>2, <1>3, <2>2 DEF PassedAreSeeded
  <2>3. QED
    BY <2>1, <2>2
<1>5. FoundStays(p)'
  <2>1. found'[p] = found[p] /\ Seeded(Names) \subseteq Seeded(Names)'
    BY SeededGrows
  <2>2. QED
    BY <1>3, <2>1 DEF Inv, FoundStays
<1>6. found' = [found EXCEPT ![p] = found[p]] /\ found[p] \in SUBSET Names
  BY <1>0 DEF TypeOK
<1>7. todo[p] + 1 \in 1 .. Len(Builtins) + 1
  BY <1>0, <1>1
<1> HIDE DEF ph
<1>8. ph \in {"off", "get", "insert", "serving", "failed"}
  BY DEF ph
<1>9. QED
  BY <1>3, <1>4, <1>5, <1>6, <1>7, <1>8, OneProcessMoves

\* A process that neither seeds nor serves (SeedFails, StopProcess).
LEMMA Stops ==
  ASSUME Inv, TableMoves, NEW p \in Processes, NEW ph \in {"off", "failed"},
         phase' = [phase EXCEPT ![p] = ph], UNCHANGED <<todo, found>>
  PROVE  ProcessesMove
<1>0. TypeOK
  BY DEF Inv
<1>1. phase'[p] = ph
  BY <1>0 DEF TypeOK
<1>2. PassedAreSeeded(p)'
  BY <1>1 DEF PassedAreSeeded
<1>3. FoundStays(p)'
  <2>1. found'[p] = found[p] /\ Seeded(Names) \subseteq Seeded(Names)'
    BY SeededGrows
  <2>2. QED
    BY <1>1, <2>1 DEF Inv, FoundStays
<1>4. /\ found' = [found EXCEPT ![p] = found[p]] /\ found[p] \in SUBSET Names
      /\ todo' = [todo EXCEPT ![p] = todo[p]] /\ todo[p] \in 1 .. Len(Builtins) + 1
  BY <1>0 DEF TypeOK
<1>5. QED
  BY <1>2, <1>3, <1>4, OneProcessMoves

\* What a step of a process does.
ProcessEffects ==
  /\ TableMoves /\ ProcessesMove
  /\ \A i \in Rows : providers'[i] = providers[i]
  /\ UNCHANGED <<step, target, answer>>

\* A process starts: it finds what is in the table.
LEMMA Starts ==
  ASSUME Inv, NEW p \in Processes, StartProcess(p)
  PROVE  ProcessEffects
<1> DEFINE ph == IF Builtins = <<>> THEN "serving" ELSE "get"
<1>0. TypeOK /\ Len(Builtins) \in Nat /\ (Builtins # <<>> => 1 <= Len(Builtins))
  BY TemplatesAssumption DEF Inv
<1>1. /\ phase' = [phase EXCEPT ![p] = ph] /\ todo' = [todo EXCEPT ![p] = 1]
      /\ found' = [found EXCEPT ![p] = Seeded(Names)]
      /\ UNCHANGED <<providers, step, target, answer>>
  BY DEF StartProcess
<1>2. phase'[p] = ph /\ todo'[p] = 1 /\ found'[p] = Seeded(Names)
  BY <1>0, <1>1 DEF TypeOK
<1>3. TableMoves
  BY <1>0, <1>1, NoRowWritten
<1>4. Seeded(Names) \in SUBSET Names /\ Seeded(Names)' = Seeded(Names)
  BY <1>1 DEF Seeded, Globals, Rows
<1>5. PassedAreSeeded(p)'
  <2>1. CASE Builtins = <<>>
    <3>1. Names = {}
      BY <2>1 DEF Names
    <3>2. QED
      BY <1>2, <2>1, <3>1 DEF PassedAreSeeded
  <2>2. CASE Builtins # <<>>
    BY <1>0, <1>2, <2>2 DEF PassedAreSeeded
  <2>3. QED
    BY <2>1, <2>2
<1>6. FoundStays(p)'
  BY <1>2, <1>4 DEF FoundStays
<1>7. 1 \in 1 .. Len(Builtins) + 1
  BY <1>0
<1>8. ph \in {"off", "get", "insert", "serving", "failed"}
  OBVIOUS
<1> HIDE DEF ph
<1>9. ProcessesMove
  BY <1>1, <1>3, <1>4, <1>5, <1>6, <1>7, <1>8, OneProcessMoves
<1>10. QED
  BY <1>1, <1>3, <1>9 DEF ProcessEffects

\* GetGlobalProviderByName finds the builtin, misses it or fails.
LEMMA Looks ==
  ASSUME Inv, NEW p \in Processes, GetGlobalProviderByName(p)
  PROVE  ProcessEffects
<1>0. TypeOK /\ phase[p] = "get" /\ UNCHANGED <<providers, found, step, target, answer>>
  BY DEF Inv, GetGlobalProviderByName
<1>1. TableMoves
  BY <1>0, NoRowWritten
<1>2. todo[p] \in 1 .. Len(Builtins)
  BY <1>0, TemplatesAssumption DEF Inv, PassedAreSeeded, TypeOK
<1> DEFINE name == Builtins[todo[p]].name
<1>3. name \in Names /\ Seeded(Names)' = Seeded(Names)
  BY <1>0, <1>2 DEF Names, Seeded, Globals, Rows
<1>4. CASE Existing(name) # {} /\ Advance(p)
  <2>1. name \in Seeded(Names)'
    BY <1>3, <1>4 DEF Existing, Seeded
  <2>2. QED
    BY <1>0, <1>1, <1>4, <2>1, Advances DEF ProcessEffects
<1>5. CASE Existing(name) = {} /\ phase' = [phase EXCEPT ![p] = "insert"] /\ UNCHANGED todo
  <2>1. name \notin Seeded(Names)
    BY <1>5 DEF Existing, Seeded
  <2>2. /\ phase'[p] = "insert" /\ todo'[p] = todo[p] /\ found'[p] = found[p]
        /\ found' = [found EXCEPT ![p] = found[p]] /\ found[p] \in SUBSET Names
        /\ todo' = [todo EXCEPT ![p] = todo[p]] /\ todo[p] \in 1 .. Len(Builtins) + 1
    BY <1>0, <1>5 DEF TypeOK
  <2>3. PassedAreSeeded(p)'
    BY <1>0, <1>3, <2>2 DEF Inv, PassedAreSeeded
  <2>4. FoundStays(p)'
    BY <1>3, <2>1, <2>2 DEF Inv, FoundStays
  <2>5. ProcessesMove
    BY <1>1, <1>5, <2>2, <2>3, <2>4, OneProcessMoves
  <2>6. QED
    BY <1>0, <1>1, <2>5 DEF ProcessEffects
<1>6. CASE SeedFails(p)
  BY <1>0, <1>1, <1>6, Stops DEF SeedFails, ProcessEffects
<1>7. QED
  BY <1>4, <1>5, <1>6 DEF GetGlobalProviderByName

\* CreateProvider of the seeder.
LEMMA Seeds ==
  ASSUME Inv, NEW p \in Processes, SeedBuiltin(p)
  PROVE  ProcessEffects
<1>0. TypeOK /\ phase[p] = "insert" /\ UNCHANGED <<found, step, target, answer>>
  BY DEF Inv, SeedBuiltin
<1>1. todo[p] \in 1 .. Len(Builtins)
  BY <1>0, TemplatesAssumption DEF Inv, PassedAreSeeded, TypeOK
<1>2. CASE \E i \in Free :
             /\ providers' = [providers EXCEPT ![i] = BuiltinRow(todo[p])]
             /\ Advance(p) \/ SeedFails(p)
  <2>1. PICK i \in Free :
          /\ providers' = [providers EXCEPT ![i] = BuiltinRow(todo[p])]
          /\ Advance(p) \/ SeedFails(p)
    BY <1>2
  <2>2. i \in Ids /\ providers[i] = NULL
    BY DEF Free, Rows
  <2>3. MayBecome(i, BuiltinRow(todo[p]))
    BY <1>1, <2>2, BuiltinUsable DEF MayBecome
  <2>4. TableMoves
    BY <1>0, <2>1, <2>2, <2>3, RowWritten
  <2>5. \A j \in Rows : providers'[j] = providers[j]
    BY <1>0, <2>1, <2>2 DEF Rows, TypeOK
  <2>6. Builtins[todo[p]].name \in Seeded(Names)'
    <3>1. providers'[i] = BuiltinRow(todo[p])
      BY <1>0, <2>1, <2>2 DEF TypeOK
    <3>2. providers'[i] # NULL
      BY <1>1, <3>1, BuiltinUsable, TemplatesAssumption
    <3>3. i \in Globals' /\ providers'[i].name = Builtins[todo[p]].name
      BY <1>1, <2>2, <3>1, <3>2, BuiltinUsable DEF Globals, Rows
    <3>4. QED
      BY <1>1, <3>3, BuiltinUsable DEF Seeded
  <2>7. CASE Advance(p)
    BY <1>0, <2>4, <2>5, <2>6, <2>7, Advances DEF ProcessEffects
  <2>8. CASE SeedFails(p)
    BY <1>0, <2>4, <2>5, <2>8, Stops DEF SeedFails, ProcessEffects
  <2>9. QED
    BY <2>1, <2>7, <2>8
<1>3. CASE SeedFails(p) /\ UNCHANGED providers
  BY <1>0, <1>3, NoRowWritten, Stops DEF SeedFails, ProcessEffects
<1>4. QED
  BY <1>2, <1>3 DEF SeedBuiltin

\* All steps of a process.
LEMMA ProcessSteps ==
  ASSUME Inv, NEW p \in Processes, Process(p)
  PROVE  ProcessEffects
<1>1. CASE StopProcess(p)
  <2>1. TypeOK
    BY DEF Inv
  <2>2. QED
    BY <1>1, <2>1, NoRowWritten, Stops DEF StopProcess, ProcessEffects
<1>2. QED
  BY <1>1, Starts, Looks, Seeds DEF Process

--------------------------------------------------------------------------------
\* Steps, together.

\* What every step does.
StepEffects ==
  /\ TableMoves /\ ProcessesMove /\ WithdrawalsMove
  /\ answer' \in Answers
  /\ \/ (\A i \in Rows : providers'[i] = providers[i]) /\ UNCHANGED answer
     \/ \E w \in Businesses \cup {Admin} : InReach(w) /\ AnswerFits(w)

\* One case for each actor.
LEMMA AllSteps ==
  ASSUME Inv, [Next]_vars
  PROVE  StepEffects
<1>0. TypeOK /\ StoredIsUsable /\ answer \in Answers
  BY DEF Inv, TypeOK
<1>1. ASSUME NEW w \in Businesses, Merchant(w)  PROVE StepEffects
  <2>1. CallEffects(w) /\ UNCHANGED <<step, target>>
    BY <1>0, <1>1, MerchantCalls
  <2>2. QED
    BY <2>1, ProcessesRest, WithdrawalsRest DEF CallEffects, AnswerFits, StepEffects
<1>2. CASE Manage
  <2>1. CASE \/ \E b \in Businesses \cup {NULL}, in \in Inputs : CreateProvider(b, in)
             \/ \E i \in Ids, in \in Inputs : UpdateProviderTemplate(i, in)
    <3>1. CallEffects(Admin) /\ UNCHANGED <<step, target>>
      BY <1>0, <2>1, ManageWrites
    <3>2. QED
      BY <3>1, ProcessesRest, WithdrawalsRest DEF CallEffects, AnswerFits, StepEffects
  <2>2. ASSUME NEW a \in Withdrawals, NEW i \in Ids \cup {NULL}, DeactivateProvider(a, i)
        PROVE  StepEffects
    <3>1. /\ TableMoves /\ InReach(Admin) /\ UNCHANGED seeding
          /\ UNCHANGED answer \/ AnswerFits(Admin)
          /\ WithdrawalsMove
      BY <2>2, WithdrawUpdates
    <3>2. ProcessesMove
      BY <3>1, ProcessesRest
    <3>3. CASE AnswerFits(Admin)
      BY <3>1, <3>2, <3>3 DEF AnswerFits, StepEffects
    <3>4. CASE UNCHANGED answer
      <4>1. i = NULL \/ ~providers[i].active \/ AnswerFits(Admin)
        <5>1. CASE Write(Admin, i, [providers[i] EXCEPT !.active = FALSE])
          <6>1. answer'.to = Admin
            BY <5>1 DEF Write, Said
          <6>2. answer' \in Answers
            BY <1>0, <3>4
          <6>3. QED
            BY <6>1, <6>2 DEF AnswerFits
        <5>2. QED
          BY <2>2, <5>1 DEF DeactivateProvider
      <4>2. CASE i = NULL \/ ~providers[i].active
        BY <1>0, <2>2, <3>1, <3>2, <3>4, <4>2 DEF DeactivateProvider, StepEffects
      <4>3. QED
        BY <3>3, <4>1, <4>2
    <3>5. QED
      BY <3>1, <3>3, <3>4
  <2>3. ASSUME NEW a \in Withdrawals, RereadProvider(a)  PROVE StepEffects
    <3>1. CallEffects(Admin) /\ WithdrawalsMove
      BY <2>3, WithdrawRereads
    <3>2. QED
      BY <3>1, ProcessesRest DEF CallEffects, AnswerFits, StepEffects
  <2>4. QED
    BY <1>2, <2>1, <2>2, <2>3 DEF Manage
<1>3. ASSUME NEW p \in Processes, Process(p)  PROVE StepEffects
  <2>1. ProcessEffects
    BY <1>3, ProcessSteps
  <2>2. QED
    BY <1>0, <2>1, WithdrawalsRest DEF ProcessEffects, StepEffects
<1>4. CASE UNCHANGED vars
  <2>1. UNCHANGED <<providers, seeding, step, target, answer>>
    BY <1>4 DEF vars
  <2>2. TableMoves
    BY <1>0, <2>1, NoRowWritten
  <2>3. QED
    BY <1>0, <2>1, <2>2, ProcessesRest, WithdrawalsRest DEF StepEffects
<1>5. QED
  BY <1>1, <1>2, <1>3, <1>4 DEF Next

\* Before anything runs there is no row.
LEMMA InitInv == Init => Inv
<1>1. SUFFICES ASSUME Init  PROVE Inv
  OBVIOUS
<1>2. Rows = {}
  BY <1>1 DEF Init, Rows
<1>3. TypeOK
  BY <1>1, TemplatesAssumption DEF Init, TypeOK, Answers, Said
<1>4. QED
  BY <1>1, <1>2, <1>3
     DEF Init, Inv, StoredIsUsable, PassedAreSeeded, FoundStays, RereadIsInactive

\* Steps keep the invariant.
LEMMA InductiveStep == Inv /\ [Next]_vars => Inv'
<1>1. SUFFICES ASSUME Inv, [Next]_vars  PROVE Inv'
  OBVIOUS
<1>2. StepEffects
  BY <1>1, AllSteps
<1>3. TypeOK'
  BY <1>2 DEF StepEffects, TableMoves, ProcessesMove, WithdrawalsMove, TypeOK
<1>4. StoredIsUsable'
  <2>1. SUFFICES ASSUME NEW i \in Rows'  PROVE Usable(providers'[i])
    BY DEF StoredIsUsable, Usable
  <2>2. i \in Ids /\ providers'[i] # NULL
    BY DEF Rows
  <2>3. providers'[i] = providers[i] \/ Usable(providers'[i])
    BY <1>2, <2>2 DEF StepEffects, TableMoves, MayBecome
  <2>4. CASE providers'[i] = providers[i]
    BY <1>1, <2>2, <2>4 DEF Inv, StoredIsUsable, Usable, Rows
  <2>5. QED
    BY <2>3, <2>4
<1>5. QED
  BY <1>2, <1>3, <1>4 DEF StepEffects, ProcessesMove, WithdrawalsMove, Inv

--------------------------------------------------------------------------------
\* Theorems.

\* The invariant holds of every reachable state.
THEOREM Invariance == Spec => []Inv
  BY InitInv, InductiveStep, PTL DEF Spec

\* Rows, processes and answers keep their types: in particular no edit and no
\* default stores a mode, a direction or a priority the table does not take.
THEOREM TypeCorrect == Spec => []TypeOK
<1>1. Inv => TypeOK
  BY DEF Inv
<1>2. QED
  BY <1>1, Invariance, PTL

\* Every stored template compiles to the pattern kept with it, which ingestion
\* compares (ProviderHandler, ManageHandler, SeedBuiltins).
THEOREM StoredCompiles == Spec => []StoredIsUsable
<1>1. Inv => StoredIsUsable
  BY DEF Inv
<1>2. QED
  BY <1>1, Invariance, PTL

\* A process that serves has seeded every builtin, whatever others did meanwhile
\* (SeedBuiltins, main.go:50-53).
THEOREM SeededBeforeServing == Spec => []ServesSeeded
<1>1. Inv => ServesSeeded
  BY DEF Inv, PassedAreSeeded, ServesSeeded, Seeded
<1>2. QED
  BY <1>1, Invariance, PTL

\* Whatever lexemes a text is made of, it is accepted if and only if the language
\* allows it, with the fields its braces name (Compile, tokenize).
THEOREM CompilerAgrees == Spec => []CompilesTheLanguage
<1>1. CompilesTheLanguage
  BY CompileAcceptsTheLanguage, TemplatesAssumption DEF CompilesTheLanguage
<1>2. QED
  BY <1>1, PTL

\* Tenants cannot change or see each other's rows (WHERE business_id = ..).
THEOREM NoTrespass == Spec => TenantsApart
<1>1. ASSUME Inv, [Next]_vars
      PROVE  /\ \A i \in Rows : providers'[i] # providers[i] =>
                  /\ providers'[i] # NULL
                  /\ providers'[i].business = providers[i].business
                  /\ answer'.to \in {providers[i].business, Admin}
             /\ answer' # answer /\ answer'.to \in Businesses /\ answer'.row # NULL =>
                  answer'.row.business \in {NULL, answer'.to}
  <2>1. StepEffects
    BY <1>1, AllSteps
  <2>2. ASSUME NEW i \in Rows
        PROVE  providers'[i] # NULL /\ providers'[i].business = providers[i].business
    BY <2>1, <2>2, RowsStay DEF StepEffects
  <2>3. CASE (\A i \in Rows : providers'[i] = providers[i]) /\ UNCHANGED answer
    BY <2>2, <2>3
  <2>4. ASSUME NEW w \in Businesses \cup {Admin}, InReach(w), AnswerFits(w)
        PROVE  /\ \A i \in Rows : providers'[i] # providers[i] =>
                    answer'.to \in {providers[i].business, Admin}
               /\ answer'.to \in Businesses /\ answer'.row # NULL =>
                    answer'.row.business \in {NULL, answer'.to}
    BY <2>4, TemplatesAssumption DEF InReach, AnswerFits
  <2>5. QED
    BY <2>1, <2>2, <2>3, <2>4 DEF StepEffects
<1>2. QED
  BY <1>1, Invariance, PTL DEF Spec, TenantsApart

\* What is switched off stays off, and whoever switched it off is shown so
\* (DeactivateProviderGlobal, GetProvider).
THEOREM OffStaysOff == Spec => DeactivatedIsFinal
<1>1. ASSUME Inv, [Next]_vars
      PROVE  /\ \A i \in Rows : ~providers[i].active => ~providers'[i].active
             /\ \A a \in Withdrawals :
                  step[a] # step'[a] /\ step'[a] = "done" /\ answer'.code = "ok" =>
                    ~answer'.row.active
  <2>1. StepEffects
    BY <1>1, AllSteps
  <2>2. QED
    BY <2>1, RowsStay DEF StepEffects, WithdrawalsMove, Told
<1>2. QED
  BY <1>1, Invariance, PTL DEF Spec, DeactivatedIsFinal

\* A start revives and repeats nothing it found (SeedBuiltins).
THEOREM SeedsOnce == Spec => SeedsOnlyMissing
<1>1. Inv => \A p \in Processes :
               phase[p] = "insert" /\ Free' # Free =>
                 Builtins[todo[p]].name \notin found[p] \/ phase'[p] = phase[p]
  BY DEF Inv, FoundStays
<1>2. QED
  BY <1>1, Invariance, PTL DEF Spec, SeedsOnlyMissing
==================================================================================

------------------------------- MODULE Templates -------------------------------
(***************************************************************************)
(* The table of SMS templates (providers): merchants and the administrator *)
(* create, edit and deactivate rows (handlers/providers.go and             *)
(* manage_more.go), and every process seeds the builtin ones when it       *)
(* starts, before it serves (services/seed.go, cmd/api/main.go).           *)
(*                                                                         *)
(* A call that validates its body and executes one statement is one step;  *)
(* the administrator's deactivation and the seeder take several, and       *)
(* several processes may start at once.                                    *)
(*                                                                         *)
(* A definition Name_Bug is Name with one plausible bug, kept beside it to *)
(* show that the properties notice; nothing refers to it.                  *)
(***************************************************************************)
EXTENDS Integers, SmsTemplate

CONSTANTS
  Businesses,   \* tenants
  Admin,        \* the holder of the management key
  Ids,          \* ids of providers rows
  Builtins,     \* builtinProviders: a sequence of [name, text]
  Inputs,       \* bodies of create and update requests
  Processes,    \* processes of the backend, each started again and again
  Withdrawals,  \* deactivations the administrator asks for, each served once
  Texts         \* the texts over which the compiler is compared with its grammar

Modes      == {"template", "regex"}
Directions == {"credit", "debit"}
Priorities == 0 .. 10000
Names      == {Builtins[n].name : n \in 1 .. Len(Builtins)}
Written    == {in.text : in \in Inputs} \cup {Builtins[n].text : n \in 1 .. Len(Builtins)}
Patterns   == {PatternOf(m, t) : m \in Modes, t \in Written}

\* A body; NULL stands for what it leaves out.
Input == [name : Names, text : Written, mode : Modes \cup {NULL},
          direction : Directions \cup {NULL}, priority : Int \cup {NULL},
          script : {"valid", "invalid", NULL}]

Row == [business : Businesses \cup {NULL}, name : Names, text : Written,
        mode : Modes, pattern : Patterns, direction : Directions,
        priority : Priorities, script : {"valid", NULL}, active : BOOLEAN]

ASSUME TemplatesAssumption ==
  /\ Inputs \subseteq Input
  /\ Builtins \in Seq([name : STRING, text : Seq(Lexemes)])
  /\ \A n \in 1 .. Len(Builtins) : Compile(Builtins[n].text) # Invalid
  /\ \A m, n \in 1 .. Len(Builtins) : Builtins[m].name = Builtins[n].name => m = n
  /\ Texts \subseteq Seq(Lexemes)
  /\ Admin \notin Businesses
  /\ NULL \notin Row \cup Businesses \cup Modes \cup Directions \cup {"valid", "invalid"}

VARIABLES
  providers,  \* table providers, by id; NULL: no such row
  phase,      \* phase[p]: what process p does
  todo,       \* todo[p]: the builtin its seeder is at
  step,       \* step[a]: the statement deactivation a executes next
  target,     \* target[a]: the row deactivation a is about
  answer,     \* the last answer: to whom, its code, and the row it shows
  found       \* history, found[p]: builtins that had a row when p last started

seeding == <<phase, todo, found>>
vars    == <<providers, seeding, step, target, answer>>

Answers == [to : Businesses \cup {Admin, NULL},
            code : {"none", "ok", "invalid", "not_found", "error"},
            row : Row \cup {NULL}]
Said(to, code, row) == [to |-> to, code |-> code, row |-> row]

TypeOK ==
  /\ providers \in [Ids -> Row \cup {NULL}]
  /\ phase \in [Processes -> {"off", "get", "insert", "serving", "failed"}]
  /\ todo \in [Processes -> 1 .. Len(Builtins) + 1]
  /\ step \in [Withdrawals -> {"update", "reread", "done"}]
  /\ target \in [Withdrawals -> Ids \cup {NULL}]
  /\ answer \in Answers
  /\ found \in [Processes -> SUBSET Names]

Init ==
  /\ providers = [i \in Ids |-> NULL]
  /\ phase = [p \in Processes |-> "off"]
  /\ todo = [p \in Processes |-> 1]
  /\ step = [a \in Withdrawals |-> "update"]
  /\ target = [a \in Withdrawals |-> NULL]
  /\ answer = Said(NULL, "none", NULL)
  /\ found = [p \in Processes |-> {}]

Rows     == {i \in Ids : providers[i] # NULL}
Free     == Ids \ Rows
Globals  == {i \in Rows : providers[i].business = NULL}
Owned(b) == {i \in Rows : providers[i].business = b}

--------------------------------------------------------------------------------
\* Creating and editing.

Default(value, otherwise) == IF value = NULL THEN otherwise ELSE value

ModeOf(in) == Default(in.mode, "template")

\* validateScriptRequest and compileByMode, before anything is written.
Accepted(in) == in.script # "invalid" /\ compileByMode(ModeOf(in), in.text) # Invalid

\* A priority outside 0..10000 is not an error: it counts as left out.
PriorityOf(in) ==
  IF in.priority # NULL /\ in.priority \in Priorities THEN in.priority ELSE 100

NewRow(b, in) ==
  [business |-> b, name |-> in.name, text |-> in.text, mode |-> ModeOf(in),
   pattern |-> PatternOf(ModeOf(in), in.text),
   direction |-> Default(in.direction, "credit"), priority |-> PriorityOf(in),
   script |-> in.script, active |-> TRUE]

\* The columns an edit replaces, all of them: what the body leaves out falls
\* back to its default.
Edited_KeepsMode(row, in) ==
  [row EXCEPT !.text = in.text, !.pattern = PatternOf(ModeOf(in), in.text),
              !.direction = Default(in.direction, "credit"), !.script = in.script]
Edited_Anew(row, in) == NewRow(row.business, in)
Edited(row, in) ==
  [row EXCEPT !.text = in.text, !.pattern = PatternOf(ModeOf(in), in.text),
              !.mode = ModeOf(in),
              !.direction = Default(in.direction, "credit"), !.script = in.script]

Refuse(w, code) == answer' = Said(w, code, NULL) /\ UNCHANGED providers

\* The statement replaces row i; its caller is told, or gets an error though it
\* was committed.
Write(w, i, row) ==
  /\ providers' = [providers EXCEPT ![i] = row]
  /\ answer' = Said(w, "ok", row) \/ answer' = Said(w, "error", NULL)

\* Create: a merchant's row belongs to its business.
Create(w, in) ==
  /\ w \in Businesses
  /\ \/ ~Accepted(in) /\ Refuse(w, "invalid")
     \/ Accepted(in) /\ \E i \in Free : Write(w, i, NewRow(w, in))
  /\ UNCHANGED <<seeding, step, target>>

\* ManageHandler.CreateProvider: for a business that exists, or for everyone.
CreateProvider(b, in) ==
  /\ b \in Businesses \cup {NULL}
  /\ \/ ~Accepted(in) /\ Refuse(Admin, "invalid")
     \/ Accepted(in) /\ \E i \in Free : Write(Admin, i, NewRow(b, in))
  /\ UNCHANGED <<seeding, step, target>>

\* WHERE id = .. AND business_id = ..: rows of other tenants and global rows are
\* not found.
Mine_OrGlobal(w) == Owned(w) \cup Globals
Mine(w) == Owned(w)

\* UpdateTemplate, active or not.
UpdateTemplate(w, i, in) ==
  /\ w \in Businesses
  /\ \/ ~Accepted(in) /\ Refuse(w, "invalid")
     \/ Accepted(in) /\ i \notin Mine(w) /\ Refuse(w, "not_found")
     \/ Accepted(in) /\ i \in Mine(w) /\ Write(w, i, Edited(providers[i], in))
  /\ UNCHANGED <<seeding, step, target>>

\* ManageHandler.UpdateProviderTemplate.
UpdateProviderTemplate(i, in) ==
  /\ \/ ~Accepted(in) /\ Refuse(Admin, "invalid")
     \/ Accepted(in) /\ i \notin Rows /\ Refuse(Admin, "not_found")
     \/ Accepted(in) /\ i \in Rows /\ Write(Admin, i, Edited(providers[i], in))
  /\ UNCHANGED <<seeding, step, target>>

--------------------------------------------------------------------------------
\* Deactivating and reading.

\* Deactivate: repeated, it finds the row again.
Deactivate(w, i) ==
  /\ w \in Businesses
  /\ \/ i \notin Mine(w) /\ Refuse(w, "not_found")
     \/ i \in Mine(w) /\ Write(w, i, [providers[i] EXCEPT !.active = FALSE])
  /\ UNCHANGED <<seeding, step, target>>

\* DeactivateProviderGlobal, an UPDATE of an active row.  Ids are random: one
\* that is named before its row exists, NULL here, never gets a row.
DeactivateProvider(a, i) ==
  /\ step[a] = "update"
  /\ i \in Rows \cup {NULL}
  /\ target' = [target EXCEPT ![a] = i]
  /\ \/ /\ i # NULL /\ providers[i].active
        /\ Write(Admin, i, [providers[i] EXCEPT !.active = FALSE])
        /\ step' = [step EXCEPT ![a] = "done"]
     \/ /\ ~(i # NULL /\ providers[i].active)
        /\ step' = [step EXCEPT ![a] = "reread"]
        /\ UNCHANGED <<providers, answer>>
  /\ UNCHANGED seeding

\* GetProvider tells a repeated deactivation from a row that does not exist.
RereadProvider(a) ==
  LET i == target[a] IN
  /\ step[a] = "reread"
  /\ step' = [step EXCEPT ![a] = "done"]
  /\ \/ i = NULL /\ Refuse(Admin, "not_found")
     \/ i # NULL /\ answer' = Said(Admin, "ok", providers[i]) /\ UNCHANGED providers
  /\ UNCHANGED <<seeding, target>>

\* Get: own and global rows.
Shown(w) == Owned(w) \cup Globals
Get(w, i) ==
  /\ w \in Businesses
  /\ \/ i \notin Shown(w) /\ Refuse(w, "not_found")
     \/ i \in Shown(w) /\ answer' = Said(w, "ok", providers[i]) /\ UNCHANGED providers
  /\ UNCHANGED <<seeding, step, target>>

--------------------------------------------------------------------------------
\* The seeder.

Seeded(names) == {n \in names : \E i \in Globals : providers[i].name = n}

StartProcess(p) ==
  /\ phase[p] = "off"
  /\ phase' = [phase EXCEPT ![p] = IF Builtins = <<>> THEN "serving" ELSE "get"]
  /\ todo' = [todo EXCEPT ![p] = 1]
  /\ found' = [found EXCEPT ![p] = Seeded(Names)]
  /\ UNCHANGED <<providers, step, target, answer>>

\* The builtin in hand is there: on to the next, and to serving after the last.
Advance(p) ==
  /\ todo' = [todo EXCEPT ![p] = @ + 1]
  /\ phase' = [phase EXCEPT ![p] = IF todo[p] = Len(Builtins) THEN "serving" ELSE "get"]

\* An error ends the process (log.Fatalf).
SeedFails_Ignored(p) == Advance(p)
SeedFails(p) == phase' = [phase EXCEPT ![p] = "failed"] /\ UNCHANGED todo

\* GetGlobalProviderByName: deactivated and edited rows count.
Existing_Active(name) ==
  {i \in Globals : providers[i].name = name /\ providers[i].active}
Existing(name) == {i \in Globals : providers[i].name = name}

GetGlobalProviderByName(p) ==
  /\ phase[p] = "get"
  /\ \/ Existing(Builtins[todo[p]].name) # {} /\ Advance(p)
     \/ /\ Existing(Builtins[todo[p]].name) = {}
        /\ phase' = [phase EXCEPT ![p] = "insert"]
        /\ UNCHANGED todo
     \/ SeedFails(p)
  /\ UNCHANGED <<providers, found, step, target, answer>>

BuiltinRow(n) ==
  NewRow(NULL, [name |-> Builtins[n].name, text |-> Builtins[n].text,
                mode |-> NULL, direction |-> NULL, priority |-> NULL, script |-> NULL])

\* CreateProvider; an error does not tell whether the row was committed.
SeedBuiltin(p) ==
  /\ phase[p] = "insert"
  /\ \/ \E i \in Free :
          /\ providers' = [providers EXCEPT ![i] = BuiltinRow(todo[p])]
          /\ Advance(p) \/ SeedFails(p)
     \/ SeedFails(p) /\ UNCHANGED providers
  /\ UNCHANGED <<found, step, target, answer>>

\* The process is stopped, or restarted after it failed.
StopProcess(p) ==
  /\ phase[p] # "off"
  /\ phase' = [phase EXCEPT ![p] = "off"]
  /\ UNCHANGED <<providers, todo, found, step, target, answer>>

--------------------------------------------------------------------------------
Merchant(w) ==
  \/ \E in \in Inputs : Create(w, in)
  \/ \E i \in Ids, in \in Inputs : UpdateTemplate(w, i, in)
  \/ \E i \in Ids : Deactivate(w, i)
  \/ \E i \in Ids : Get(w, i)

Manage ==
  \/ \E b \in Businesses \cup {NULL}, in \in Inputs : CreateProvider(b, in)
  \/ \E i \in Ids, in \in Inputs : UpdateProviderTemplate(i, in)
  \/ \E a \in Withdrawals, i \in Ids \cup {NULL} : DeactivateProvider(a, i)
  \/ \E a \in Withdrawals : RereadProvider(a)

Process(p) ==
  \/ StartProcess(p)
  \/ GetGlobalProviderByName(p)
  \/ SeedBuiltin(p)
  \/ StopProcess(p)

\* Calls are served only while a process serves.
Next ==
  \/ /\ \E p \in Processes : phase[p] = "serving"
     /\ (\E w \in Businesses : Merchant(w)) \/ Manage
  \/ \E p \in Processes : Process(p)

Spec == Init /\ [][Next]_vars

--------------------------------------------------------------------------------
\* Correctness.

\* Whatever edits raced, the pattern kept with a template is the one its text
\* compiles to in its mode: ingestion passes over a template of which this is not
\* so, without a word (ingest.go:80-91).
StoredIsUsable ==
  \A i \in Rows :
    /\ compileByMode(providers[i].mode, providers[i].text) # Invalid
    /\ providers[i].pattern = PatternOf(providers[i].mode, providers[i].text)

\* A row changes only by a call of its owner or of the administrator, and never
\* changes hands; a merchant is shown its own rows and the global ones
\* (WHERE business_id = .., ProviderHandler.Get).
TenantsApart ==
  [][/\ \A i \in Rows : providers'[i] # providers[i] =>
          /\ providers'[i] # NULL
          /\ providers'[i].business = providers[i].business
          /\ answer'.to \in {providers[i].business, Admin}
     /\ answer' # answer /\ answer'.to \in Businesses /\ answer'.row # NULL =>
          answer'.row.business \in {NULL, answer'.to}]_vars

\* A deactivated template stays out: no edit and no restart brings it back, and
\* whoever is told that it is deactivated is shown it inactive.
DeactivatedIsFinal ==
  [][/\ \A i \in Rows : ~providers[i].active => ~providers'[i].active
     /\ \A a \in Withdrawals :
          step[a] # step'[a] /\ step'[a] = "done" /\ answer'.code = "ok" =>
            ~answer'.row.active]_vars

\* A process inserts only builtins that had no row when it started: a restart
\* revives none that was deactivated and undoes no edit, however often and with
\* whatever errors processes start (SeedBuiltins).
SeedsOnlyMissing ==
  [][\A p \in Processes :
       phase[p] = "insert" /\ Free' # Free =>
         Builtins[todo[p]].name \notin found[p] \/ phase'[p] = phase[p]]_vars

\* A process serves only when every builtin is in the table (main.go:50-53).
ServesSeeded ==
  \A p \in Processes : phase[p] = "serving" => Seeded(Names) = Names

\* The compiler accepts exactly the texts the language allows, with exactly their
\* fields, and a regular expression is no way around the limit on their length
\* (tokenize, Compile, CompileRegex).  No state matters to it: the texts are
\* compared once, before anything runs.
CompilesTheLanguage ==
  Rows = {} /\ (\A p \in Processes : phase[p] = "off") =>
    \A t \in Texts :
      /\ (Compile(t) # Invalid) <=> Grammatical(t)
      /\ Grammatical(t) => DOMAIN Compile(t) = PlaceholdersOf(t)
      /\ CompileRegex(t) # Invalid => ByteLength(normalizeText(t)) <= maxTemplateLength
================================================================================

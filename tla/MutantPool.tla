------------------------------ MODULE MutantPool ------------------------------
(***************************************************************************)
(* The mutant tables of tb/perf: wa_mutants.py, xc7_mutants.py and         *)
(* dfpmis_mutants.py.  Each row edits a scratch copy of rtl/, builds it    *)
(* and runs programs on it; a pool of threads works on the rows and the    *)
(* main thread prints the verdicts in the order of the table.              *)
(*                                                                         *)
(* A source file is a sequence of fragments, an edit replaces one.  The    *)
(* scratch directories survive a session that is killed, and the sources   *)
(* change between sessions.                                                *)
(***************************************************************************)
EXTENDS Naturals, FiniteSets, SequencesExt

CONSTANTS Names,    \* the rows of this invocation, in order
          Edits,    \* per row: its edits, a sequence of [file, old, new]
          Equiv,    \* the rows argued equivalent
          Sources,  \* per session: rtl/ as it stands then
          Broken,   \* fragments the compiler refuses
          Fails,    \* per run of a program: the fragments it notices
          Plans,    \* per script: PROGS, a sequence of [prog, kind]
          Jobs      \* the -j option

Sequence(s) == s \in Seq(ToSet(s))
Tree(t) == t = [f \in DOMAIN t |-> t[f]] /\ \A f \in DOMAIN t : Sequence(t[f])

ASSUME RowsAssumption ==
  /\ Names \in Seq(DOMAIN Edits) /\ IsInjective(Names)
  /\ Jobs \in Nat \ {0}
  /\ \A s \in DOMAIN Plans : Plans[s] # <<>> /\ Sequence(Plans[s])
  /\ \A n \in DOMAIN Edits : Sequence(Edits[n])
  /\ Sources # <<>> /\ Sequence(Sources) /\ \A s \in DOMAIN Sources : Tree(Sources[s])

\* What the tables keep to: an edit names a file of rtl/, and what one edit of a
\* row looks for is neither what another one of the same file looks for nor what
\* it puts there.  dfpmis_mutants.py runs one program.
ASSUME TablesAssumption ==
  /\ \A n \in DOMAIN Edits : \A k \in DOMAIN Edits[n] :
       /\ \A s \in DOMAIN Sources : Edits[n][k].file \in DOMAIN Sources[s]
       /\ \A j \in DOMAIN Edits[n] \ {k} :
            Edits[n][j].file = Edits[n][k].file =>
              Edits[n][j].old # Edits[n][k].old /\ Edits[n][j].new # Edits[n][k].old
  /\ "dfpmis" \in DOMAIN Plans => Len(Plans["dfpmis"]) = 1

VARIABLES
  script, all_progs,  \* which script, and its -a option
  session,            \* sessions so far; a killed one leaves its files
  main,               \* the main thread
  fut,                \* per row: its future
  at,                 \* per row: how far its run() is
  row,                \* per row: what run() returned
  dir,                \* per row: its directory under out/
  printed             \* the rows printed

pool == <<script, all_progs, session, main, fut, at, row, dir, printed>>

Rows == ToSet(Names)
Plan == Plans[script]
Kinds == {Plan[p].kind : p \in DOMAIN Plan}

\* run() before its first statement: no edit made, nothing built, nothing run.
Entry == [step |-> "copy", k |-> 1, p |-> 1, vvps |-> {}, res |-> <<>>, caught |-> FALSE]
Empty == [rtl |-> <<>>, vvp |-> <<>>, log |-> <<>>]
NoRow == [verdict |-> "none", res |-> <<>>]

\* A file is written, or written anew.
Put(files, f, what) ==
  [g \in DOMAIN files \cup {f} |-> IF g = f THEN what ELSE files[g]]

Count(s, x) == Cardinality({i \in DOMAIN s : s[i] = x})
Fragments(tree) == UNION {ToSet(tree[f]) : f \in DOMAIN tree}

PoolTypeOK ==
  /\ script \in DOMAIN Plans /\ all_progs \in BOOLEAN
  /\ session \in 1..Len(Sources)
  /\ main \in {"assemble", "mapping", "raising", "done", "raised"}
  /\ fut \in [Rows -> {"none", "queued", "running", "finished", "raised", "cancelled"}]
  /\ \A n \in Rows : at[n].k \in 1..Len(Edits[n]) + 1 /\ at[n].p \in DOMAIN Plan
  /\ Len(printed) <= Len(Names)

-------------------------------------------------------------------------------
\* One row: run(name, ...) in its worker thread.

RowAt(n, step) == fut[n] = "running" /\ at[n].step = step

Keep == UNCHANGED <<script, all_progs, session, main, printed>>

\* run() returns: the future holds the row.
Return(n, verdict, res) ==
  /\ row' = [row EXCEPT ![n] = [verdict |-> verdict, res |-> res]]
  /\ fut' = [fut EXCEPT ![n] = "finished"]

\* A statement of run() raises: the future holds the exception.
Raise(n) ==
  /\ fut' = [fut EXCEPT ![n] = "raised"]
  /\ UNCHANGED <<row, at, dir>>

\* rmtree(ignore_errors=True) and copytree.  What an earlier session left goes;
\* if it cannot be removed, or the disk is full, copytree raises.
Copy(n) ==
  /\ RowAt(n, "copy")
  /\ \/ /\ dir' = [dir EXCEPT ![n] = [Empty EXCEPT !.rtl = Sources[session]]]
        /\ at' = [at EXCEPT ![n].step = "edit"]
        /\ UNCHANGED <<fut, row>>
     \/ Raise(n)

\* s.replace(old, new).
Edited(text, e) == [i \in DOMAIN text |-> IF text[i] = e.old THEN e.new ELSE text[i]]

\* Mutant of Edit: the text is replaced without counting its matches.
EditUnchecked(n) ==
  LET a == at[n]
      e == Edits[n][a.k]
  IN  /\ RowAt(n, "edit")
      /\ IF a.k > Len(Edits[n])
         THEN /\ at' = [at EXCEPT ![n].step = "prog"] /\ UNCHANGED <<fut, row, dir>>
         ELSE /\ dir' = [dir EXCEPT ![n].rtl[e.file] = Edited(@, e)]
              /\ at' = [at EXCEPT ![n].k = a.k + 1]
              /\ UNCHANGED <<fut, row>>

\* The loop over the edits: each must find its old text exactly once.
Edit(n) ==
  LET a == at[n]
      e == Edits[n][a.k]
  IN  /\ RowAt(n, "edit")
      /\ IF a.k > Len(Edits[n])
         THEN /\ at' = [at EXCEPT ![n].step = "prog"]
              /\ UNCHANGED <<fut, row, dir>>
         ELSE IF Count(dir[n].rtl[e.file], e.old) # 1
         THEN Return(n, "does not apply", <<>>) /\ UNCHANGED <<at, dir>>
         ELSE /\ dir' = [dir EXCEPT ![n].rtl[e.file] = Edited(@, e)]
              /\ at' = [at EXCEPT ![n].k = a.k + 1]
              /\ UNCHANGED <<fut, row>>

\* build(): the bench this program needs, compiled from the scratch tree the
\* first time it is needed (the script's own dictionary says so, not the disk).
MustBuild(n) == Plan[at[n].p].kind \notin at[n].vvps

Build(n) ==
  LET kind == Plan[at[n].p].kind
  IN  /\ RowAt(n, "prog") /\ MustBuild(n)
      /\ IF Fragments(dir[n].rtl) \cap Broken # {}
         THEN Return(n, "does not compile", <<>>) /\ UNCHANGED <<at, dir>>
         ELSE /\ dir' = [dir EXCEPT ![n].vvp = Put(@, kind, dir[n].rtl)]
              /\ at' = [at EXCEPT ![n].vvps = @ \cup {kind}]
              /\ UNCHANGED <<fut, row>>

\* One simulation under `timeout`: its log is written anew.  A program may run
\* out of time whether or not it would have noticed the mutant.
Outcomes(p, tree) ==
  {IF Fragments(tree) \cap Fails[p] = {} THEN "pass" ELSE "fail", "timeout"}

Simulate(n) ==
  LET p == Plan[at[n].p]
  IN  /\ RowAt(n, "prog") /\ ~MustBuild(n)
      /\ \E o \in Outcomes(p, dir[n].vvp[p.kind]) :
           dir' = [dir EXCEPT ![n].log = Put(@, p, o)]
      /\ at' = [at EXCEPT ![n].step = "log"]
      /\ UNCHANGED <<fut, row>>

\* The verdict once the loop over PROGS has ended.
Verdict(n, caught) ==
  IF caught THEN "caught" ELSE IF n \in Equiv THEN "survived, expected" ELSE "survived"

\* wa_mutants.py and xc7_mutants.py: the log is read, and the next program
\* runs unless the row is caught and -a was not given.
ReadLog(n) ==
  LET a == at[n]
      o == dir[n].log[Plan[a.p]]
      res == Append(a.res, o)
      caught == a.caught \/ o # "pass"
  IN  /\ RowAt(n, "log")
      /\ IF a.p = Len(Plan) \/ (caught /\ ~all_progs)
         THEN Return(n, Verdict(n, caught), res) /\ UNCHANGED at
         ELSE /\ at' = [at EXCEPT ![n] = [a EXCEPT !.step = "prog", !.p = @ + 1,
                                                   !.res = res, !.caught = caught]]
              /\ UNCHANGED <<fut, row>>
      /\ UNCHANGED dir

\* dfpmis_mutants.py: one program, one log, no expected survivors.
ReadOnlyLog(n) ==
  /\ RowAt(n, "log")
  /\ LET o == dir[n].log[Plan[1]]
     IN  Return(n, IF o = "pass" THEN "survived" ELSE "caught", <<o>>)
  /\ UNCHANGED <<at, dir>>

-------------------------------------------------------------------------------
\* The three run() functions.

Prepare(n) == Copy(n) \/ Edit(n) \/ Build(n) \/ Simulate(n)

WaRow(n) == script = "wa" /\ (Prepare(n) \/ ReadLog(n)) /\ Keep
Xc7Row(n) == script = "xc7" /\ (Prepare(n) \/ ReadLog(n)) /\ Keep
DfpmisRow(n) == script = "dfpmis" /\ (Prepare(n) \/ ReadOnlyLog(n)) /\ Keep

-------------------------------------------------------------------------------
\* main(): the programs are assembled first (check=True: a failure raises), then
\* every row is submitted; the pool starts them in order, -j at a time.

KeepRows == UNCHANGED <<script, all_progs, session, at, row, dir>>

Assemble ==
  /\ main = "assemble"
  /\ \/ main' = "mapping" /\ fut' = [n \in Rows |-> "queued"]
     \/ main' = "raised" /\ UNCHANGED fut
  /\ KeepRows /\ UNCHANGED printed

StartRow ==
  /\ \E i \in DOMAIN Names :
       /\ fut[Names[i]] = "queued"
       /\ \A h \in 1..i - 1 : fut[Names[h]] # "queued"
       /\ fut' = [fut EXCEPT ![Names[i]] = "running"]
  /\ Cardinality({n \in Rows : fut[n] = "running"}) < Jobs
  /\ KeepRows /\ UNCHANGED <<main, printed>>

\* Mutant of PrintRow: the future's exception is never asked for.
PrintFinished ==
  /\ main = "mapping" /\ Len(printed) < Len(Names)
  /\ fut[Names[Len(printed) + 1]] = "finished"
  /\ printed' = Append(printed, row[Names[Len(printed) + 1]])
  /\ KeepRows /\ UNCHANGED <<main, fut>>

\* ex.map yields in order.  An exception ends the loop: the rows still queued are
\* cancelled, those running are waited for, what they return is not printed.
PrintRow ==
  LET n == Names[Len(printed) + 1]
  IN  /\ main = "mapping" /\ Len(printed) < Len(Names)
      /\ \/ /\ fut[n] = "finished"
            /\ printed' = Append(printed, row[n])
            /\ UNCHANGED <<main, fut>>
         \/ /\ fut[n] = "raised"
            /\ main' = "raising"
            /\ fut' = [m \in Rows |-> IF fut[m] = "queued" THEN "cancelled" ELSE fut[m]]
            /\ UNCHANGED printed
      /\ KeepRows

\* The pool's `with` ends when no thread runs any more.
Shutdown ==
  /\ \A n \in Rows : fut[n] # "running"
  /\ \/ main = "mapping" /\ Len(printed) = Len(Names) /\ main' = "done"
     \/ main = "raising" /\ main' = "raised"
  /\ KeepRows /\ UNCHANGED <<fut, printed>>

\* The user stops the script at any moment, edits rtl/ and starts it again.
\* (A simulation that outlives it writes a log that Copy has unlinked.)
Fresh ==
  /\ fut' = [n \in Rows |-> "none"]
  /\ at' = [n \in Rows |-> Entry]
  /\ row' = [n \in Rows |-> NoRow]
  /\ printed' = <<>>

KillAndRestart ==
  /\ session < Len(Sources) /\ main \notin {"assemble", "done"}
  /\ session' = session + 1 /\ main' = "assemble"
  /\ Fresh /\ UNCHANGED <<script, all_progs, dir>>

PoolInit ==
  /\ script \in DOMAIN Plans /\ all_progs \in BOOLEAN
  /\ session = 1 /\ main = "assemble"
  /\ fut = [n \in Rows |-> "none"] /\ at = [n \in Rows |-> Entry]
  /\ row = [n \in Rows |-> NoRow] /\ dir = [n \in Rows |-> Empty]
  /\ printed = <<>>

Step == Assemble \/ StartRow \/ PrintRow \/ Shutdown
          \/ \E n \in Rows : WaRow(n) \/ Xc7Row(n) \/ DfpmisRow(n)
PoolNext == Step \/ KillAndRestart

\* The threads run and the simulations end (`timeout` sees to that).
Fairness ==
  /\ WF_pool(Assemble) /\ WF_pool(StartRow) /\ WF_pool(PrintRow) /\ WF_pool(Shutdown)
  /\ \A n \in Rows : WF_pool(WaRow(n) \/ Xc7Row(n) \/ DfpmisRow(n))
PoolSpec == PoolInit /\ [][PoolNext]_pool /\ Fairness

-------------------------------------------------------------------------------
\* What a row is meant to test: the session's tree with each of its edits made.
Anchored(n) ==
  \A k \in DOMAIN Edits[n] : Count(Sources[session][Edits[n][k].file], Edits[n][k].old) = 1
Intended(n) ==
  UNION {LET mine == {k \in DOMAIN Edits[n] : Edits[n][k].file = f}
         IN  {IF \E k \in mine : Edits[n][k].old = x
              THEN Edits[n][CHOOSE k \in mine : Edits[n][k].old = x].new
              ELSE x : x \in ToSet(Sources[session][f])} : f \in DOMAIN Sources[session]}
Noticed(n, p) == Intended(n) \cap Fails[Plan[p]] # {}

\* A printed row is true of its mutant and of the sources of this session,
\* whatever other rows ran beside it, whatever an interrupted session left in
\* its directory and however far a run got: every program's result is that of
\* the intended tree, "survived" means that every program of PROGS ran and
\* passed, and a row is refused exactly when its edits do not fit
\* (wa_mutants.py:97-132, "EDIT DID NOT APPLY", the verdict line).
RowTrue(n, r) ==
  /\ (r.verdict = "does not apply") <=> ~Anchored(n)
  /\ (r.verdict = "does not compile") <=> Anchored(n) /\ Intended(n) \cap Broken # {}
  /\ \A p \in DOMAIN r.res : r.res[p] # "timeout" => ((r.res[p] = "fail") <=> Noticed(n, p))
  /\ (r.verdict = "caught") <=> \E p \in DOMAIN r.res : r.res[p] # "pass"
  /\ \/ r.verdict \in {"survived", "survived, expected"} \/ (r.res # <<>> /\ all_progs)
     => Len(r.res) = Len(Plan)

RowsTrue == \A i \in DOMAIN printed : RowTrue(Names[i], printed[i])

\* The script ends: with a row for every name, or with the exception of the first
\* row that raised, after the rows before it (the pool's `with`, ex.map).
Ended ==
  \/ main = "done" /\ Len(printed) = Len(Names)
  \/ main = "raised" /\ (printed = <<>> \/ fut[Names[Len(printed) + 1]] = "raised")
TableEnds == <>[]Ended

===============================================================================

-------------------------- MODULE TrainingRuns_proofs --------------------------
(***************************************************************************)
(* Proofs about TrainingRuns, for any number of calls, runs, suggestions   *)
(* and observations, whatever the calls ask for and whichever die.         *)
(***************************************************************************)
EXTENDS TrainingRuns, FiniteSetTheorems, TLAPS

OfRun(c) == req[c].kind \in {"update", "delete"}
Reporting == {"recheck", "insert_observation", "name_observation"}

(* What a call knows of the run where it stands.                           *)
Shape(c) ==
  /\ pc[c] # "idle" => req[c] \in Request
  /\ pc[c] \in {"reread", "flag_run"} => OfRun(c)
  /\ pc[c] \in {"write", "examine"} \cup Reporting => req[c].kind = "update"
  /\ (pc[c] \in Looking /\ OfRun(c)) => Run(c) # NoRow
  /\ (pc[c] = "flag_suggestions" /\ OfRun(c))
       => held[c] # NoRow /\ marked[c] \subseteq {Run(c).suggestion}
  /\ pc[c] = "flag_runs" => req[c].kind = "deleteexp"
  /\ pc[c] = "flag_experiment" => req[c].kind \in {"deleteexp", "restoreexp"}
  /\ pc[c] = "insert_reported" => req[c].kind = "obscreate" /\ req[c].reports # Same
  /\ pc[c] = "write" => req[c].state # None
  /\ pc[c] \in Reporting => held[c] # NoRow /\ held[c].suggestion = Run(c).suggestion
  /\ pc[c] = "name_observation" => held[c].observation # None
  /\ pc[c] = "insert_run" =>
       /\ held[c] # NoRow
       /\ held[c].suggestion # None
            => held[c].state = "active" /\ suggestion[held[c].suggestion] # NoRow
  /\ pc[c] = "upsert" => kept[c] # NoRow
  /\ pc[c] = "rewrite" => copies[c][req[c].observation] # NoRow
ShapeInv == \A c \in Calls : Shape(c)

(* A suggestion belongs to one run.                                        *)
OwnSuggestion ==
  /\ \A r \in Runs : (run[r] # NoRow /\ run[r].suggestion # None)
                       => suggestion[run[r].suggestion] # NoRow
  /\ \A r1, r2 \in Runs :
       (r1 # r2 /\ run[r1] # NoRow /\ run[r2] # NoRow /\ run[r1].suggestion # None)
         => run[r1].suggestion # run[r2].suggestion
  /\ \A c \in Calls, r \in Runs :
       (pc[c] = "insert_run" /\ run[r] # NoRow /\ held[c].suggestion # None)
         => held[c].suggestion # run[r].suggestion
  /\ \A c, d \in Calls :
       (c # d /\ pc[c] = "insert_run" /\ pc[d] = "insert_run" /\ held[c].suggestion # None)
         => held[c].suggestion # held[d].suggestion

(* An id that is allotted is in the table's domain and free.               *)
LEMMA NewIsFree ==
  ASSUME NEW table, ~Full(table)
  PROVE  New(table) \in DOMAIN table /\ table[New(table)] = NoRow
BY DEF Full, New

(* Types. *)
LEMMA TypeStep ==
  ASSUME TypeOK, ShapeInv, [Next]_vars
  PROVE  TypeOK'
<1> USE DEF TypeOK, tables, locals, history
<1>1. ASSUME NEW c \in Calls, Arrive(c) PROVE TypeOK'
  <2>1. ASSUME NEW q, NEW label \in Labels, Begin(c, q, label)
        PROVE  /\ pc' \in [Calls -> Labels] /\ req' \in [Calls -> Request \cup {NoRequest}]
               /\ met' \in [Calls -> SUBSET Calls]
               /\ q \in Request
    BY <2>1, InputAssumption DEF Begin, Goto
  <2>2. CASE BeginCreate(c)
    BY <2>1, <2>2 DEF BeginCreate, Begin, Labels, Onward
  <2>3. CASE BeginUpdate(c)
    BY <2>1, <2>3 DEF BeginUpdate, Begin, Labels, Onward
  <2>4. CASE BeginDelete(c)
    BY <2>1, <2>4 DEF BeginDelete, Begin, Labels, Onward
  <2>5. CASE BeginDeleteExperiment(c)
    BY <2>1, <2>5 DEF BeginDeleteExperiment, Begin, Labels, Onward
  <2>6. CASE BeginSuggestionUpdate(c)
    <3>1. PICK q \in Asked(c) : Begin(c, q, "upsert") /\ kept' = [kept EXCEPT ![c] = suggestion[q.suggestion]]
      BY <2>6 DEF BeginSuggestionUpdate
    <3>2. q \in Request /\ q.suggestion \in Suggestions
      BY <2>1, <3>1 DEF Labels, Request
    <3>3. kept' \in [Calls -> SuggestionRow \cup {NoRow}]
      BY <3>1, <3>2 DEF SuggestionTable
    <3> QED BY <2>1, <2>6, <3>1, <3>3 DEF BeginSuggestionUpdate, Begin, Labels
  <2>7. CASE BeginSuggestionsDelete(c)
    <3>1. PICK q \in Asked(c) :
            /\ q.kind \in SuggestionDeletions /\ Begin(c, q, "flag_suggestions")
            /\ marked' = [marked EXCEPT ![c] =
                 CASE q.kind = "sugdelete" -> {q.suggestion}
                   [] q.kind = "sugdeleteall" -> Suggestions
                   [] q.kind = "sugdeleteopen" -> Open]
      BY <2>7 DEF BeginSuggestionsDelete
    <3>2. q \in Request /\ q.suggestion \in Suggestions
      BY <2>1, <3>1 DEF Labels, Request
    <3>3. Open \subseteq Suggestions
      BY DEF Open
    <3>4. marked' \in [Calls -> SUBSET Suggestions]
      BY <3>1, <3>2, <3>3 DEF SuggestionDeletions
    <3> QED BY <2>1, <2>7, <3>1, <3>4 DEF BeginSuggestionsDelete, Begin, Labels
  <2>8. CASE BeginObservationUpdate(c)
    <3>1. PICK q \in Asked(c) :
            /\ Begin(c, q, "rewrite")
            /\ copies' = [copies EXCEPT ![c][q.observation] = observation[q.observation]]
      BY <2>8 DEF BeginObservationUpdate
    <3>2. q \in Request /\ q.observation \in Observations
      BY <2>1, <3>1 DEF Labels, Request
    <3>3. copies[c] \in ObservationTable /\ observation[q.observation] \in ObservationRow \cup {NoRow}
      BY <3>2 DEF ObservationTable
    <3>4. [copies[c] EXCEPT ![q.observation] = observation[q.observation]] \in ObservationTable
      BY <3>2, <3>3 DEF ObservationTable
    <3>5. copies' \in [Calls -> ObservationTable]
      BY <3>1, <3>4
    <3> QED BY <2>1, <2>8, <3>1, <3>5 DEF BeginObservationUpdate, Begin, Labels
  <2>9. CASE BeginObservationsDelete(c)
    BY <2>1, <2>9 DEF BeginObservationsDelete, Begin, Labels, Onward
  <2>10. CASE BeginCheckpoint(c)
    BY <2>1, <2>10 DEF BeginCheckpoint, Begin, Labels, Onward
  <2>11. CASE BeginRestoreExperiment(c)
    BY <2>1, <2>11 DEF BeginRestoreExperiment, Begin, Labels
  <2>12. CASE BeginObservationCreate(c)
    BY <2>1, <2>12 DEF BeginObservationCreate, Begin, Labels
  <2> QED BY <1>1, <2>2, <2>3, <2>4, <2>5, <2>6, <2>7, <2>8, <2>9, <2>10, <2>11, <2>12 DEF Arrive
<1>2. ASSUME NEW c \in Calls, Step(c) PROVE TypeOK'
  <2>1. Shape(c)
    BY DEF ShapeInv
  <2>2. CASE ServeSuggestion(c)
    <3>1. ASSUME NEW s \in Suggestions \cup {None}
          PROVE  [suggestion |-> s, observation |-> None, state |-> "active",
                  deleted |-> FALSE] \in RunRow
      BY DEF RunRow, States
    <3>2. [deleted |-> FALSE, edits |-> {}] \in SuggestionRow
      BY DEF SuggestionRow
    <3>3. pc' \in [Calls -> Labels]
      BY <2>2 DEF ServeSuggestion, Goto, Labels
    <3>4. CASE /\ Insert(suggestion, c, "suggestion")
               /\ suggestion' = [suggestion EXCEPT ![New(suggestion)] =
                    [deleted |-> FALSE, edits |-> {}]]
               /\ held' = [held EXCEPT ![c] =
                    [suggestion |-> New(suggestion), observation |-> None, state |-> "active", deleted |-> FALSE]]
      <4>1. New(suggestion) \in Suggestions
        BY <3>4, NewIsFree DEF Insert, SuggestionTable
      <4>2. author' \in [Rows -> Calls \cup {None}]
        BY <3>4, <4>1 DEF Insert
      <4>3. suggestion' \in SuggestionTable
        BY <3>2, <3>4, <4>1 DEF SuggestionTable
      <4>4. held' \in [Calls -> RunRow \cup {NoRow}]
        BY <3>1, <3>4, <4>1
      <4> QED BY <2>2, <3>3, <4>2, <4>3, <4>4 DEF ServeSuggestion
    <3> QED BY <2>2, <3>1, <3>3, <3>4 DEF ServeSuggestion
  <2>3. CASE ServeObservation(c)
    <3>1. ASSUME NEW o \in Observations \cup {None}
          PROVE  [suggestion |-> None, observation |-> o, state |-> "completed",
                  deleted |-> FALSE] \in RunRow
      BY DEF RunRow, States
    <3>2. [suggestion |-> None, deleted |-> FALSE, edits |-> {}] \in ObservationRow
      BY DEF ObservationRow
    <3>3. pc' \in [Calls -> Labels]
      BY <2>3 DEF ServeObservation, Goto, Labels
    <3>4. CASE /\ Insert(observation, c, "observation")
               /\ observation' = [observation EXCEPT ![New(observation)] =
                    [suggestion |-> None, deleted |-> FALSE, edits |-> {}]]
               /\ held' = [held EXCEPT ![c] =
                    [suggestion |-> None, observation |-> New(observation), state |-> "completed", deleted |-> FALSE]]
      <4>1. New(observation) \in Observations
        BY <3>4, NewIsFree DEF Insert, ObservationTable
      <4>2. author' \in [Rows -> Calls \cup {None}]
        BY <3>4, <4>1 DEF Insert
      <4>3. observation' \in ObservationTable
        BY <3>2, <3>4, <4>1 DEF ObservationTable
      <4>4. held' \in [Calls -> RunRow \cup {NoRow}]
        BY <3>1, <3>4, <4>1
      <4> QED BY <2>3, <3>3, <4>2, <4>3, <4>4 DEF ServeObservation
    <3> QED BY <2>3, <3>1, <3>3, <3>4 DEF ServeObservation
  <2>4. CASE InsertRun(c)
    BY <2>4 DEF InsertRun, Insert, Goto, Labels, RunTable
  <2>5. CASE Reread(c)
    <3>1. req[c].run \in Runs
      BY <2>1, <2>5 DEF Shape, Reread, At, Request
    <3>2. Run(c) \in RunRow /\ {Run(c).suggestion} \ {None} \subseteq Suggestions
      BY <2>1, <2>5, <3>1 DEF Shape, Reread, At, Run, RunTable, RunRow, Looking
    <3> QED BY <2>5, <3>2 DEF Reread, Goto, Labels, ToObservations
  <2>6. CASE FlagSuggestions(c)
    <3>1. Flag(c) \in BOOLEAN
      BY DEF Flag
    <3>2. ASSUME NEW s \in Suggestions, suggestion[s] # NoRow
          PROVE  [suggestion[s] EXCEPT !.deleted = Flag(c)] \in SuggestionRow
      BY <3>1, <3>2 DEF SuggestionTable, SuggestionRow
    <3>3. suggestion' \in SuggestionTable
      BY <2>6, <3>2 DEF FlagSuggestions, SuggestionTable
    <3>4. marked' \in [Calls -> SUBSET Suggestions] /\ pc' \in [Calls -> Labels]
      BY <2>6 DEF FlagSuggestions, Goto, Labels, ToObservations
    <3> QED BY <2>6, <3>3, <3>4 DEF FlagSuggestions
  <2>7. CASE ReadObservations(c)
    BY <2>7 DEF ReadObservations, Goto, Labels, ObservationTable
  <2>8. CASE WriteObservations(c)
    <3>1. Flag(c) \in BOOLEAN
      BY DEF Flag
    <3>2. ASSUME NEW o \in Observations, copies[c][o] # NoRow
          PROVE  Flagged(c, copies[c][o]) \in ObservationRow
      <4>1. copies[c][o] \in ObservationRow
        BY <3>2 DEF ObservationTable
      <4> QED BY <3>1, <4>1 DEF ObservationRow, Flagged
    <3>3. observation' \in ObservationTable
      BY <2>8, <3>2 DEF WriteObservations, ObservationTable
    <3>4. copies' \in [Calls -> ObservationTable] /\ pc' \in [Calls -> Labels]
      BY <2>8 DEF WriteObservations, Goto, Labels, NoCopies, ObservationTable
    <3> QED BY <2>8, <3>3, <3>4 DEF WriteObservations
  <2>9. CASE FlagRun(c)
    <3>1. req[c].run \in Runs /\ run[req[c].run] \in RunRow
      BY <2>1, <2>9 DEF Shape, FlagRun, At, Request, Run, RunTable, Looking
    <3>2. Flag(c) \in BOOLEAN
      BY <2>9 DEF Shape, Flag
    <3>3. [run[req[c].run] EXCEPT !.deleted = Flag(c)] \in RunRow
      BY <3>1, <3>2 DEF RunRow
    <3>4. run' \in RunTable
      BY <2>9, <3>1, <3>3 DEF FlagRun, RunTable
    <3> QED BY <2>9, <3>4 DEF FlagRun, Goto, Labels, Onward
  <2>10. CASE FlagRuns(c)
    <3>1. ASSUME NEW r \in Runs, run[r] # NoRow
          PROVE  [run[r] EXCEPT !.deleted = TRUE] \in RunRow
      <4>1. run[r] \in RunRow
        BY <3>1 DEF RunTable
      <4> QED BY <4>1 DEF RunRow
    <3>2. run' \in RunTable
      BY <2>10, <3>1 DEF FlagRuns, RunTable
    <3> QED BY <2>10, <3>2 DEF FlagRuns, Goto, Labels
  <2>11. CASE FlagExperiment(c)
    BY <2>11 DEF FlagExperiment, Goto, Labels
  <2>12. CASE Write(c)
    <3>1. req[c].run \in Runs /\ run[req[c].run] \in RunRow
      BY <2>1, <2>12 DEF Shape, Write, At, Request, Run, RunTable, OfRun, Looking
    <3>2. req[c].state \in States
      BY <2>1, <2>12 DEF Shape, Write, At, Request
    <3>3. [run[req[c].run] EXCEPT !.state = req[c].state] \in RunRow
      BY <3>1, <3>2 DEF RunRow
    <3>4. run' \in RunTable
      BY <2>12, <3>1, <3>3 DEF Write, RunTable
    <3> QED BY <2>12, <3>4 DEF Write, Goto, Labels, Onward
  <2>13. CASE Examine(c)
    BY <2>1, <2>13 DEF Examine, Goto, At, Labels, Shape, RunTable, Request, Run
  <2>14. CASE Recheck(c)
    BY <2>14 DEF Recheck, Goto, Labels
  <2>15. CASE InsertObservation(c)
    <3>1. held[c] \in RunRow
      BY <2>1, <2>15 DEF Shape, InsertObservation, At, Reporting
    <3>2. New(observation) \in Observations
      BY <2>15, NewIsFree DEF InsertObservation, Insert, ObservationTable
    <3>3. [held[c] EXCEPT !.observation = New(observation)] \in RunRow
      BY <3>1, <3>2 DEF RunRow
    <3>4. held' \in [Calls -> RunRow \cup {NoRow}]
      BY <2>15, <3>3 DEF InsertObservation
    <3>5. [suggestion |-> held[c].suggestion, deleted |-> FALSE, edits |-> {}] \in ObservationRow
      BY <3>1 DEF RunRow, ObservationRow
    <3>6. observation' \in ObservationTable
      BY <2>15, <3>2, <3>5 DEF InsertObservation, ObservationTable
    <3>7. author' \in [Rows -> Calls \cup {None}]
      BY <2>15 DEF InsertObservation, Insert
    <3> QED BY <2>15, <3>4, <3>6, <3>7 DEF InsertObservation, Goto, Labels
  <2>16. CASE NameObservation(c)
    <3>1. req[c].run \in Runs /\ run[req[c].run] \in RunRow
      BY <2>1, <2>16 DEF Shape, NameObservation, At, Request, Run, RunTable, OfRun, Looking,
         Reporting
    <3>2. held[c].observation \in Observations \cup {None}
      BY <2>1, <2>16 DEF Shape, NameObservation, At, RunRow, Reporting
    <3>3. [run[req[c].run] EXCEPT !.observation = held[c].observation] \in RunRow
      BY <3>1, <3>2 DEF RunRow
    <3>4. run' \in RunTable
      BY <2>16, <3>1, <3>3 DEF NameObservation, RunTable
    <3> QED BY <2>16, <3>4 DEF NameObservation, Goto, Labels, Onward
  <2>17. CASE Rewrite(c)
    <3>1. /\ req[c].observation \in Observations
          /\ copies[c][req[c].observation] \in ObservationRow
          /\ req[c].reports \in Suggestions \cup {None, Same}
      BY <2>1, <2>17 DEF Shape, Rewrite, At, Request, ObservationTable
    <3>2. Rewritten(c) \in ObservationRow
      BY <3>1 DEF ObservationRow, Rewritten
    <3>3. observation' \in ObservationTable
      BY <2>17, <3>1, <3>2 DEF Rewrite, ObservationTable
    <3>4. copies' \in [Calls -> ObservationTable]
      BY <2>17 DEF Rewrite, NoCopies, ObservationTable
    <3> QED BY <2>17, <3>3, <3>4 DEF Rewrite, Goto, Labels
  <2>18. CASE Upsert(c)
    <3>1. req[c].suggestion \in Suggestions /\ kept[c] \in SuggestionRow
      BY <2>1, <2>18 DEF Shape, Upsert, At, Request
    <3>2. [kept[c] EXCEPT !.edits = @ \cup {c}] \in SuggestionRow
      BY <3>1 DEF SuggestionRow
    <3>3. suggestion' \in SuggestionTable /\ revived' \subseteq Suggestions
      BY <2>18, <3>1, <3>2 DEF Upsert, SuggestionTable
    <3> QED BY <2>18, <3>3 DEF Upsert, Goto, Labels
  <2>19. CASE InsertCheckpoint(c)
    BY <2>19 DEF InsertCheckpoint, Goto, Labels
  <2>20. CASE InsertReported(c)
    <3>1. req[c].reports \in Suggestions \cup {None}
      BY <2>1, <2>20 DEF Shape, InsertReported, At, Request
    <3>2. New(observation) \in Observations
      BY <2>20, NewIsFree DEF InsertReported, Insert, ObservationTable
    <3>3. [suggestion |-> req[c].reports, deleted |-> FALSE, edits |-> {}] \in ObservationRow
      BY <3>1 DEF ObservationRow
    <3>4. observation' \in ObservationTable
      BY <2>20, <3>2, <3>3 DEF InsertReported, ObservationTable
    <3>5. author' \in [Rows -> Calls \cup {None}]
      BY <2>20 DEF InsertReported, Insert
    <3> QED BY <2>20, <3>4, <3>5 DEF InsertReported, Goto, Labels
  <2> QED BY <1>2, <2>2, <2>3, <2>4, <2>5, <2>6, <2>7, <2>8, <2>9, <2>10, <2>11, <2>12, <2>13,
             <2>14, <2>15, <2>16, <2>17, <2>18, <2>19, <2>20 DEF Step
<1>3. ASSUME NEW c \in Calls, Crash(c) PROVE TypeOK'
  BY <1>3 DEF Crash, Goto, Labels
<1>4. CASE UNCHANGED vars
  BY <1>4 DEF vars
<1> QED BY <1>1, <1>2, <1>3, <1>4 DEF Next

LEMMA InitType == Init => TypeOK /\ ShapeInv
<1> SUFFICES ASSUME Init PROVE TypeOK /\ ShapeInv
  OBVIOUS
<1>1. run \in RunTable /\ suggestion \in SuggestionTable /\ observation \in ObservationTable
  BY InputAssumption DEF Init, Tables
<1>2. NoCopies \in ObservationTable
  BY DEF NoCopies, ObservationTable
<1> QED BY <1>1, <1>2 DEF Init, TypeOK, ShapeInv, Shape, Labels, Looking, Reporting

---------------------------------------------------------------------------
(* What a step leaves alone. *)

(* A step of one call changes nothing that another call holds.             *)
SameLocals(d) ==
  /\ pc'[d] = pc[d] /\ req'[d] = req[d] /\ held'[d] = held[d] /\ marked'[d] = marked[d]
  /\ kept'[d] = kept[d] /\ copies'[d] = copies[d]
LEMMA OthersKeep ==
  ASSUME TypeOK, NEW c \in Calls, NEW d \in Calls, d # c, Arrive(c) \/ Step(c) \/ Crash(c)
  PROVE  SameLocals(d)
<1> USE DEF TypeOK, tables, locals, history, SameLocals, Goto
<1>1. ASSUME Arrive(c) PROVE SameLocals(d)
  <2>1. CASE BeginCreate(c)
    BY <2>1 DEF BeginCreate, Begin
  <2>2. CASE BeginUpdate(c)
    BY <2>2 DEF BeginUpdate, Begin
  <2>3. CASE BeginDelete(c)
    BY <2>3 DEF BeginDelete, Begin
  <2>4. CASE BeginDeleteExperiment(c)
    BY <2>4 DEF BeginDeleteExperiment, Begin
  <2>5. CASE BeginSuggestionUpdate(c)
    BY <2>5 DEF BeginSuggestionUpdate, Begin
  <2>6. CASE BeginSuggestionsDelete(c)
    BY <2>6 DEF BeginSuggestionsDelete, Begin
  <2>7. CASE BeginObservationUpdate(c)
    BY <2>7 DEF BeginObservationUpdate, Begin
  <2>8. CASE BeginObservationsDelete(c)
    BY <2>8 DEF BeginObservationsDelete, Begin
  <2>9. CASE BeginCheckpoint(c)
    BY <2>9 DEF BeginCheckpoint, Begin
  <2>10. CASE BeginRestoreExperiment(c)
    BY <2>10 DEF BeginRestoreExperiment, Begin
  <2>11. CASE BeginObservationCreate(c)
    BY <2>11 DEF BeginObservationCreate, Begin
  <2> QED BY <1>1, <2>1, <2>2, <2>3, <2>4, <2>5, <2>6, <2>7, <2>8, <2>9, <2>10, <2>11 DEF Arrive
<1>2. ASSUME Step(c) PROVE SameLocals(d)
  <2>1. CASE ServeSuggestion(c)
    BY <2>1 DEF ServeSuggestion
  <2>2. CASE ServeObservation(c)
    BY <2>2 DEF ServeObservation
  <2>3. CASE InsertRun(c)
    BY <2>3 DEF InsertRun
  <2>4. CASE Reread(c)
    BY <2>4 DEF Reread
  <2>5. CASE FlagSuggestions(c)
    BY <2>5 DEF FlagSuggestions
  <2>6. CASE ReadObservations(c)
    BY <2>6 DEF ReadObservations
  <2>7. CASE WriteObservations(c)
    BY <2>7 DEF WriteObservations
  <2>8. CASE FlagRun(c)
    BY <2>8 DEF FlagRun
  <2>9. CASE FlagRuns(c)
    BY <2>9 DEF FlagRuns
  <2>10. CASE FlagExperiment(c)
    BY <2>10 DEF FlagExperiment
  <2>11. CASE Write(c)
    BY <2>11 DEF Write
  <2>12. CASE Examine(c)
    BY <2>12 DEF Examine
  <2>13. CASE Recheck(c)
    BY <2>13 DEF Recheck
  <2>14. CASE InsertObservation(c)
    BY <2>14 DEF InsertObservation
  <2>15. CASE NameObservation(c)
    BY <2>15 DEF NameObservation
  <2>16. CASE Rewrite(c)
    BY <2>16 DEF Rewrite
  <2>17. CASE Upsert(c)
    BY <2>17 DEF Upsert
  <2>18. CASE InsertCheckpoint(c)
    BY <2>18 DEF InsertCheckpoint
  <2>19. CASE InsertReported(c)
    BY <2>19 DEF InsertReported
  <2> QED BY <1>2, <2>1, <2>2, <2>3, <2>4, <2>5, <2>6, <2>7, <2>8, <2>9, <2>10, <2>11, <2>12,
             <2>13, <2>14, <2>15, <2>16, <2>17, <2>18, <2>19 DEF Step
<1>3. ASSUME Crash(c) PROVE SameLocals(d)
  BY <1>3 DEF Crash
<1> QED BY <1>1, <1>2, <1>3

(* A run stays and keeps its suggestion.                                   *)
LEMMA RunsStay ==
  ASSUME TypeOK, ShapeInv, [Next]_vars, NEW r \in Runs, run[r] # NoRow
  PROVE  run'[r] # NoRow /\ run'[r].suggestion = run[r].suggestion
<1> USE DEF TypeOK, tables, locals, history
<1>1. run[r] \in RunRow
  BY DEF RunTable
<1>2. ASSUME NEW b \in BOOLEAN
      PROVE  LET row == [run[r] EXCEPT !.deleted = b]
             IN row # NoRow /\ row.suggestion = run[r].suggestion
  <2>1. [run[r] EXCEPT !.deleted = b] \in RunRow
    BY <1>1 DEF RunRow
  <2> QED BY <1>1, <2>1, NullAssumption DEF RunRow
<1>7. ASSUME NEW s \in States
      PROVE  LET row == [run[r] EXCEPT !.state = s]
             IN row # NoRow /\ row.suggestion = run[r].suggestion
  <2>1. [run[r] EXCEPT !.state = s] \in RunRow
    BY <1>1 DEF RunRow
  <2> QED BY <1>1, <2>1, NullAssumption DEF RunRow
<1>8. ASSUME NEW o \in Observations \cup {None}
      PROVE  LET row == [run[r] EXCEPT !.observation = o]
             IN row # NoRow /\ row.suggestion = run[r].suggestion
  <2>1. [run[r] EXCEPT !.observation = o] \in RunRow
    BY <1>1 DEF RunRow
  <2> QED BY <1>1, <2>1, NullAssumption DEF RunRow
<1>3. ASSUME NEW c \in Calls, Arrive(c) PROVE run' = run
  BY <1>3 DEF Arrive, BeginCreate, BeginUpdate, BeginDelete, BeginDeleteExperiment,
     BeginSuggestionUpdate, BeginSuggestionsDelete, BeginObservationUpdate,
     BeginObservationsDelete, BeginCheckpoint, BeginRestoreExperiment,
     BeginObservationCreate, Begin
<1>4. ASSUME NEW c \in Calls, Step(c) PROVE run'[r] # NoRow /\ run'[r].suggestion = run[r].suggestion
  <2>1. Shape(c)
    BY DEF ShapeInv
  <2>2. CASE ServeSuggestion(c)
    BY <2>2 DEF ServeSuggestion
  <2>3. CASE ServeObservation(c)
    BY <2>3 DEF ServeObservation
  <2>4. CASE InsertRun(c)
    <3>1. New(run) # r
      BY <2>4, NewIsFree DEF InsertRun, Insert
    <3> QED BY <2>4, <3>1 DEF InsertRun, RunTable
  <2>5. CASE Reread(c)
    BY <2>5 DEF Reread
  <2>6. CASE FlagSuggestions(c)
    BY <2>6 DEF FlagSuggestions
  <2>7. CASE ReadObservations(c)
    BY <2>7 DEF ReadObservations
  <2>8. CASE WriteObservations(c)
    BY <2>8 DEF WriteObservations
  <2>9. CASE FlagRun(c)
    <3>1. Flag(c) \in BOOLEAN
      BY DEF Flag
    <3>2. run'[r] = IF r = req[c].run THEN [run[r] EXCEPT !.deleted = Flag(c)] ELSE run[r]
      BY <2>9 DEF FlagRun, RunTable
    <3> QED BY <1>2, <3>1, <3>2
  <2>10. CASE FlagRuns(c)
    <3>1. run'[r] = [run[r] EXCEPT !.deleted = TRUE]
      BY <2>10 DEF FlagRuns
    <3> QED BY <1>2, <3>1
  <2>11. CASE FlagExperiment(c)
    BY <2>11 DEF FlagExperiment
  <2>12. CASE Write(c)
    <3>1. req[c].state \in States
      BY <2>1, <2>12 DEF Shape, Write, At, Request
    <3>2. run'[r] = IF r = req[c].run THEN [run[r] EXCEPT !.state = req[c].state] ELSE run[r]
      BY <2>12 DEF Write, RunTable
    <3> QED BY <1>7, <3>1, <3>2
  <2>13. CASE Examine(c)
    BY <2>13 DEF Examine
  <2>14. CASE Recheck(c)
    BY <2>14 DEF Recheck
  <2>15. CASE InsertObservation(c)
    BY <2>15 DEF InsertObservation
  <2>16. CASE NameObservation(c)
    <3>1. held[c].observation \in Observations \cup {None}
      BY <2>1, <2>16 DEF Shape, NameObservation, At, Reporting, RunRow
    <3>2. run'[r] = IF r = req[c].run THEN [run[r] EXCEPT !.observation = held[c].observation]
                    ELSE run[r]
      BY <2>16 DEF NameObservation, RunTable
    <3> QED BY <1>8, <3>1, <3>2
  <2>17. CASE Rewrite(c)
    BY <2>17 DEF Rewrite
  <2>18. CASE Upsert(c)
    BY <2>18 DEF Upsert
  <2>19. CASE InsertCheckpoint(c)
    BY <2>19 DEF InsertCheckpoint
  <2>20. CASE InsertReported(c)
    BY <2>20 DEF InsertReported
  <2> QED BY <1>4, <2>2, <2>3, <2>4, <2>5, <2>6, <2>7, <2>8, <2>9, <2>10, <2>11, <2>12, <2>13,
             <2>14, <2>15, <2>16, <2>17, <2>18, <2>19, <2>20 DEF Step
<1>5. ASSUME NEW c \in Calls, Crash(c) PROVE run' = run
  BY <1>5 DEF Crash
<1>6. CASE UNCHANGED vars
  BY <1>6 DEF vars
<1> QED BY <1>3, <1>4, <1>5, <1>6 DEF Next

(* A suggestion stays.                                                     *)
LEMMA SuggestionsStay ==
  ASSUME TypeOK, ShapeInv, [Next]_vars, NEW s \in Suggestions, suggestion[s] # NoRow
  PROVE  suggestion'[s] # NoRow
<1> USE DEF TypeOK, tables, locals, history
<1>1. ASSUME NEW c \in Calls, Arrive(c) PROVE suggestion' = suggestion
  BY <1>1 DEF Arrive, BeginCreate, BeginUpdate, BeginDelete, BeginDeleteExperiment,
     BeginSuggestionUpdate, BeginSuggestionsDelete, BeginObservationUpdate,
     BeginObservationsDelete, BeginCheckpoint, BeginRestoreExperiment,
     BeginObservationCreate, Begin
<1>2. ASSUME NEW c \in Calls, Step(c) PROVE suggestion'[s] # NoRow
  <2>1. Shape(c)
    BY DEF ShapeInv
  <2>2. CASE ServeSuggestion(c)
    <3>1. CASE Insert(suggestion, c, "suggestion")
      <4>1. New(suggestion) # s
        BY <3>1, NewIsFree DEF Insert
      <4> QED BY <2>2, <4>1 DEF ServeSuggestion, SuggestionTable
    <3> QED BY <2>2, <3>1 DEF ServeSuggestion
  <2>3. CASE ServeObservation(c)
    BY <2>3 DEF ServeObservation
  <2>4. CASE InsertRun(c)
    BY <2>4 DEF InsertRun
  <2>5. CASE Reread(c)
    BY <2>5 DEF Reread
  <2>6. CASE FlagSuggestions(c)
    <3>1. [suggestion[s] EXCEPT !.deleted = Flag(c)] \in SuggestionRow
      <4>1. suggestion[s] \in SuggestionRow /\ Flag(c) \in BOOLEAN
        BY DEF SuggestionTable, Flag
      <4> QED BY <4>1 DEF SuggestionRow
    <3> QED BY <2>6, <3>1, NullAssumption DEF FlagSuggestions
  <2>7. CASE ReadObservations(c)
    BY <2>7 DEF ReadObservations
  <2>8. CASE WriteObservations(c)
    BY <2>8 DEF WriteObservations
  <2>9. CASE FlagRun(c)
    BY <2>9 DEF FlagRun
  <2>10. CASE FlagRuns(c)
    BY <2>10 DEF FlagRuns
  <2>11. CASE FlagExperiment(c)
    BY <2>11 DEF FlagExperiment
  <2>12. CASE Write(c)
    BY <2>12 DEF Write
  <2>13. CASE Examine(c)
    BY <2>13 DEF Examine
  <2>14. CASE Recheck(c)
    BY <2>14 DEF Recheck
  <2>15. CASE InsertObservation(c)
    BY <2>15 DEF InsertObservation
  <2>16. CASE NameObservation(c)
    BY <2>16 DEF NameObservation
  <2>17. CASE Rewrite(c)
    BY <2>17 DEF Rewrite
  <2>18. CASE Upsert(c)
    <3>1. kept[c] \in SuggestionRow
      BY <2>1, <2>18 DEF Shape, Upsert, At
    <3>2. [kept[c] EXCEPT !.edits = @ \cup {c}] \in SuggestionRow
      BY <3>1 DEF SuggestionRow
    <3> QED BY <2>18, <3>2, NullAssumption DEF Upsert, SuggestionTable
  <2>19. CASE InsertCheckpoint(c)
    BY <2>19 DEF InsertCheckpoint
  <2>20. CASE InsertReported(c)
    BY <2>20 DEF InsertReported
  <2> QED BY <1>2, <2>2, <2>3, <2>4, <2>5, <2>6, <2>7, <2>8, <2>9, <2>10, <2>11, <2>12, <2>13,
             <2>14, <2>15, <2>16, <2>17, <2>18, <2>19, <2>20 DEF Step
<1>3. ASSUME NEW c \in Calls, Crash(c) PROVE suggestion' = suggestion
  BY <1>3 DEF Crash
<1>4. CASE UNCHANGED vars
  BY <1>4 DEF vars
<1> QED BY <1>1, <1>2, <1>3, <1>4 DEF Next

---------------------------------------------------------------------------
(* What a call knows. *)

(* What a call knows does not change while it does nothing.                *)
LEMMA ShapeKept ==
  ASSUME TypeOK, ShapeInv, [Next]_vars, NEW d \in Calls, SameLocals(d)
  PROVE  Shape(d)'
<1>1. Shape(d)
  BY DEF ShapeInv
<1>2. pc[d] # "idle" => req[d].run \in Runs
  BY <1>1 DEF Shape, Request
<1>3. (pc[d] # "idle" /\ Run(d) # NoRow) => Run(d)' # NoRow /\ Run(d)'.suggestion = Run(d).suggestion
  BY <1>2, RunsStay DEF Run, SameLocals
<1>4. (held[d] # NoRow /\ held[d].suggestion # None /\ suggestion[held[d].suggestion] # NoRow)
        => suggestion'[held[d].suggestion] # NoRow
  BY SuggestionsStay DEF TypeOK, RunRow
<1> QED BY <1>1, <1>3, <1>4 DEF Shape, SameLocals, OfRun, Looking, Reporting

LEMMA ShapeStep ==
  ASSUME TypeOK, ShapeInv, [Next]_vars
  PROVE  ShapeInv'
<1> USE DEF TypeOK, tables, locals, history
<1>1. ASSUME NEW c \in Calls, Arrive(c) PROVE Shape(c)'
  <2>1. ASSUME NEW q, NEW label, Begin(c, q, label)
        PROVE  pc'[c] = label /\ req'[c] = q /\ q \in Request /\ run' = run
    BY <2>1, InputAssumption DEF Begin, Goto
  <2>2. CASE BeginCreate(c)
    BY <2>1, <2>2 DEF BeginCreate, Shape, Looking, Reporting
  <2>3. CASE BeginUpdate(c)
    <3>1. PICK q \in Asked(c) :
            /\ q.kind = "update" /\ run[q.run] # NoRow
            /\ Begin(c, q, IF FlagChanges(q, run[q.run]) THEN "reread" ELSE Onward(q))
      BY <2>3 DEF BeginUpdate
    <3> QED BY <2>1, <3>1 DEF Shape, Onward, Run, OfRun, Reporting
  <2>4. CASE BeginDelete(c)
    BY <2>1, <2>4 DEF BeginDelete, Shape, Run, OfRun, Reporting
  <2>5. CASE BeginDeleteExperiment(c)
    BY <2>1, <2>5 DEF BeginDeleteExperiment, Shape, Looking, Reporting
  <2>6. CASE BeginSuggestionUpdate(c)
    <3>1. PICK q \in Asked(c) : /\ q.kind = "sugupdate" /\ Alive(suggestion, q.suggestion)
                                   /\ Begin(c, q, "upsert")
                                   /\ kept' = [kept EXCEPT ![c] = suggestion[q.suggestion]]
      BY <2>6 DEF BeginSuggestionUpdate
    <3>2. kept'[c] # NoRow
      BY <3>1 DEF Alive
    <3> QED BY <2>1, <3>1, <3>2 DEF Shape, OfRun, Looking, Reporting
  <2>7. CASE BeginSuggestionsDelete(c)
    <3>1. PICK q \in Asked(c) :
            q.kind \in SuggestionDeletions /\ Begin(c, q, "flag_suggestions")
      BY <2>7 DEF BeginSuggestionsDelete
    <3> QED BY <2>1, <3>1 DEF Shape, SuggestionDeletions, OfRun, Reporting
  <2>8. CASE BeginObservationUpdate(c)
    <3>1. PICK q \in Asked(c) :
            /\ q.kind = "obsupdate" /\ Alive(observation, q.observation)
            /\ Begin(c, q, "rewrite")
            /\ copies' = [copies EXCEPT ![c][q.observation] = observation[q.observation]]
      BY <2>8 DEF BeginObservationUpdate
    <3>2. copies[c] \in ObservationTable /\ q.observation \in Observations
      BY <2>1, <3>1 DEF Request
    <3>3. copies'[c][q.observation] # NoRow
      BY <3>1, <3>2 DEF Alive, ObservationTable
    <3> QED BY <2>1, <3>1, <3>3 DEF Shape, OfRun, Looking, Reporting
  <2>9. CASE BeginObservationsDelete(c)
    <3>1. PICK q \in Asked(c) :
            q.kind \in ObservationDeletions /\ Begin(c, q, "read_observations")
      BY <2>9 DEF BeginObservationsDelete
    <3> QED BY <2>1, <3>1 DEF Shape, ObservationDeletions, OfRun, Reporting
  <2>10. CASE BeginCheckpoint(c)
    BY <2>1, <2>10 DEF BeginCheckpoint, Shape, Looking, Reporting
  <2>11. CASE BeginRestoreExperiment(c)
    BY <2>1, <2>11 DEF BeginRestoreExperiment, Shape, Looking, Reporting
  <2>12. CASE BeginObservationCreate(c)
    <3>1. PICK q \in Asked(c) : q.kind = "obscreate" /\ Begin(c, q, "insert_reported")
      BY <2>12 DEF BeginObservationCreate
    <3>2. q.reports # Same
      BY <3>1, InputAssumption DEF Begin
    <3> QED BY <2>1, <3>1, <3>2 DEF Shape, Looking, Reporting
  <2> QED BY <1>1, <2>2, <2>3, <2>4, <2>5, <2>6, <2>7, <2>8, <2>9, <2>10, <2>11, <2>12 DEF Arrive
<1>2. ASSUME NEW c \in Calls, Step(c) PROVE Shape(c)'
  <2>1. Shape(c)
    BY DEF ShapeInv
  <2>0. req[c].run \in Runs \/ pc[c] = "idle"
    BY <2>1 DEF Shape, Request
  <2>30. (pc[c] # "idle" /\ Run(c) # NoRow /\ req' = req) => Run(c)' # NoRow /\ Run(c)'.suggestion = Run(c).suggestion
    BY <2>0, RunsStay DEF Run
  <2>2. CASE ServeSuggestion(c)
    <3>1. held'[c] # NoRow /\ held'[c].state = "active"
      <4>1. ASSUME NEW s \in Suggestions \cup {None}
            PROVE  [suggestion |-> s, observation |-> None, state |-> "active", deleted |-> FALSE] # NoRow
        <5>1. [suggestion |-> s, observation |-> None, state |-> "active", deleted |-> FALSE] \in RunRow
          BY DEF RunRow, States
        <5> QED BY <5>1, NullAssumption
      <4>2. ~Full(suggestion) => New(suggestion) \in Suggestions
        BY NewIsFree DEF SuggestionTable
      <4> QED BY <2>2, <4>1, <4>2 DEF ServeSuggestion, Insert
    <3>2. held'[c].suggestion # None => suggestion'[held'[c].suggestion] # NoRow
      <4>1. CASE Insert(suggestion, c, "suggestion")
               /\ suggestion' = [suggestion EXCEPT ![New(suggestion)] = [deleted |-> FALSE, edits |-> {}]]
               /\ held' = [held EXCEPT ![c] =
                    [suggestion |-> New(suggestion), observation |-> None, state |-> "active", deleted |-> FALSE]]
        <5>1. New(suggestion) \in Suggestions
          BY <4>1, NewIsFree DEF Insert, SuggestionTable
        <5>2. [deleted |-> FALSE, edits |-> {}] \in SuggestionRow
          BY DEF SuggestionRow
        <5> QED BY <4>1, <5>1, <5>2, NullAssumption DEF SuggestionTable
      <4> QED BY <2>2, <4>1 DEF ServeSuggestion
    <3> QED BY <2>1, <2>2, <3>1, <3>2 DEF ServeSuggestion, At, Goto, Shape, Looking, Reporting
  <2>3. CASE ServeObservation(c)
    <3>1. held'[c] # NoRow /\ held'[c].suggestion = None
      <4>1. held'[c] \in RunRow \cup {NoRow}
        BY TypeStep
      <4>2. ASSUME NEW o \in Observations \cup {None}
            PROVE  [suggestion |-> None, observation |-> o, state |-> "completed", deleted |-> FALSE] # NoRow
        <5>1. [suggestion |-> None, observation |-> o, state |-> "completed", deleted |-> FALSE] \in RunRow
          BY DEF RunRow, States
        <5> QED BY <5>1, NullAssumption
      <4>3. ~Full(observation) => New(observation) \in Observations
        BY NewIsFree DEF ObservationTable
      <4> QED BY <2>3, <4>2, <4>3 DEF ServeObservation, Insert
    <3> QED BY <2>1, <2>3, <3>1 DEF ServeObservation, At, Goto, Shape, Looking, Reporting
  <2>4. CASE InsertRun(c)
    BY <2>1, <2>30, <2>4 DEF InsertRun, At, Goto, Shape, Looking, Reporting
  <2>5. CASE Reread(c)
    BY <2>1, <2>30, <2>5 DEF Reread, At, Goto, Shape, ToObservations, OfRun, Looking, Reporting
  <2>6. CASE FlagSuggestions(c)
    BY <2>1, <2>30, <2>6 DEF FlagSuggestions, At, Goto, Shape, ToObservations, OfRun, Looking,
       Reporting
  <2>7. CASE ReadObservations(c)
    BY <2>1, <2>30, <2>7 DEF ReadObservations, At, Goto, Shape, OfRun, Looking, Reporting
  <2>8. CASE WriteObservations(c)
    BY <2>1, <2>30, <2>8 DEF WriteObservations, At, Goto, Shape, OfRun, Looking, Reporting
  <2>9. CASE FlagRun(c)
    BY <2>1, <2>30, <2>9 DEF FlagRun, At, Goto, Shape, Onward, Looking, Reporting
  <2>10. CASE FlagRuns(c)
    BY <2>1, <2>30, <2>10 DEF FlagRuns, At, Goto, Shape, OfRun, Reporting
  <2>11. CASE FlagExperiment(c)
    BY <2>1, <2>30, <2>11 DEF FlagExperiment, At, Goto, Shape, Looking, Reporting
  <2>12. CASE Write(c)
    BY <2>1, <2>30, <2>12 DEF Write, At, Goto, Shape, OfRun, Looking, Reporting
  <2>13. CASE Examine(c)
    BY <2>1, <2>30, <2>13 DEF Examine, At, Goto, Shape, OfRun, Looking, Reporting
  <2>14. CASE Recheck(c)
    BY <2>1, <2>30, <2>14 DEF Recheck, At, Goto, Shape, OfRun, Looking, Reporting
  <2>15. CASE InsertObservation(c)
    <3>1. held[c] \in RunRow /\ New(observation) \in Observations
      BY <2>1, <2>15, NewIsFree DEF Shape, InsertObservation, At, Reporting, Insert,
         ObservationTable
    <3>2. [held[c] EXCEPT !.observation = New(observation)] \in RunRow
      BY <3>1 DEF RunRow
    <3>3. /\ held'[c] # NoRow /\ held'[c].suggestion = held[c].suggestion
          /\ held'[c].observation # None
      BY <2>15, <3>1, <3>2, NullAssumption DEF InsertObservation, RunRow
    <3> QED BY <2>1, <2>30, <2>15, <3>3 DEF InsertObservation, At, Goto, Shape, OfRun,
               Looking, Reporting
  <2>16. CASE NameObservation(c)
    BY <2>1, <2>30, <2>16 DEF NameObservation, At, Goto, Shape, Looking, Reporting
  <2>17. CASE Rewrite(c)
    BY <2>1, <2>30, <2>17 DEF Rewrite, At, Goto, Shape, Looking, Reporting
  <2>18. CASE Upsert(c)
    BY <2>1, <2>30, <2>18 DEF Upsert, At, Goto, Shape, Looking, Reporting
  <2>19. CASE InsertCheckpoint(c)
    BY <2>1, <2>30, <2>19 DEF InsertCheckpoint, At, Goto, Shape, Looking, Reporting
  <2>20. CASE InsertReported(c)
    BY <2>1, <2>30, <2>20 DEF InsertReported, At, Goto, Shape, Looking, Reporting
  <2> QED BY <1>2, <2>2, <2>3, <2>4, <2>5, <2>6, <2>7, <2>8, <2>9, <2>10, <2>11, <2>12, <2>13,
             <2>14, <2>15, <2>16, <2>17, <2>18, <2>19, <2>20 DEF Step
<1>3. ASSUME NEW c \in Calls, Crash(c) PROVE Shape(c)'
  BY <1>3 DEF Crash, Active, Goto, ShapeInv, Shape, Looking, Reporting
<1>4. ASSUME UNCHANGED vars, NEW d \in Calls PROVE SameLocals(d)
  BY <1>4 DEF vars, SameLocals
<1>5. ASSUME NEW c \in Calls, Arrive(c) \/ Step(c) \/ Crash(c), NEW d \in Calls PROVE Shape(d)'
  BY <1>1, <1>2, <1>3, <1>5, OthersKeep, ShapeKept
<1> QED BY <1>4, <1>5, ShapeKept DEF Next, ShapeInv

LEMMA Types == Spec => [](TypeOK /\ ShapeInv)
BY InitType, TypeStep, ShapeStep, PTL DEF Spec

(* Every table and every call keep their types, whatever is asked for.     *)
THEOREM TypeCorrect == Spec => []TypeOK
BY Types, PTL

---------------------------------------------------------------------------
(* A suggestion belongs to one run. *)

(* A run that is new was held by a call that was about to insert it.       *)
LEMMA NewRuns ==
  ASSUME TypeOK, ShapeInv, [Next]_vars, NEW r \in Runs, run[r] = NoRow, run'[r] # NoRow
  PROVE  \E c \in Calls : /\ pc[c] = "insert_run" /\ pc'[c] = "done"
                          /\ run'[r] = held[c] /\ r = New(run)
<1> USE DEF TypeOK, tables, locals, history
<1>1. ASSUME NEW c \in Calls, Arrive(c) PROVE run' = run
  BY <1>1 DEF Arrive, BeginCreate, BeginUpdate, BeginDelete, BeginDeleteExperiment,
     BeginSuggestionUpdate, BeginSuggestionsDelete, BeginObservationUpdate,
     BeginObservationsDelete, BeginCheckpoint, BeginRestoreExperiment,
     BeginObservationCreate, Begin
<1>2. ASSUME NEW c \in Calls, Step(c)
      PROVE /\ pc[c] = "insert_run" /\ pc'[c] = "done"
            /\ run'[r] = held[c] /\ r = New(run)
  <2>1. Shape(c)
    BY DEF ShapeInv
  <2>2. CASE ServeSuggestion(c)
    BY <2>2 DEF ServeSuggestion
  <2>3. CASE ServeObservation(c)
    BY <2>3 DEF ServeObservation
  <2>4. CASE InsertRun(c)
    BY <2>4 DEF InsertRun, At, Goto, RunTable
  <2>5. CASE Reread(c)
    BY <2>5 DEF Reread
  <2>6. CASE FlagSuggestions(c)
    BY <2>6 DEF FlagSuggestions
  <2>7. CASE ReadObservations(c)
    BY <2>7 DEF ReadObservations
  <2>8. CASE WriteObservations(c)
    BY <2>8 DEF WriteObservations
  <2>9. CASE FlagRun(c)
    <3>1. req[c].run # r
      BY <2>1, <2>9 DEF Shape, FlagRun, At, Run, Looking
    <3> QED BY <2>9, <3>1 DEF FlagRun, RunTable
  <2>10. CASE FlagRuns(c)
    BY <2>10 DEF FlagRuns
  <2>11. CASE FlagExperiment(c)
    BY <2>11 DEF FlagExperiment
  <2>12. CASE Write(c)
    <3>1. req[c].run # r
      BY <2>1, <2>12 DEF Shape, Write, At, Run, OfRun, Looking
    <3> QED BY <2>12, <3>1 DEF Write, RunTable
  <2>13. CASE Examine(c)
    BY <2>13 DEF Examine
  <2>14. CASE Recheck(c)
    BY <2>14 DEF Recheck
  <2>15. CASE InsertObservation(c)
    BY <2>15 DEF InsertObservation
  <2>16. CASE NameObservation(c)
    <3>1. req[c].run # r
      BY <2>1, <2>16 DEF Shape, NameObservation, At, Run, OfRun, Looking, Reporting
    <3> QED BY <2>16, <3>1 DEF NameObservation, RunTable
  <2>17. CASE Rewrite(c)
    BY <2>17 DEF Rewrite
  <2>18. CASE Upsert(c)
    BY <2>18 DEF Upsert
  <2>19. CASE InsertCheckpoint(c)
    BY <2>19 DEF InsertCheckpoint
  <2>20. CASE InsertReported(c)
    BY <2>20 DEF InsertReported
  <2> QED BY <1>2, <2>2, <2>3, <2>4, <2>5, <2>6, <2>7, <2>8, <2>9, <2>10, <2>11, <2>12, <2>13,
             <2>14, <2>15, <2>16, <2>17, <2>18, <2>19, <2>20 DEF Step
<1>3. ASSUME NEW c \in Calls, Crash(c) PROVE run' = run
  BY <1>3 DEF Crash
<1>4. CASE UNCHANGED vars
  BY <1>4 DEF vars
<1> QED BY <1>1, <1>2, <1>3, <1>4 DEF Next

(* A call that comes to insert a run holds a suggestion that is new.       *)
LEMMA NewPending ==
  ASSUME TypeOK, ShapeInv, [Next]_vars, NEW c \in Calls, pc'[c] = "insert_run"
  PROVE  \/ SameLocals(c)
         \/ /\ pc'[c] # pc[c]
            /\ \/ held'[c].suggestion = None
               \/ suggestion[held'[c].suggestion] = NoRow
<1> USE DEF TypeOK, tables, locals, history
<1>1. ASSUME Arrive(c) PROVE FALSE
  BY <1>1 DEF Arrive, BeginCreate, BeginUpdate, BeginDelete, BeginDeleteExperiment,
     BeginSuggestionUpdate, BeginSuggestionsDelete, BeginObservationUpdate,
     BeginObservationsDelete, BeginCheckpoint, BeginRestoreExperiment,
     BeginObservationCreate, Begin, Goto, Onward
<1>2. ASSUME Step(c)
      PROVE  /\ pc'[c] # pc[c]
             /\ held'[c].suggestion = None \/ suggestion[held'[c].suggestion] = NoRow
  <2>1. CASE ServeSuggestion(c)
    <3>1. CASE Insert(suggestion, c, "suggestion")
      BY <2>1, <3>1, NewIsFree DEF ServeSuggestion, Insert, At, Goto
    <3> QED BY <2>1, <3>1 DEF ServeSuggestion, At, Goto
  <2>2. CASE ServeObservation(c)
    BY <2>2 DEF ServeObservation, At
  <2>3. CASE InsertRun(c)
    BY <2>3 DEF InsertRun, Goto
  <2>4. CASE Reread(c)
    BY <2>4 DEF Reread, Goto, ToObservations
  <2>5. CASE FlagSuggestions(c)
    BY <2>5 DEF FlagSuggestions, Goto, ToObservations
  <2>6. CASE ReadObservations(c)
    BY <2>6 DEF ReadObservations, Goto
  <2>7. CASE WriteObservations(c)
    BY <2>7 DEF WriteObservations, Goto
  <2>8. CASE FlagRun(c)
    BY <2>8 DEF FlagRun, Goto, Onward
  <2>9. CASE FlagRuns(c)
    BY <2>9 DEF FlagRuns, Goto
  <2>10. CASE FlagExperiment(c)
    BY <2>10 DEF FlagExperiment, Goto
  <2>11. CASE Write(c)
    BY <2>11 DEF Write, Goto
  <2>12. CASE Examine(c)
    BY <2>12 DEF Examine, Goto
  <2>13. CASE Recheck(c)
    BY <2>13 DEF Recheck, Goto
  <2>14. CASE InsertObservation(c)
    BY <2>14 DEF InsertObservation, Goto
  <2>15. CASE NameObservation(c)
    BY <2>15 DEF NameObservation, Goto
  <2>16. CASE Rewrite(c)
    BY <2>16 DEF Rewrite, Goto
  <2>17. CASE Upsert(c)
    BY <2>17 DEF Upsert, Goto
  <2>18. CASE InsertCheckpoint(c)
    BY <2>18 DEF InsertCheckpoint, Goto
  <2>19. CASE InsertReported(c)
    BY <2>19 DEF InsertReported, Goto
  <2> QED BY <1>2, <2>1, <2>2, <2>3, <2>4, <2>5, <2>6, <2>7, <2>8, <2>9, <2>10, <2>11, <2>12,
             <2>13, <2>14, <2>15, <2>16, <2>17, <2>18, <2>19 DEF Step
<1>3. ASSUME Crash(c) PROVE FALSE
  BY <1>3 DEF Crash, Goto
<1>4. CASE UNCHANGED vars
  BY <1>4 DEF vars, SameLocals
<1>5. ASSUME NEW d \in Calls, d # c, Arrive(d) \/ Step(d) \/ Crash(d) PROVE SameLocals(c)
  BY <1>5, OthersKeep
<1> QED BY <1>1, <1>2, <1>3, <1>4, <1>5 DEF Next

(* One call moves at a time.                                               *)
LEMMA OneMoves ==
  ASSUME TypeOK, [Next]_vars, NEW c \in Calls, NEW d \in Calls, c # d
  PROVE  SameLocals(c) \/ SameLocals(d)
<1>1. CASE UNCHANGED vars
  BY <1>1 DEF vars, locals, SameLocals
<1> QED BY <1>1, OthersKeep DEF Next

LEMMA OwnStep ==
  ASSUME TypeOK, ShapeInv, OwnSuggestion, [Next]_vars
  PROVE  OwnSuggestion'
<1>1. ASSUME NEW r \in Runs, run'[r] # NoRow
      PROVE  \/ run[r] # NoRow /\ run'[r].suggestion = run[r].suggestion
             \/ /\ r = New(run)
                /\ \E c \in Calls : /\ pc[c] = "insert_run" /\ pc'[c] = "done"
                                    /\ run'[r] = held[c]
  BY <1>1, RunsStay, NewRuns
<1>2. ASSUME NEW c \in Calls, pc[c] = "insert_run", held[c].suggestion # None
      PROVE  held[c].suggestion \in Suggestions /\ suggestion[held[c].suggestion] # NoRow
  BY <1>2 DEF ShapeInv, Shape, TypeOK, RunRow
<1>3. ASSUME NEW r \in Runs, run[r] # NoRow, run[r].suggestion # None
      PROVE  run[r].suggestion \in Suggestions /\ suggestion[run[r].suggestion] # NoRow
  BY <1>3 DEF OwnSuggestion, TypeOK, RunTable, RunRow
<1>4. ASSUME NEW r \in Runs, run'[r] # NoRow, run'[r].suggestion # None
      PROVE  suggestion'[run'[r].suggestion] # NoRow
  BY <1>1, <1>2, <1>3, <1>4, SuggestionsStay
<1>5. ASSUME NEW r1 \in Runs, NEW r2 \in Runs, r1 # r2, run'[r1] # NoRow, run'[r2] # NoRow,
             run'[r1].suggestion # None
      PROVE  run'[r1].suggestion # run'[r2].suggestion
  BY <1>1, <1>5 DEF OwnSuggestion
<1>6. ASSUME NEW c \in Calls, NEW r \in Runs, pc'[c] = "insert_run", run'[r] # NoRow,
             held'[c].suggestion # None
      PROVE  held'[c].suggestion # run'[r].suggestion
  <2>1. CASE SameLocals(c)
    BY <1>1, <1>6, <2>1 DEF OwnSuggestion, SameLocals
  <2>2. CASE suggestion[held'[c].suggestion] = NoRow
    BY <1>1, <1>2, <1>3, <1>6, <2>2
  <2> QED BY <1>6, <2>1, <2>2, NewPending
<1>7. ASSUME NEW c \in Calls, NEW d \in Calls, c # d, pc'[c] = "insert_run",
             pc'[d] = "insert_run", held'[c].suggestion # None
      PROVE  held'[c].suggestion # held'[d].suggestion
  <2>1. CASE SameLocals(c) /\ SameLocals(d)
    BY <1>7, <2>1 DEF OwnSuggestion, SameLocals
  <2>2. CASE SameLocals(c) /\ ~SameLocals(d)
    BY <1>2, <1>7, <2>2, NewPending DEF SameLocals
  <2>3. CASE ~SameLocals(c) /\ SameLocals(d)
    BY <1>2, <1>7, <2>3, NewPending DEF SameLocals
  <2> QED BY <1>7, <2>1, <2>2, <2>3, OneMoves
<1> QED BY <1>4, <1>5, <1>6, <1>7 DEF OwnSuggestion

---------------------------------------------------------------------------
(* Reporting. *)

ToReport(r) == run[r] # NoRow /\ Reportable(run[r])

(* A run that is to be reported was so before, or an update of it moves on *)
(* to look at it, or its suggestion was undeleted by a write-back.         *)
LEMMA Becomes ==
  ASSUME TypeOK, ShapeInv, OwnSuggestion, [Next]_vars, NEW r \in Runs, ToReport(r)'
  PROVE  \/ ToReport(r)
         \/ \E c \in Calls : WillLook(c, r)'
         \/ run'[r].suggestion \in revived'
<1> DEFINE Goal == \/ ToReport(r)
                   \/ \E c \in Calls : WillLook(c, r)'
                   \/ run'[r].suggestion \in revived'
<1> USE DEF TypeOK, tables, locals, history
<1>1. ASSUME run' = run, suggestion' = suggestion PROVE Goal
  BY <1>1 DEF ToReport, Reportable, Alive
<1>2. ASSUME NEW c \in Calls, Arrive(c) PROVE Goal
  BY <1>1, <1>2 DEF Arrive, BeginCreate, BeginUpdate, BeginDelete, BeginDeleteExperiment,
     BeginSuggestionUpdate, BeginSuggestionsDelete, BeginObservationUpdate,
     BeginObservationsDelete, BeginCheckpoint, BeginRestoreExperiment,
     BeginObservationCreate, Begin
<1>3. ASSUME NEW c \in Calls, Step(c) PROVE Goal
  <2>1. Shape(c)
    BY DEF ShapeInv
  <2>2. CASE ServeSuggestion(c)
    <3>1. run' = run /\ run[r].suggestion \in Suggestions /\ suggestion[run[r].suggestion] # NoRow
      BY <2>2 DEF ServeSuggestion, OwnSuggestion, ToReport, Reportable, RunTable, RunRow
    <3>2. CASE Insert(suggestion, c, "suggestion") /\ suggestion' # suggestion
      <4>1. New(suggestion) # run[r].suggestion
        BY <3>1, <3>2, NewIsFree DEF Insert
      <4>2. suggestion'[run[r].suggestion] = suggestion[run[r].suggestion]
        BY <2>2, <3>1, <3>2, <4>1 DEF ServeSuggestion, SuggestionTable
      <4> QED BY <3>1, <4>2 DEF ToReport, Reportable, Alive
    <3>3. suggestion' = suggestion \/ Insert(suggestion, c, "suggestion")
      BY <2>2 DEF ServeSuggestion
    <3> QED BY <1>1, <3>1, <3>2, <3>3
  <2>3. CASE ServeObservation(c)
    BY <1>1, <2>3 DEF ServeObservation
  <2>4. CASE InsertRun(c)
    <3>1. CASE run[r] = NoRow
      BY <2>1, <2>4 DEF InsertRun, At, Shape, ToReport, Reportable
    <3>2. CASE run[r] # NoRow
      <4>1. New(run) # r
        BY <2>4, <3>2, NewIsFree DEF InsertRun, Insert
      <4> QED BY <2>4, <3>2, <4>1 DEF InsertRun, ToReport, Reportable
    <3> QED BY <3>1, <3>2
  <2>5. CASE Reread(c)
    BY <1>1, <2>5 DEF Reread
  <2>6. CASE FlagSuggestions(c)
    <3> DEFINE s == run[r].suggestion
    <3>1. run' = run /\ run[r] # NoRow /\ s # None /\ s \in Suggestions /\ suggestion[s] # NoRow
      BY <2>6 DEF FlagSuggestions, OwnSuggestion, ToReport, Reportable, RunTable, RunRow
    <3>2. suggestion[s] \in SuggestionRow
      BY <3>1 DEF SuggestionTable
    <3>3. ASSUME s \notin marked[c] PROVE Goal
      BY <2>6, <3>1, <3>3 DEF FlagSuggestions, ToReport, Reportable, Alive
    <3>4. ASSUME s \in marked[c], Flag(c) = TRUE PROVE Goal
      <4>1. suggestion'[s] = [suggestion[s] EXCEPT !.deleted = TRUE]
        BY <2>6, <3>1, <3>4 DEF FlagSuggestions
      <4>2. suggestion'[s].deleted
        BY <3>2, <4>1 DEF SuggestionRow
      <4> QED BY <3>1, <4>2 DEF ToReport, Reportable, Alive
    <3>5. ASSUME s \in marked[c], Flag(c) # TRUE PROVE Goal
      <4>1. req[c].kind = "update" /\ pc[c] = "flag_suggestions"
        BY <2>6, <3>5 DEF Flag, FlagSuggestions, At
      <4>2. /\ req[c] \in Request /\ req[c].run \in Runs /\ Run(c) # NoRow
            /\ marked[c] \subseteq {Run(c).suggestion}
        BY <2>1, <4>1 DEF Shape, Request, OfRun, Looking
      <4>3. req[c].run = r
        BY <3>1, <3>5, <4>2 DEF Run, OwnSuggestion
      <4>4. req' = req /\ pc'[c] \in {"read_observations", "flag_run"}
        BY <2>6, <4>1 DEF FlagSuggestions, Goto, ToObservations
      <4>5. WillLook(c, r)'
        BY <4>1, <4>2, <4>3, <4>4, NullAssumption DEF WillLook, Updates, Is, Looking
      <4> QED BY <4>5
    <3> QED BY <3>3, <3>4, <3>5
  <2>7. CASE ReadObservations(c)
    BY <1>1, <2>7 DEF ReadObservations
  <2>8. CASE WriteObservations(c)
    BY <1>1, <2>8 DEF WriteObservations
  <2>9. CASE FlagRun(c)
    <3>1. req[c].run \in Runs /\ Run(c) # NoRow
      BY <2>1, <2>9 DEF Shape, FlagRun, At, Request, Looking
    <3>2. run[r] # NoRow
      BY <2>9, <3>1 DEF FlagRun, RunTable, ToReport, Run
    <3>3. run[r] \in RunRow
      BY <3>2 DEF RunTable
    <3>4. /\ run'[r].state = run[r].state /\ run'[r].observation = run[r].observation
          /\ run'[r].suggestion = run[r].suggestion
      BY <2>9, <3>3 DEF FlagRun, RunTable, RunRow
    <3> QED BY <2>9, <3>2, <3>4 DEF FlagRun, ToReport, Reportable, Alive
  <2>10. CASE FlagRuns(c)
    <3>1. run[r] # NoRow /\ run[r] \in RunRow
      BY <2>10 DEF FlagRuns, RunTable, ToReport
    <3>2. /\ run'[r].state = run[r].state /\ run'[r].observation = run[r].observation
          /\ run'[r].suggestion = run[r].suggestion
      BY <2>10, <3>1 DEF FlagRuns, RunTable, RunRow
    <3> QED BY <2>10, <3>1, <3>2 DEF FlagRuns, ToReport, Reportable, Alive
  <2>11. CASE FlagExperiment(c)
    BY <1>1, <2>11 DEF FlagExperiment
  <2>12. CASE Write(c)
    <3>1. CASE req[c].run = r
      <4>1. req[c].kind = "update" /\ req[c] # NoRequest
        BY <2>1, <2>12, NullAssumption DEF Shape, Write, At, Reporting
      <4> QED BY <2>12, <3>1, <4>1 DEF Write, Goto, WillLook, Updates, Is, Looking
    <3>2. CASE req[c].run # r
      BY <2>12, <3>2 DEF Write, ToReport, Reportable
    <3> QED BY <3>1, <3>2
  <2>13. CASE Examine(c)
    BY <1>1, <2>13 DEF Examine
  <2>14. CASE Recheck(c)
    BY <1>1, <2>14 DEF Recheck
  <2>15. CASE InsertObservation(c)
    BY <1>1, <2>15 DEF InsertObservation
  <2>16. CASE NameObservation(c)
    <3>1. CASE req[c].run = r
      <4>1. held[c].observation # None /\ Run(c) # NoRow
        BY <2>1, <2>16 DEF Shape, NameObservation, At, Reporting, OfRun, Looking
      <4>2. run[r] \in RunRow
        BY <3>1, <4>1 DEF Run, RunTable
      <4>3. run'[r].observation # None
        BY <2>16, <3>1, <4>1, <4>2 DEF NameObservation, RunTable, RunRow
      <4> QED BY <4>3 DEF ToReport, Reportable
    <3>2. CASE req[c].run # r
      BY <2>16, <3>2 DEF NameObservation, ToReport, Reportable
    <3> QED BY <3>1, <3>2
  <2>17. CASE Rewrite(c)
    BY <1>1, <2>17 DEF Rewrite
  <2>18. CASE Upsert(c)
    <3>1. run' = run /\ run[r] # NoRow /\ run[r].suggestion \in Suggestions
          /\ suggestion[run[r].suggestion] # NoRow
      BY <2>18 DEF Upsert, OwnSuggestion, ToReport, Reportable, RunTable, RunRow
    <3>2. CASE run[r].suggestion = req[c].suggestion
      BY <2>18, <3>1, <3>2 DEF Upsert, ToReport, Reportable, Alive
    <3>3. CASE run[r].suggestion # req[c].suggestion
      BY <2>18, <3>3 DEF Upsert, ToReport, Reportable, Alive
    <3> QED BY <3>2, <3>3
  <2>19. CASE InsertCheckpoint(c)
    BY <1>1, <2>19 DEF InsertCheckpoint
  <2>20. CASE InsertReported(c)
    BY <1>1, <2>20 DEF InsertReported
  <2> QED BY <1>3, <2>2, <2>3, <2>4, <2>5, <2>6, <2>7, <2>8, <2>9, <2>10, <2>11, <2>12, <2>13,
             <2>14, <2>15, <2>16, <2>17, <2>18, <2>19, <2>20 DEF Step
<1>4. ASSUME NEW c \in Calls, Crash(c) PROVE Goal
  BY <1>1, <1>4 DEF Crash
<1>5. CASE UNCHANGED vars
  BY <1>1, <1>5 DEF vars
<1> QED BY <1>2, <1>3, <1>4, <1>5 DEF Next

(* An update that looks goes on looking while there is something to see,   *)
(* or dies.                                                                *)
LEMMA LooksOn ==
  ASSUME TypeOK, ShapeInv, [Next]_vars, NEW r \in Runs, ToReport(r)', NEW c \in Calls,
         WillLook(c, r)
  PROVE  WillLook(c, r)' \/ (Updates(c, r) /\ pc[c] = "dead")'
<1> USE DEF TypeOK, tables, locals, history
<1>1. SameLocals(c) => WillLook(c, r)'
  BY DEF SameLocals, WillLook, Updates, Is
<1>2. /\ Shape(c) /\ req[c].kind = "update" /\ req[c].run = r /\ pc[c] \in Looking
      /\ req[c] # NoRequest /\ Run(c) = run[r] /\ run[r] # NoRow
  BY DEF ShapeInv, Shape, WillLook, Updates, Is, Run, OfRun
<1>3. ASSUME Arrive(c) PROVE FALSE
  BY <1>2, <1>3 DEF Arrive, Looking, BeginCreate, BeginUpdate, BeginDelete,
     BeginDeleteExperiment, BeginSuggestionUpdate, BeginSuggestionsDelete,
     BeginObservationUpdate, BeginObservationsDelete, BeginCheckpoint, BeginRestoreExperiment,
     BeginObservationCreate, Begin
<1>4. ASSUME Step(c) PROVE WillLook(c, r)'
  <2>1. ASSUME req' = req, pc'[c] \in Looking PROVE WillLook(c, r)'
    BY <1>2, <2>1 DEF WillLook, Updates, Is
  <2>2. CASE ServeSuggestion(c)
    BY <1>2, <2>2 DEF ServeSuggestion, At, Looking
  <2>3. CASE ServeObservation(c)
    BY <1>2, <2>3 DEF ServeObservation, At, Looking
  <2>4. CASE InsertRun(c)
    BY <1>2, <2>4 DEF InsertRun, At, Looking
  <2>5. CASE Reread(c)
    BY <1>2, <2>1, <2>5 DEF Reread, Goto, ToObservations, Looking
  <2>6. CASE FlagSuggestions(c)
    BY <1>2, <2>1, <2>6 DEF FlagSuggestions, Goto, ToObservations, Looking
  <2>7. CASE ReadObservations(c)
    BY <1>2, <2>1, <2>7 DEF ReadObservations, Goto, Looking
  <2>8. CASE WriteObservations(c)
    BY <1>2, <2>1, <2>8 DEF WriteObservations, Goto, Looking
  <2>9. CASE FlagRun(c)
    BY <1>2, <2>1, <2>9 DEF FlagRun, Goto, Onward, Looking
  <2>10. CASE FlagRuns(c)
    BY <1>2, <2>10 DEF FlagRuns, At, Looking
  <2>11. CASE FlagExperiment(c)
    BY <1>2, <2>11 DEF FlagExperiment, At, Looking
  <2>12. CASE Write(c)
    BY <1>2, <2>1, <2>12 DEF Write, Goto, Looking
  <2>13. CASE Examine(c)
    <3>1. Reportable(Run(c))
      BY <1>2, <2>13 DEF Examine, ToReport, Reportable, Alive
    <3> QED BY <2>1, <2>13, <3>1 DEF Examine, Goto, Looking
  <2>14. CASE Recheck(c)
    <3>1. Alive(suggestion, held[c].suggestion)
      BY <1>2, <2>14 DEF Recheck, At, Shape, Reporting, ToReport, Reportable
    <3> QED BY <2>1, <2>14, <3>1 DEF Recheck, Goto, Looking
  <2>15. CASE InsertObservation(c)
    BY <1>2, <2>1, <2>15 DEF InsertObservation, Goto, Looking
  <2>16. CASE NameObservation(c)
    <3>1. held[c].observation # None /\ run[r] \in RunRow
      BY <1>2, <2>16 DEF Shape, NameObservation, At, RunTable
    <3>2. run'[r].observation # None
      BY <1>2, <2>16, <3>1 DEF NameObservation, RunTable, RunRow
    <3> QED BY <3>2 DEF ToReport, Reportable
  <2>17. CASE Rewrite(c)
    BY <1>2, <2>17 DEF Rewrite, At, Looking
  <2>18. CASE Upsert(c)
    BY <1>2, <2>18 DEF Upsert, At, Looking
  <2>19. CASE InsertCheckpoint(c)
    BY <1>2, <2>19 DEF InsertCheckpoint, At, Looking
  <2>20. CASE InsertReported(c)
    BY <1>2, <2>20 DEF InsertReported, At, Looking
  <2> QED BY <1>4, <2>2, <2>3, <2>4, <2>5, <2>6, <2>7, <2>8, <2>9, <2>10, <2>11, <2>12, <2>13,
             <2>14, <2>15, <2>16, <2>17, <2>18, <2>19, <2>20 DEF Step
<1>5. ASSUME Crash(c) PROVE (Updates(c, r) /\ pc[c] = "dead")'
  BY <1>2, <1>5 DEF Crash, Goto, Updates, Is
<1>6. CASE UNCHANGED vars
  BY <1>1, <1>6 DEF vars, SameLocals
<1> QED BY <1>1, <1>3, <1>4, <1>5, <1>6, OthersKeep DEF Next

(* A dead call stays as it is.                                             *)
LEMMA DeadStays ==
  ASSUME TypeOK, ShapeInv, [Next]_vars, NEW c \in Calls, pc[c] = "dead"
  PROVE  SameLocals(c)
<1> USE DEF TypeOK, tables, locals, history
<1>1. CASE UNCHANGED vars
  BY <1>1 DEF vars, SameLocals
<1>2. CASE Arrive(c)
  BY <1>2 DEF Arrive, BeginCreate, BeginUpdate, BeginDelete, BeginDeleteExperiment,
     BeginSuggestionUpdate, BeginSuggestionsDelete, BeginObservationUpdate,
     BeginObservationsDelete, BeginCheckpoint, BeginRestoreExperiment,
     BeginObservationCreate, Begin
<1>3. CASE Step(c)
  <2>1. CASE ServeSuggestion(c)
    BY <2>1 DEF ServeSuggestion, At
  <2>2. CASE ServeObservation(c)
    BY <2>2 DEF ServeObservation, At
  <2>3. CASE InsertRun(c)
    BY <2>3 DEF InsertRun, At
  <2>4. CASE Reread(c)
    BY <2>4 DEF Reread, At
  <2>5. CASE FlagSuggestions(c)
    BY <2>5 DEF FlagSuggestions, At
  <2>6. CASE ReadObservations(c)
    BY <2>6 DEF ReadObservations, At
  <2>7. CASE WriteObservations(c)
    BY <2>7 DEF WriteObservations, At
  <2>8. CASE FlagRun(c)
    BY <2>8 DEF FlagRun, At
  <2>9. CASE FlagRuns(c)
    BY <2>9 DEF FlagRuns, At
  <2>10. CASE FlagExperiment(c)
    BY <2>10 DEF FlagExperiment, At
  <2>11. CASE Write(c)
    BY <2>11 DEF Write, At
  <2>12. CASE Examine(c)
    BY <2>12 DEF Examine, At
  <2>13. CASE Recheck(c)
    BY <2>13 DEF Recheck, At
  <2>14. CASE InsertObservation(c)
    BY <2>14 DEF InsertObservation, At
  <2>15. CASE NameObservation(c)
    BY <2>15 DEF NameObservation, At
  <2>16. CASE Rewrite(c)
    BY <2>16 DEF Rewrite, At
  <2>17. CASE Upsert(c)
    BY <2>17 DEF Upsert, At
  <2>18. CASE InsertCheckpoint(c)
    BY <2>18 DEF InsertCheckpoint, At
  <2>19. CASE InsertReported(c)
    BY <2>19 DEF InsertReported, At
  <2> QED BY <1>3, <2>1, <2>2, <2>3, <2>4, <2>5, <2>6, <2>7, <2>8, <2>9, <2>10, <2>11, <2>12,
             <2>13, <2>14, <2>15, <2>16, <2>17, <2>18, <2>19 DEF Step
<1>4. CASE Crash(c)
  BY <1>4 DEF Crash, Active, Ended
<1> QED BY <1>1, <1>2, <1>3, <1>4, OthersKeep DEF Next

(* So does the note of a write-back.                                       *)
LEMMA RevivedStay == TypeOK /\ [Next]_vars => revived \subseteq revived'
<1> SUFFICES ASSUME TypeOK, [Next]_vars PROVE revived \subseteq revived'
  OBVIOUS
<1> USE DEF TypeOK, tables, locals, history
<1>1. ASSUME NEW d \in Calls, Arrive(d) PROVE revived' = revived
  BY <1>1 DEF Arrive, BeginCreate, BeginUpdate, BeginDelete, BeginDeleteExperiment,
     BeginSuggestionUpdate, BeginSuggestionsDelete, BeginObservationUpdate,
     BeginObservationsDelete, BeginCheckpoint, BeginRestoreExperiment,
     BeginObservationCreate, Begin
<1>2. ASSUME NEW d \in Calls, Step(d) PROVE revived \subseteq revived'
  <2>1. CASE ServeSuggestion(d)
    BY <2>1 DEF ServeSuggestion
  <2>2. CASE ServeObservation(d)
    BY <2>2 DEF ServeObservation
  <2>3. CASE InsertRun(d)
    BY <2>3 DEF InsertRun
  <2>4. CASE Reread(d)
    BY <2>4 DEF Reread
  <2>5. CASE FlagSuggestions(d)
    BY <2>5 DEF FlagSuggestions
  <2>6. CASE ReadObservations(d)
    BY <2>6 DEF ReadObservations
  <2>7. CASE WriteObservations(d)
    BY <2>7 DEF WriteObservations
  <2>8. CASE FlagRun(d)
    BY <2>8 DEF FlagRun
  <2>9. CASE FlagRuns(d)
    BY <2>9 DEF FlagRuns
  <2>10. CASE FlagExperiment(d)
    BY <2>10 DEF FlagExperiment
  <2>11. CASE Write(d)
    BY <2>11 DEF Write
  <2>12. CASE Examine(d)
    BY <2>12 DEF Examine
  <2>13. CASE Recheck(d)
    BY <2>13 DEF Recheck
  <2>14. CASE InsertObservation(d)
    BY <2>14 DEF InsertObservation
  <2>15. CASE NameObservation(d)
    BY <2>15 DEF NameObservation
  <2>16. CASE Rewrite(d)
    BY <2>16 DEF Rewrite
  <2>17. CASE Upsert(d)
    BY <2>17 DEF Upsert
  <2>18. CASE InsertCheckpoint(d)
    BY <2>18 DEF InsertCheckpoint
  <2>19. CASE InsertReported(d)
    BY <2>19 DEF InsertReported
  <2> QED BY <1>2, <2>1, <2>2, <2>3, <2>4, <2>5, <2>6, <2>7, <2>8, <2>9, <2>10, <2>11, <2>12,
             <2>13, <2>14, <2>15, <2>16, <2>17, <2>18, <2>19 DEF Step
<1>3. ASSUME NEW d \in Calls, Crash(d) PROVE revived' = revived
  BY <1>3 DEF Crash
<1>4. CASE UNCHANGED vars
  BY <1>4 DEF vars
<1> QED BY <1>1, <1>2, <1>3, <1>4 DEF Next

LEMMA ReportStep ==
  ASSUME TypeOK, ShapeInv, OwnSuggestion, CompletedIsReported, [Next]_vars
  PROVE  CompletedIsReported'
<1> SUFFICES ASSUME NEW r \in Runs, ToReport(r)'
             PROVE  \/ \E c \in Calls : WillLook(c, r)'
                    \/ \E c \in Calls : (Updates(c, r) /\ pc[c] = "dead")'
                    \/ run'[r].suggestion \in revived'
  BY DEF CompletedIsReported, ToReport
<1>1. CASE ToReport(r)
  <2>1. run'[r].suggestion = run[r].suggestion
    BY <1>1, RunsStay DEF ToReport
  <2>2. CASE \E c \in Calls : WillLook(c, r)
    BY <2>2, LooksOn
  <2>3. CASE \E c \in Calls : Updates(c, r) /\ pc[c] = "dead"
    BY <2>3, DeadStays DEF SameLocals, Updates, Is
  <2>4. CASE run[r].suggestion \in revived
    BY <2>1, <2>4, RevivedStay
  <2> QED BY <1>1, <2>2, <2>3, <2>4 DEF CompletedIsReported, ToReport
<1> QED BY <1>1, Becomes

LEMMA InitReport == Init => OwnSuggestion /\ CompletedIsReported
<1> SUFFICES ASSUME Init PROVE OwnSuggestion /\ CompletedIsReported
  OBVIOUS
<1>1. PICK t \in InitialStates :
         run = t.run /\ suggestion = t.suggestion /\ observation = t.observation
  BY DEF Init
<1>2. \A r \in Runs : (run[r] # NoRow /\ run[r].suggestion # None) =>
          /\ suggestion[run[r].suggestion] # NoRow
          /\ run[r].state = "completed" => run[r].observation # None
          /\ \A r2 \in Runs : (r2 # r /\ run[r2] # NoRow)
                               => run[r2].suggestion # run[r].suggestion
  BY <1>1, StartAssumption
<1>3. OwnSuggestion
  BY <1>2 DEF OwnSuggestion, Init
<1>4. CompletedIsReported
  BY <1>2 DEF CompletedIsReported, Reportable
<1> QED BY <1>3, <1>4

(* A completed run whose suggestion is in use is reported or about to be,  *)
(* however the calls on it interleave: of an update that completes a run   *)
(* and one that restores its suggestion the later one sees to it.          *)
THEOREM ReportCorrect == Spec => []CompletedIsReported
<1> DEFINE IInv == TypeOK /\ ShapeInv /\ OwnSuggestion /\ CompletedIsReported
<1>1. Init => IInv
  BY InitType, InitReport
<1>2. IInv /\ [Next]_vars => IInv'
  BY TypeStep, ShapeStep, OwnStep, ReportStep
<1> QED BY <1>1, <1>2, PTL DEF Spec
---------------------------------------------------------------------------
(* Who writes what, for the proofs of the other properties. *)

(* A call that arrives leaves the tables alone, and knows of a row what it *)
(* has read.                                                               *)
LEMMA Arrivals ==
  ASSUME TypeOK, NEW c \in Calls, Arrive(c)
  PROVE  /\ pc[c] = "idle" /\ UNCHANGED <<tables, held, author, revived>>
         /\ req'[c] \in Request
         /\ met' = [d \in Calls |-> IF d = c THEN {e \in Calls : Active(e)}
                                   ELSE IF Active(d) THEN met[d] \cup {c} ELSE met[d]]
         /\ \A d \in Calls \ {c} : SameLocals(d)
         /\ LET q == req'[c] IN
            \/ /\ q.kind = "create" /\ ~gone
               /\ pc'[c] \in {"serve_suggestion", "serve_observation"}
            \/ /\ q.kind = "update" /\ run[q.run] # NoRow
               /\ \/ pc'[c] = "reread" /\ q.deleted # None
                  \/ pc'[c] \in {"write", "examine"}
            \/ q.kind = "delete" /\ run[q.run] # NoRow /\ pc'[c] = "reread"
            \/ /\ q.kind = "deleteexp" /\ pc'[c] = (IF q.runs THEN "flag_runs" ELSE "flag_experiment")
               /\ marked'[c] = Suggestions
            \/ /\ q.kind = "sugupdate" /\ pc'[c] = "upsert" /\ Alive(suggestion, q.suggestion)
               /\ kept'[c] = suggestion[q.suggestion]
            \/ q.kind = "restoreexp" /\ pc'[c] = "flag_experiment"
            \/ q.kind \in SuggestionDeletions /\ pc'[c] = "flag_suggestions"
            \/ /\ q.kind = "obscreate" /\ pc'[c] = "insert_reported" /\ ~gone
               /\ q.reports # Same
            \/ /\ q.kind = "obsupdate" /\ pc'[c] = "rewrite" /\ Alive(observation, q.observation)
               /\ copies'[c] = [copies[c] EXCEPT ![q.observation] = observation[q.observation]]
            \/ q.kind \in ObservationDeletions /\ pc'[c] = "read_observations"
            \/ /\ q.kind = "checkpoint" /\ pc'[c] = "insert_checkpoint" /\ run[q.run] # NoRow
               /\ MayAdd(Cardinality(checkpoints[q.run]), run[q.run])
<1> USE DEF TypeOK, Goto
<1>1. \A d \in Calls \ {c} : SameLocals(d)
  BY OthersKeep
<1>2. ASSUME NEW q, NEW label, Begin(c, q, label)
      PROVE  /\ pc[c] = "idle" /\ UNCHANGED <<tables, held, author, revived>>
             /\ q.kind = "obscreate" => q.reports # Same
             /\ q \in Request /\ req'[c] = q /\ pc'[c] = label
             /\ met' = [d \in Calls |-> IF d = c THEN {e \in Calls : Active(e)}
                                       ELSE IF Active(d) THEN met[d] \cup {c} ELSE met[d]]
  BY <1>2, InputAssumption DEF Begin
<1>3. CASE BeginCreate(c)
  BY <1>1, <1>2, <1>3 DEF BeginCreate
<1>4. CASE BeginUpdate(c)
  BY <1>1, <1>2, <1>4 DEF BeginUpdate, FlagChanges, Onward
<1>5. CASE BeginDelete(c)
  BY <1>1, <1>2, <1>5 DEF BeginDelete
<1>6. CASE BeginDeleteExperiment(c)
  BY <1>1, <1>2, <1>6 DEF BeginDeleteExperiment
<1>7. CASE BeginSuggestionUpdate(c)
  BY <1>1, <1>2, <1>7 DEF BeginSuggestionUpdate
<1>8. CASE BeginSuggestionsDelete(c)
  BY <1>1, <1>2, <1>8 DEF BeginSuggestionsDelete
<1>9. CASE BeginObservationUpdate(c)
  <2>1. PICK q \in Asked(c) :
          /\ q.kind = "obsupdate" /\ Alive(observation, q.observation)
          /\ Begin(c, q, "rewrite")
          /\ copies' = [copies EXCEPT ![c][q.observation] = observation[q.observation]]
    BY <1>9 DEF BeginObservationUpdate
  <2> QED BY <1>1, <1>2, <2>1
<1>10. CASE BeginObservationsDelete(c)
  BY <1>1, <1>2, <1>10 DEF BeginObservationsDelete
<1>11. CASE BeginCheckpoint(c)
  BY <1>1, <1>2, <1>11 DEF BeginCheckpoint
<1>12. CASE BeginRestoreExperiment(c)
  BY <1>1, <1>2, <1>12 DEF BeginRestoreExperiment
<1>13. CASE BeginObservationCreate(c)
  BY <1>1, <1>2, <1>13 DEF BeginObservationCreate
<1> QED BY <1>3, <1>4, <1>5, <1>6, <1>7, <1>8, <1>9, <1>10, <1>11, <1>12, <1>13 DEF Arrive

(* A statement is one of a few that write the table it changes.            *)
LEMMA Statements ==
  ASSUME TypeOK, NEW c \in Calls, Step(c)
  PROVE  /\ Active(c) /\ met' = met /\ req' = req
         /\ pc'[c] # pc[c] /\ pc'[c] # "idle"
         /\ \A d \in Calls \ {c} : SameLocals(d)
         /\ run' = run \/ InsertRun(c) \/ FlagRun(c) \/ FlagRuns(c) \/ Write(c) \/ NameObservation(c)
         /\ suggestion' = suggestion \/ ServeSuggestion(c) \/ FlagSuggestions(c) \/ Upsert(c)
         /\ \/ observation' = observation \/ ServeObservation(c) \/ WriteObservations(c)
            \/ InsertObservation(c) \/ InsertReported(c) \/ Rewrite(c)
         /\ checkpoints' = checkpoints \/ InsertCheckpoint(c)
         /\ gone' = gone \/ FlagExperiment(c)
         /\ \/ author' = author \/ ServeSuggestion(c) \/ ServeObservation(c) \/ InsertRun(c)
            \/ InsertObservation(c) \/ InsertReported(c)
         /\ \/ held'[c] = held[c] \/ ServeSuggestion(c) \/ ServeObservation(c) \/ InsertRun(c)
            \/ Reread(c) \/ FlagRun(c) \/ Examine(c) \/ InsertObservation(c) \/ NameObservation(c)
         /\ marked'[c] = marked[c] \/ Reread(c) \/ FlagSuggestions(c)
         /\ kept'[c] = kept[c] \/ Upsert(c)
         /\ copies'[c] = copies[c] \/ ReadObservations(c) \/ WriteObservations(c) \/ Rewrite(c)
<1> USE DEF TypeOK, tables, locals, history, Goto, At, Active, Ended
<1>0. \A d \in Calls \ {c} : SameLocals(d)
  BY OthersKeep
<1>1. CASE ServeSuggestion(c)
  BY <1>0, <1>1 DEF ServeSuggestion
<1>2. CASE ServeObservation(c)
  BY <1>0, <1>2 DEF ServeObservation
<1>3. CASE InsertRun(c)
  BY <1>0, <1>3 DEF InsertRun
<1>4. CASE Reread(c)
  BY <1>0, <1>4 DEF Reread, ToObservations
<1>5. CASE FlagSuggestions(c)
  BY <1>0, <1>5 DEF FlagSuggestions, ToObservations
<1>6. CASE ReadObservations(c)
  BY <1>0, <1>6 DEF ReadObservations
<1>7. CASE WriteObservations(c)
  BY <1>0, <1>7 DEF WriteObservations
<1>8. CASE FlagRun(c)
  BY <1>0, <1>8 DEF FlagRun, Onward
<1>9. CASE FlagRuns(c)
  BY <1>0, <1>9 DEF FlagRuns
<1>10. CASE FlagExperiment(c)
  BY <1>0, <1>10 DEF FlagExperiment
<1>11. CASE Write(c)
  BY <1>0, <1>11 DEF Write
<1>12. CASE Examine(c)
  BY <1>0, <1>12 DEF Examine
<1>13. CASE Recheck(c)
  BY <1>0, <1>13 DEF Recheck
<1>14. CASE InsertObservation(c)
  BY <1>0, <1>14 DEF InsertObservation
<1>15. CASE NameObservation(c)
  BY <1>0, <1>15 DEF NameObservation
<1>16. CASE Rewrite(c)
  BY <1>0, <1>16 DEF Rewrite
<1>17. CASE Upsert(c)
  BY <1>0, <1>17 DEF Upsert
<1>18. CASE InsertCheckpoint(c)
  BY <1>0, <1>18 DEF InsertCheckpoint
<1>19. CASE InsertReported(c)
  BY <1>0, <1>19 DEF InsertReported
<1> QED BY <1>1, <1>2, <1>3, <1>4, <1>5, <1>6, <1>7, <1>8, <1>9,
           <1>10, <1>11, <1>12, <1>13, <1>14, <1>15, <1>16, <1>17, <1>18, <1>19 DEF Step

---------------------------------------------------------------------------
(* Calls that meet. *)

(* Calls that are under way together have met; a call to come has met none *)
(* and was asked for nothing.                                              *)
MetInv ==
  /\ \A c, d \in Calls : (c # d /\ Active(c) /\ Active(d)) => d \in met[c]
  /\ \A c, d \in Calls : d \in met[c] => c \in met[d] /\ pc[c] # "idle"
  /\ \A c \in Calls : pc[c] = "idle" => req[c] = NoRequest

LEMMA MetStep ==
  ASSUME TypeOK, MetInv, [Next]_vars
  PROVE  MetInv'
<1> USE DEF TypeOK
<1>1. ASSUME NEW c \in Calls, Arrive(c) PROVE MetInv'
  <2>1. /\ pc[c] = "idle" /\ pc'[c] # "idle"
        /\ \A d \in Calls \ {c} : pc'[d] = pc[d] /\ req'[d] = req[d]
    BY <1>1, Arrivals DEF SameLocals
  <2>2. met' = [d \in Calls |-> IF d = c THEN {e \in Calls : Active(e)}
                                ELSE IF Active(d) THEN met[d] \cup {c} ELSE met[d]]
    BY <1>1, Arrivals
  <2>3. ~Active(c) /\ \A d \in Calls \ {c} : Active(d)' <=> Active(d)
    BY <2>1 DEF Active
  <2>4. \A d \in Calls : c \notin met[d] /\ d \notin met[c]
    BY <2>1 DEF MetInv
  <2>5. \A d \in Calls : Active(d) => pc[d] # "idle"
    BY DEF Active
  <2> QED BY <2>1, <2>2, <2>3, <2>4, <2>5 DEF MetInv
<1>2. ASSUME NEW c \in Calls, Step(c) PROVE MetInv'
  BY <1>2, Statements DEF SameLocals, MetInv, Active
<1>3. ASSUME NEW c \in Calls, Crash(c) PROVE MetInv'
  BY <1>3 DEF Crash, Goto, MetInv, Active, Ended, locals, history
<1>4. CASE UNCHANGED vars
  BY <1>4 DEF vars, locals, history, MetInv, Active
<1> QED BY <1>1, <1>2, <1>3, <1>4 DEF Next

(* What a call was asked for stays, calls stay ended, and those that met   *)
(* stay so.                                                                *)
LEMMA CallsStay ==
  ASSUME TypeOK, MetInv, [Next]_vars, NEW d \in Calls
  PROVE  /\ met[d] \subseteq met'[d]
         /\ req[d] # NoRequest => pc[d] # "idle"
         /\ pc[d] # "idle" => req'[d] = req[d] /\ pc'[d] # "idle"
         /\ pc[d] \in Ended => pc'[d] = pc[d]
<1> DEFINE Goal ==
             /\ met[d] \subseteq met'[d]
             /\ pc[d] # "idle" => req'[d] = req[d] /\ pc'[d] # "idle"
             /\ pc[d] \in Ended => pc'[d] = pc[d]
<1> USE DEF TypeOK
<1>1. ASSUME NEW c \in Calls, Arrive(c) PROVE Goal
  <2>1. pc[c] = "idle" /\ \A e \in Calls \ {c} : SameLocals(e)
    BY <1>1, Arrivals
  <2>2. met' = [e \in Calls |-> IF e = c THEN {f \in Calls : Active(f)}
                                ELSE IF Active(e) THEN met[e] \cup {c} ELSE met[e]]
    BY <1>1, Arrivals
  <2>3. met[c] = {}
    BY <2>1 DEF MetInv
  <2> QED BY <2>1, <2>2, <2>3 DEF SameLocals, Ended
<1>2. ASSUME NEW c \in Calls, Step(c) PROVE Goal
  BY <1>2, Statements DEF SameLocals, Active
<1>3. ASSUME NEW c \in Calls, Crash(c) PROVE Goal
  BY <1>3 DEF Crash, Goto, Active, Ended, locals, history
<1>4. ASSUME UNCHANGED vars PROVE Goal
  BY <1>4 DEF vars, locals, history
<1> QED BY <1>1, <1>2, <1>3, <1>4 DEF Next, MetInv

(* So stays what a call is, once it has come.                              *)
LEMMA DeedsStay ==
  ASSUME TypeOK, MetInv, [Next]_vars, NEW d \in Calls
  PROVE  /\ \A k \in Kinds : Is(d, k) => Is(d, k)'
         /\ Deletes(d) => Deletes(d)'
         /\ Restores(d) => Restores(d)'
         /\ WritesBack(d) => WritesBack(d)'
         /\ \A r \in Runs : Updates(d, r) => Updates(d, r)'
<1>1. req[d] # NoRequest => req'[d] = req[d]
  BY CallsStay
<1> QED BY <1>1 DEF Is, Deletes, FlagsAll, Restores, WritesBack, Updates

(* Which statement comes after which.                                      *)
LEMMA Order ==
  ASSUME TypeOK, NEW c \in Calls, Step(c)
  PROVE  /\ pc'[c] \in {"insert_run", "flag_suggestions", "read_observations", "write_observations",
                        "flag_run", "flag_experiment", "write", "examine", "done", "failed"}
                       \cup Reporting
         /\ pc'[c] = "insert_run" => pc[c] \in {"serve_suggestion", "serve_observation"}
         /\ pc'[c] = "flag_suggestions" => pc[c] \in {"reread", "flag_runs"}
         /\ pc'[c] = "read_observations" => pc[c] \in {"reread", "flag_suggestions"}
         /\ pc'[c] = "write_observations" => ReadObservations(c)
         /\ pc'[c] = "flag_run" => pc[c] \in {"reread", "flag_suggestions", "write_observations"}
         /\ pc'[c] = "flag_experiment" => pc[c] = "write_observations"
         /\ pc'[c] = "recheck" => Examine(c)
         /\ pc'[c] = "insert_observation" => Recheck(c)
         /\ pc'[c] = "name_observation" => InsertObservation(c)
<1> USE DEF TypeOK, Goto, At, Reporting
<1>1. CASE ServeSuggestion(c)
  BY <1>1 DEF ServeSuggestion
<1>2. CASE ServeObservation(c)
  BY <1>2 DEF ServeObservation
<1>3. CASE InsertRun(c)
  BY <1>3 DEF InsertRun
<1>4. CASE Reread(c)
  BY <1>4 DEF Reread, ToObservations
<1>5. CASE FlagSuggestions(c)
  BY <1>5 DEF FlagSuggestions, ToObservations
<1>6. CASE ReadObservations(c)
  BY <1>6 DEF ReadObservations
<1>7. CASE WriteObservations(c)
  BY <1>7 DEF WriteObservations
<1>8. CASE FlagRun(c)
  BY <1>8 DEF FlagRun, Onward
<1>9. CASE FlagRuns(c)
  BY <1>9 DEF FlagRuns
<1>10. CASE FlagExperiment(c)
  BY <1>10 DEF FlagExperiment
<1>11. CASE Write(c)
  BY <1>11 DEF Write
<1>12. CASE Examine(c)
  BY <1>12 DEF Examine
<1>13. CASE Recheck(c)
  BY <1>13 DEF Recheck
<1>14. CASE InsertObservation(c)
  BY <1>14 DEF InsertObservation
<1>15. CASE NameObservation(c)
  BY <1>15 DEF NameObservation
<1>16. CASE Rewrite(c)
  BY <1>16 DEF Rewrite
<1>17. CASE Upsert(c)
  BY <1>17 DEF Upsert
<1>18. CASE InsertCheckpoint(c)
  BY <1>18 DEF InsertCheckpoint
<1>19. CASE InsertReported(c)
  BY <1>19 DEF InsertReported
<1> QED BY <1>1, <1>2, <1>3, <1>4, <1>5, <1>6, <1>7, <1>8, <1>9,
           <1>10, <1>11, <1>12, <1>13, <1>14, <1>15, <1>16, <1>17, <1>18, <1>19 DEF Step

(* What calls are asked for who flag rows or write them back.              *)
Flagging == {"reread", "flag_suggestions", "read_observations", "write_observations",
             "flag_run", "flag_runs"}
Purpose(c) ==
  /\ pc[c] = "rewrite" => Is(c, "obsupdate")
  /\ pc[c] = "upsert" => Is(c, "sugupdate")
  /\ pc[c] = "insert_checkpoint" \/ Is(c, "update") => Run(c) # NoRow
  /\ pc[c] \in Flagging => Deletes(c) \/ Restores(c)
PurposeInv == \A c \in Calls : Purpose(c)

(* A flag that is cleared restores the run.                                *)
LEMMA ClearingRestores ==
  ASSUME NEW c \in Calls, Purpose(c), pc[c] \in Flagging, ~Flag(c)
  PROVE  Restores(c)
BY DEF Purpose, Flag, Deletes, Restores, Is, FlagsAll, SuggestionDeletions, ObservationDeletions

LEMMA PurposeStep ==
  ASSUME TypeOK, ShapeInv, MetInv, PurposeInv, [Next]_vars
  PROVE  PurposeInv'
<1> SUFFICES ASSUME NEW d \in Calls PROVE Purpose(d)'
  BY DEF PurposeInv
<1>0. ASSUME pc[d] = "insert_checkpoint" \/ Is(d, "update"), req'[d] = req[d]
      PROVE  Run(d)' # NoRow
  <2>1. req[d].run \in Runs /\ Run(d) # NoRow
    BY <1>0 DEF ShapeInv, Shape, MetInv, Is, Request, PurposeInv, Purpose
  <2> QED BY <1>0, <2>1, RunsStay DEF Run
<1>1. ASSUME SameLocals(d) PROVE Purpose(d)'
  BY <1>0, <1>1 DEF SameLocals, PurposeInv, Purpose, Is, Deletes, FlagsAll, Restores
<1>2. ASSUME Arrive(d) PROVE Purpose(d)'
  <2> DEFINE q == req'[d]
  <2>1. q \in Request /\ q # NoRequest /\ run' = run
    BY <1>2, Arrivals, NullAssumption DEF tables
  <2>2. (q.kind = "update" /\ q.deleted # None) => q.deleted \in {TRUE, FALSE}
    BY <2>1 DEF Request
  <2> QED BY <1>2, <2>1, <2>2, Arrivals DEF Purpose, Flagging, Is, Deletes, FlagsAll, Restores,
     SuggestionDeletions, ObservationDeletions, Run
<1>3. ASSUME Step(d) PROVE Purpose(d)'
  <2>1. req' = req /\ Purpose(d)
    BY <1>3, Statements DEF PurposeInv
  <2>2. pc'[d] \in Flagging => pc[d] \in Flagging
    BY <1>3, Order DEF Flagging, ReadObservations, At, Reporting
  <2>3. pc'[d] \notin {"rewrite", "upsert", "insert_checkpoint"}
    BY <1>3, Order DEF Reporting
  <2>4. Is(d, "update")' => Run(d)' # NoRow
    BY <1>0, <2>1 DEF Is
  <2> QED BY <2>1, <2>2, <2>3, <2>4 DEF Purpose, Deletes, FlagsAll, Is, Restores
<1>4. ASSUME Crash(d) PROVE Purpose(d)'
  <2>1. req' = req /\ pc'[d] = "dead"
    BY <1>4 DEF Crash, Goto, locals, TypeOK
  <2>2. Is(d, "update")' => Run(d)' # NoRow
    BY <1>0, <2>1 DEF Is
  <2> QED BY <2>1, <2>2 DEF Purpose, Flagging
<1>5. ASSUME NEW c \in Calls, c # d, Arrive(c) \/ Step(c) \/ Crash(c) PROVE SameLocals(d)
  BY <1>5, OthersKeep
<1>6. UNCHANGED vars => SameLocals(d)
  BY DEF vars, locals, SameLocals
<1> QED BY <1>1, <1>2, <1>3, <1>4, <1>5, <1>6 DEF Next

(* Types, and what every call knows, has met and is for.                   *)
Base == TypeOK /\ ShapeInv /\ MetInv /\ PurposeInv

LEMMA BaseInit == Init => Base
<1> SUFFICES ASSUME Init PROVE Base
  OBVIOUS
<1>1. TypeOK /\ ShapeInv
  BY InitType
<1>2. MetInv /\ PurposeInv
  BY DEF Init, MetInv, Active, PurposeInv, Purpose, Flagging, Is
<1> QED BY <1>1, <1>2 DEF Base

LEMMA BaseStep == Base /\ [Next]_vars => Base'
BY TypeStep, ShapeStep, MetStep, PurposeStep DEF Base

(* One call does a step, and the others keep what they hold.               *)
LEMMA Mover ==
  ASSUME TypeOK, [Next]_vars
  PROVE  \/ UNCHANGED vars
         \/ \E c \in Calls : /\ Arrive(c) \/ Step(c) \/ Crash(c)
                             /\ \A d \in Calls \ {c} : SameLocals(d)
BY OthersKeep DEF Next

(* What a call holds is changed by a step of its own.                      *)
LEMMA OwnMove ==
  ASSUME TypeOK, [Next]_vars, NEW d \in Calls
  PROVE  SameLocals(d) \/ Arrive(d) \/ Step(d) \/ Crash(d)
BY Mover DEF vars, locals, SameLocals

(* A call that is to write a row back has come so far on arrival.          *)
LEMMA WritersArrive ==
  ASSUME TypeOK, [Next]_vars, NEW d \in Calls, pc'[d] \in {"rewrite", "upsert"}
  PROVE  SameLocals(d) \/ Arrive(d)
<1>1. ~Step(d)
  BY Order DEF Reporting
<1>2. ~Crash(d)
  BY DEF Crash, Goto, TypeOK
<1> QED BY <1>1, <1>2, OwnMove

---------------------------------------------------------------------------
(* Checkpoints. *)

(* A call about to add a checkpoint found room for it: what is there beyond *)
(* came from calls it has met.                                             *)
RoomFor(c) ==
  pc[c] = "insert_checkpoint" =>
    /\ Cardinality(checkpoints[req[c].run] \ met[c]) < MaxCheckpoints
    /\ Run(c).observation # None => \E d \in met[c] : Updates(d, req[c].run)
CheckpointInv ==
  /\ \A r \in Runs : IsFiniteSet(checkpoints[r])
  /\ \A c \in Calls : RoomFor(c)

(* A run gets its observation from an update that is under way.            *)
LEMMA Reported ==
  ASSUME Base, [Next]_vars, NEW r \in Runs, run[r] # NoRow,
         run[r].observation = None, run'[r].observation # None
  PROVE  \E d \in Calls : Step(d) /\ Active(d) /\ Updates(d, r)
<1> USE DEF Base, TypeOK, RunTable
<1>1. run'[r] # run[r]
  OBVIOUS
<1>2. PICK d \in Calls : Step(d)
  BY <1>1, Arrivals DEF Next, vars, tables, Crash
<1>3. Shape(d) /\ Active(d)
  BY <1>2, Statements DEF ShapeInv
<1>4. CASE NameObservation(d)
  <2>1. req[d].run = r
    BY <1>1, <1>4 DEF NameObservation
  <2>2. Is(d, "update")
    BY <1>3, <1>4, NullAssumption DEF NameObservation, At, Shape, Reporting, Is, Active
  <2> QED BY <1>2, <1>3, <2>1, <2>2 DEF Updates
<1>5. CASE InsertRun(d)
  BY <1>1, <1>5, NewIsFree DEF InsertRun, Insert
<1>6. CASE FlagRun(d) \/ FlagRuns(d) \/ Write(d)
  BY <1>6 DEF FlagRun, FlagRuns, Write, RunRow
<1> QED BY <1>1, <1>2, <1>4, <1>5, <1>6, Statements

LEMMA CheckpointStep ==
  ASSUME Base, CheckpointInv, [Next]_vars
  PROVE  CheckpointInv'
<1> USE DEF Base, TypeOK
<1>0. Base'
  BY BaseStep
<1>1. \A c \in Calls, r \in Runs : met[c] \subseteq met'[c] /\ Cardinality(checkpoints[r] \ met[c]) \in Nat
  BY CallsStay, FS_Difference, FS_CardinalityType DEF CheckpointInv
<1>2. ASSUME NEW r \in Runs
      PROVE  /\ IsFiniteSet(checkpoints'[r])
             /\ \/ checkpoints'[r] = checkpoints[r]
                \/ \E d \in Calls : /\ Active(d) /\ pc'[d] = "done"
                                    /\ checkpoints'[r] = checkpoints[r] \cup {d}
  <2>1. CASE checkpoints' = checkpoints
    BY <2>1 DEF CheckpointInv
  <2>2. CASE \E d \in Calls : InsertCheckpoint(d)
    <3>1. PICK d \in Calls : InsertCheckpoint(d)
      BY <2>2
    <3>2. /\ Active(d) /\ pc'[d] = "done"
          /\ checkpoints'[r] = checkpoints[r] \cup (IF r = req[d].run THEN {d} ELSE {})
      BY <3>1 DEF InsertCheckpoint, At, Goto, Active, Ended
    <3>3. IsFiniteSet(checkpoints[r]) /\ IsFiniteSet(checkpoints[r] \cup {d})
      BY FS_AddElement DEF CheckpointInv
    <3> QED BY <3>2, <3>3
  <2> QED BY <2>1, <2>2, Arrivals, Statements DEF Next, vars, tables, Crash
<1>3. ASSUME NEW c \in Calls, SameLocals(c), pc[c] = "insert_checkpoint" PROVE RoomFor(c)'
  <2> DEFINE r == req[c].run
  <2>1. r \in Runs /\ req'[c] = req[c] /\ run[r] # NoRow /\ Active(c) /\ Active(c)'
    BY <1>3 DEF ShapeInv, Shape, Request, SameLocals, PurposeInv, Purpose, Run, Active, Ended
  <2>2. checkpoints'[r] \ met'[c] \subseteq checkpoints[r] \ met[c]
    <3>1. ASSUME NEW d \in Calls, Active(d), pc'[d] = "done" PROVE d \in met[c]
      BY <1>3, <2>1, <3>1 DEF MetInv, SameLocals
    <3>2. \/ checkpoints'[r] = checkpoints[r]
          \/ \E d \in Calls : /\ Active(d) /\ pc'[d] = "done"
                              /\ checkpoints'[r] = checkpoints[r] \cup {d}
      BY <1>2, <2>1
    <3>3. met[c] \subseteq met'[c]
      BY <1>1, <2>1
    <3> HIDE DEF r
    <3> QED BY <3>1, <3>2, <3>3
  <2>3. Cardinality(checkpoints'[r] \ met'[c]) <= Cardinality(checkpoints[r] \ met[c])
    BY <2>1, <2>2, FS_Difference, FS_Subset DEF CheckpointInv
  <2>4. Cardinality(checkpoints'[r] \ met'[c]) \in Nat
    BY <1>2, <2>1, FS_Difference, FS_CardinalityType
  <2>5. Cardinality(checkpoints'[r] \ met'[c]) < MaxCheckpoints
    <3>1. Cardinality(checkpoints[r] \ met[c]) < MaxCheckpoints
      BY <1>3 DEF CheckpointInv, RoomFor
    <3>2. Cardinality(checkpoints[r] \ met[c]) \in Nat
      BY <1>1, <2>1
    <3> QED BY <2>3, <2>4, <3>1, <3>2, InputAssumption
  <2>6. ASSUME run'[r].observation # None PROVE \E d \in met'[c] : Updates(d, r)'
    <3>1. CASE run[r].observation = None
      <4>1. PICK d \in Calls : Step(d) /\ Active(d) /\ Updates(d, r)
        BY <2>1, <2>6, <3>1, Reported
      <4>2. d # c /\ d \in met[c]
        BY <1>3, <2>1, <4>1, Statements DEF SameLocals, MetInv
      <4> QED BY <1>1, <2>1, <4>1, <4>2, DeedsStay
    <3>2. CASE run[r].observation # None
      BY <1>1, <1>3, <2>1, <3>2, DeedsStay DEF CheckpointInv, RoomFor, Run
    <3> QED BY <3>1, <3>2
  <2> QED BY <2>1, <2>5, <2>6 DEF RoomFor, Run
<1>4. ASSUME NEW c \in Calls, pc'[c] = "insert_checkpoint", Arrive(c) PROVE RoomFor(c)'
  <2> DEFINE r == req'[c].run
  <2>1. /\ r \in Runs /\ UNCHANGED <<checkpoints, run>>
        /\ MayAdd(Cardinality(checkpoints[r]), run[r])
    BY <1>4, Arrivals DEF Request, tables
  <2>2. Cardinality(checkpoints[r] \ met'[c]) <= Cardinality(checkpoints[r])
    BY <2>1, FS_Difference, FS_Subset DEF CheckpointInv
  <2>3. Cardinality(checkpoints[r] \ met'[c]) \in Nat /\ Cardinality(checkpoints[r]) \in Nat
    BY <2>1, FS_Difference, FS_CardinalityType DEF CheckpointInv
  <2> QED BY <2>1, <2>2, <2>3, InputAssumption DEF RoomFor, Run, MayAdd
<1>5. ASSUME NEW c \in Calls, pc'[c] = "insert_checkpoint", Step(c) \/ Crash(c) PROVE FALSE
  BY <1>5, Order DEF Crash, Goto, Reporting
<1>6. ASSUME NEW c \in Calls PROVE RoomFor(c)'
  <2>1. SameLocals(c) \/ Arrive(c) \/ Step(c) \/ Crash(c)
    BY Mover DEF vars, locals, SameLocals
  <2> QED BY <1>3, <1>4, <1>5, <2>1 DEF SameLocals, RoomFor
<1> QED BY <1>2, <1>6 DEF CheckpointInv

(* What a checkpoint that comes late or beyond the limit shows.            *)
LEMMA CheckpointAdded ==
  ASSUME Base, CheckpointInv, [Next]_vars, NEW c \in Calls,
         pc[c] = "insert_checkpoint", pc'[c] = "done"
  PROVE  LET r == req[c].run IN
         /\ Cardinality(checkpoints'[r]) > MaxCheckpoints => \E d \in checkpoints'[r] : Met(c, d)
         /\ run[r].observation # None => \E d \in met[c] : Updates(d, r)
<1> DEFINE r == req[c].run
<1> USE DEF Base, TypeOK
<1>1. r \in Runs /\ IsFiniteSet(checkpoints[r]) /\ RoomFor(c)
  BY DEF ShapeInv, Shape, Request, CheckpointInv
<1>2. InsertCheckpoint(c)
  <2>1. Step(c)
    BY Mover DEF SameLocals, vars, Arrive, Begin, BeginCreate, BeginUpdate, BeginDelete,
       BeginDeleteExperiment, BeginSuggestionUpdate, BeginSuggestionsDelete,
       BeginObservationUpdate, BeginObservationsDelete, BeginCheckpoint, BeginRestoreExperiment,
       BeginObservationCreate, Crash, Goto
  <2> QED BY <2>1 DEF Step, At, ServeSuggestion, ServeObservation, InsertRun, Reread,
       FlagSuggestions, ReadObservations, WriteObservations, FlagRun, FlagRuns,
       FlagExperiment, Write, Examine, Recheck, InsertObservation, NameObservation,
       InsertReported, Rewrite, Upsert
<1>3. checkpoints'[r] = checkpoints[r] \cup {c}
  BY <1>1, <1>2 DEF InsertCheckpoint
<1>4. ASSUME Cardinality(checkpoints'[r]) > MaxCheckpoints, \A d \in checkpoints'[r] : ~Met(c, d)
      PROVE  FALSE
  <2>1. checkpoints[r] \ met[c] = checkpoints[r]
    BY <1>3, <1>4 DEF Met
  <2>2. Cardinality(checkpoints[r]) < MaxCheckpoints /\ Cardinality(checkpoints[r]) \in Nat
    BY <1>1, <2>1, FS_CardinalityType DEF RoomFor
  <2>3. Cardinality(checkpoints'[r]) <= Cardinality(checkpoints[r]) + 1
    <3>1. Cardinality(checkpoints[r] \cup {c}) =
            IF c \in checkpoints[r] THEN Cardinality(checkpoints[r])
                                    ELSE Cardinality(checkpoints[r]) + 1
      BY <1>1, FS_AddElement
    <3> QED BY <1>3, <2>2, <3>1
  <2>4. Cardinality(checkpoints'[r]) \in Nat
    BY <1>1, <1>3, FS_AddElement, FS_CardinalityType
  <2> QED BY <1>4, <2>2, <2>3, <2>4, InputAssumption
<1> QED BY <1>1, <1>4 DEF RoomFor, Run

(* A run gets more checkpoints than the limit, or one after its            *)
(* observation, only by calls that were under way together.                *)
THEOREM CheckpointLimit == Spec => CheckpointsBounded
<1>1. Init => Base /\ CheckpointInv
  BY BaseInit, FS_EmptySet DEF Init, CheckpointInv, RoomFor
<1>2. Base /\ CheckpointInv /\ [Next]_vars => (Base /\ CheckpointInv)'
  BY BaseStep, CheckpointStep
<1>3. Base /\ CheckpointInv /\ [Next]_vars =>
        [\A c \in Calls : LET r == req[c].run IN
           (pc[c] = "insert_checkpoint" /\ pc'[c] = "done")
             => /\ Cardinality(checkpoints'[r]) > MaxCheckpoints
                     => \E d \in checkpoints'[r] : Met(c, d)
                /\ run[r].observation # None => \E d \in met[c] : Updates(d, r)]_vars
  BY CheckpointAdded
<1> QED BY <1>1, <1>2, <1>3, PTL DEF Spec, CheckpointsBounded

---------------------------------------------------------------------------
(* Rows that are written back. *)

(* What a call is about to write back is a copy of a row in use; if the    *)
(* row is deleted by now, then by a call that it has met.                  *)
Holds(c, o) == pc[c] \in {"rewrite", "write_observations"} /\ copies[c][o] # NoRow
Deleters(c) == {d \in met[c] : Deletes(d) \/ Restores(d)}
CopyOf(c) ==
  /\ pc[c] = "idle" => copies[c] = NoCopies
  /\ \A o \in Observations : Holds(c, o) => observation[o] # NoRow
  /\ pc[c] = "rewrite" =>
       LET o == req[c].observation
       IN /\ Holds(c, o) /\ ~copies[c][o].deleted
          /\ observation[o].deleted => Deleters(c) # {}
  /\ pc[c] = "upsert" =>
       LET s == req[c].suggestion
       IN /\ suggestion[s] # NoRow /\ kept[c] # NoRow /\ ~kept[c].deleted
          /\ suggestion[s].deleted => Deleters(c) # {}
CopyInv == \A c \in Calls : CopyOf(c)

(* What a step does to an observation: it is new, is copied back, or is    *)
(* flagged by a call that deletes or restores.                             *)
LEMMA ObservationWritten ==
  ASSUME Base, CopyInv, NEW c \in Calls, Step(c), NEW o \in Observations,
         observation'[o] # observation[o]
  PROVE  \/ /\ observation[o] = NoRow /\ observation'[o] # NoRow /\ o = New(observation)
            /\ author'[<<o, "observation">>] = c
            /\ \/ ServeObservation(c) /\ observation'[o].suggestion = None
               \/ InsertObservation(c) /\ observation'[o].suggestion = held[c].suggestion
               \/ InsertReported(c) /\ Is(c, "obscreate")
         \/ /\ observation[o] # NoRow /\ copies[c][o] \in ObservationRow
            /\ pc[c] = "rewrite" /\ o = req[c].observation
            /\ req[c].reports \in Suggestions \cup {None, Same}
            /\ observation'[o] = Rewritten(c)
         \/ /\ observation[o] # NoRow /\ copies[c][o] \in ObservationRow
            /\ pc[c] = "write_observations"
            /\ observation'[o] = [copies[c][o] EXCEPT !.deleted = Flag(c)]
<1> USE DEF Base, TypeOK, At, ObservationTable
<1>1. CASE ServeObservation(c)
  <2>1. New(observation) = o /\ Insert(observation, c, "observation")
    BY <1>1 DEF ServeObservation
  <2>2. observation[o] = NoRow
    BY <2>1, NewIsFree DEF Insert
  <2>3. observation'[o] = [suggestion |-> None, deleted |-> FALSE, edits |-> {}]
    BY <1>1, <2>1 DEF ServeObservation
  <2>4. author'[<<o, "observation">>] = c
    BY <2>1 DEF Insert, Rows
  <2>5. observation'[o] # NoRow
    <3>1. [suggestion |-> None, deleted |-> FALSE, edits |-> {}] \in ObservationRow
      BY DEF ObservationRow
    <3> QED BY <2>3, <3>1, NullAssumption
  <2> QED BY <1>1, <2>1, <2>2, <2>3, <2>4, <2>5
<1>2. CASE InsertObservation(c)
  <2>1. New(observation) = o /\ Insert(observation, c, "observation")
    BY <1>2 DEF InsertObservation
  <2>2. observation[o] = NoRow
    BY <2>1, NewIsFree DEF Insert
  <2>3. observation'[o] = [suggestion |-> held[c].suggestion, deleted |-> FALSE, edits |-> {}]
    BY <1>2, <2>1 DEF InsertObservation
  <2>4. author'[<<o, "observation">>] = c
    BY <2>1 DEF Insert, Rows
  <2>5. held[c].suggestion \in Suggestions \cup {None}
    BY <1>2 DEF InsertObservation, ShapeInv, Shape, Reporting, RunRow
  <2>6. observation'[o] # NoRow
    <3>1. [suggestion |-> held[c].suggestion, deleted |-> FALSE, edits |-> {}] \in ObservationRow
      BY <2>5 DEF ObservationRow
    <3> QED BY <2>3, <3>1, NullAssumption
  <2> QED BY <1>2, <2>1, <2>2, <2>3, <2>4, <2>6
<1>3. CASE Rewrite(c)
  <2>1. Holds(c, req[c].observation) /\ pc[c] = "rewrite"
    BY <1>3 DEF Rewrite, CopyInv, CopyOf
  <2>2. o = req[c].observation /\ observation'[o] = Rewritten(c)
    BY <1>3 DEF Rewrite
  <2>3. /\ observation[o] # NoRow /\ copies[c][o] \in ObservationRow
        /\ req[c].reports \in Suggestions \cup {None, Same}
    BY <2>1, <2>2 DEF CopyInv, CopyOf, Holds, ShapeInv, Shape, Request
  <2> QED BY <2>1, <2>2, <2>3
<1>4. CASE WriteObservations(c)
  <2>1. /\ pc[c] = "write_observations" /\ copies[c][o] # NoRow
        /\ observation'[o] = Flagged(c, copies[c][o])
    BY <1>4 DEF WriteObservations
  <2>2. observation[o] # NoRow /\ copies[c][o] \in ObservationRow
    BY <2>1 DEF CopyInv, CopyOf, Holds
  <2> QED BY <2>1, <2>2 DEF Flagged
<1>5. CASE InsertReported(c)
  <2>1. New(observation) = o /\ Insert(observation, c, "observation")
    BY <1>5 DEF InsertReported
  <2>2. observation[o] = NoRow
    BY <2>1, NewIsFree DEF Insert
  <2>3. Is(c, "obscreate") /\ req[c].reports \in Suggestions \cup {None}
    BY <1>5, NullAssumption DEF InsertReported, ShapeInv, Shape, MetInv, Request, Is
  <2>4. observation'[o] = [suggestion |-> req[c].reports, deleted |-> FALSE, edits |-> {}]
    BY <1>5, <2>1 DEF InsertReported
  <2>5. author'[<<o, "observation">>] = c
    BY <2>1 DEF Insert, Rows
  <2>6. observation'[o] # NoRow
    <3>1. [suggestion |-> req[c].reports, deleted |-> FALSE, edits |-> {}] \in ObservationRow
      BY <2>3 DEF ObservationRow
    <3> QED BY <2>4, <3>1, NullAssumption
  <2> QED BY <1>5, <2>1, <2>2, <2>3, <2>5, <2>6
<1> QED BY <1>1, <1>2, <1>3, <1>4, <1>5, Statements

(* The same for a suggestion; its flag is set in place.                    *)
LEMMA SuggestionWritten ==
  ASSUME Base, NEW c \in Calls, Step(c), NEW s \in Suggestions, suggestion'[s] # suggestion[s]
  PROVE  \/ /\ ServeSuggestion(c) /\ suggestion[s] = NoRow /\ suggestion'[s] # NoRow
            /\ author'[<<s, "suggestion">>] = c
         \/ /\ pc[c] = "upsert" /\ s = req[c].suggestion
            /\ suggestion'[s] = [kept[c] EXCEPT !.edits = @ \cup {c}]
            /\ kept[c] \in SuggestionRow
         \/ /\ pc[c] = "flag_suggestions" /\ suggestion[s] # NoRow
            /\ suggestion'[s] = [suggestion[s] EXCEPT !.deleted = Flag(c)]
<1> USE DEF Base, TypeOK, At, SuggestionTable
<1>1. CASE ServeSuggestion(c)
  <2>1. New(suggestion) = s /\ Insert(suggestion, c, "suggestion")
    BY <1>1 DEF ServeSuggestion
  <2>2. suggestion[s] = NoRow
    BY <2>1, NewIsFree DEF Insert
  <2>3. suggestion'[s] = [deleted |-> FALSE, edits |-> {}]
    BY <1>1, <2>1 DEF ServeSuggestion
  <2>4. author'[<<s, "suggestion">>] = c
    BY <2>1 DEF Insert, Rows
  <2>5. suggestion'[s] # NoRow
    <3>1. [deleted |-> FALSE, edits |-> {}] \in SuggestionRow
      BY DEF SuggestionRow
    <3> QED BY <2>3, <3>1, NullAssumption
  <2> QED BY <1>1, <2>2, <2>3, <2>4, <2>5
<1>2. CASE Upsert(c)
  <2>1. kept[c] \in SuggestionRow
    BY <1>2 DEF Upsert, ShapeInv, Shape
  <2> QED BY <1>2, <2>1 DEF Upsert
<1>3. CASE FlagSuggestions(c)
  BY <1>3 DEF FlagSuggestions
<1> QED BY <1>1, <1>2, <1>3, Statements

(* And for a run.                                                          *)
LEMMA RunWritten ==
  ASSUME Base, NEW c \in Calls, Step(c), NEW r \in Runs, run'[r] # run[r]
  PROVE  \/ /\ InsertRun(c) /\ run[r] = NoRow /\ run'[r] = held[c]
            /\ author'[<<r, "run">>] = c
         \/ /\ run[r] \in RunRow
            /\ \/ FlagRun(c) /\ r = req[c].run /\ run'[r] = [run[r] EXCEPT !.deleted = Flag(c)]
               \/ FlagRuns(c) /\ run'[r] = [run[r] EXCEPT !.deleted = TRUE]
               \/ /\ Write(c) /\ r = req[c].run
                  /\ run'[r] = [run[r] EXCEPT !.state = req[c].state]
               \/ /\ NameObservation(c) /\ r = req[c].run
                  /\ run'[r] = [run[r] EXCEPT !.observation = held[c].observation]
<1> USE DEF Base, TypeOK, At, RunTable
<1>1. CASE InsertRun(c)
  <2>1. New(run) = r /\ Insert(run, c, "run") /\ run'[r] = held[c]
    BY <1>1 DEF InsertRun
  <2>2. run[r] = NoRow
    BY <2>1, NewIsFree DEF Insert
  <2>3. author'[<<r, "run">>] = c
    BY <2>1 DEF Insert, Rows
  <2> QED BY <1>1, <2>1, <2>2, <2>3
<1>2. CASE FlagRuns(c)
  BY <1>2 DEF FlagRuns
<1>3. ASSUME r = req[c].run, FlagRun(c) \/ Write(c) \/ NameObservation(c) PROVE run[r] \in RunRow
  BY <1>3 DEF FlagRun, Write, NameObservation, ShapeInv, Shape, OfRun, Looking, Reporting, Run
<1>4. CASE FlagRun(c)
  BY <1>3, <1>4 DEF FlagRun
<1>5. CASE Write(c)
  BY <1>3, <1>5 DEF Write
<1>6. CASE NameObservation(c)
  BY <1>3, <1>6 DEF NameObservation
<1> QED BY <1>1, <1>2, <1>4, <1>5, <1>6, Statements

(* A row that is changed is a row. *)
LEMMA RowRewritten ==
  ASSUME NEW c \in Calls, copies[c][req[c].observation] \in ObservationRow,
         req[c].reports \in Suggestions \cup {None, Same}
  PROVE  LET row == copies[c][req[c].observation]
         IN /\ Rewritten(c) \in ObservationRow /\ Rewritten(c) # NoRow
            /\ Rewritten(c).deleted = row.deleted
            /\ Rewritten(c).edits = row.edits \cup {c}
            /\ Rewritten(c).suggestion = IF req[c].reports = Same THEN row.suggestion
                                                                 ELSE req[c].reports
<1> DEFINE row == copies[c][req[c].observation]
           named == IF req[c].reports = Same THEN row.suggestion ELSE req[c].reports
           new == [row EXCEPT !.suggestion = named, !.edits = @ \cup {c}]
<1>1. row \in ObservationRow /\ named \in Suggestions \cup {None}
  BY DEF ObservationRow
<1>2. new = Rewritten(c)
  BY DEF Rewritten
<1> HIDE DEF row, named
<1>3. new \in ObservationRow
  BY <1>1 DEF ObservationRow
<1>4. new # NoRow
  BY <1>3, NullAssumption
<1>5. new.deleted = row.deleted /\ new.edits = row.edits \cup {c} /\ new.suggestion = named
  BY <1>1 DEF ObservationRow
<1> HIDE DEF new
<1> QED BY <1>2, <1>3, <1>4, <1>5 DEF row, named

LEMMA RowFlagged ==
  ASSUME NEW row \in ObservationRow, NEW b \in BOOLEAN
  PROVE  LET new == [row EXCEPT !.deleted = b]
         IN /\ new # NoRow /\ new.suggestion = row.suggestion /\ new.deleted = b
            /\ new.edits = row.edits
<1>1. [row EXCEPT !.deleted = b] \in ObservationRow
  BY DEF ObservationRow
<1> QED BY <1>1, NullAssumption DEF ObservationRow

(* An observation stays; who deletes it has the right to.                  *)
LEMMA ObservationsStay ==
  ASSUME Base, CopyInv, [Next]_vars, NEW o \in Observations, observation[o] # NoRow
  PROVE  /\ observation'[o] # NoRow
         /\ observation'[o].deleted =>
              \/ observation[o].deleted
              \/ \E c \in Calls : Step(c) /\ pc[c] \in Flagging
<1> USE DEF Base, TypeOK, ObservationTable
<1>1. CASE observation'[o] = observation[o]
  BY <1>1
<1>2. ASSUME NEW c \in Calls, Step(c), observation'[o] # observation[o]
      PROVE  /\ observation'[o] # NoRow
             /\ observation'[o].deleted => pc[c] \in Flagging
  <2>1. CASE /\ pc[c] = "rewrite" /\ o = req[c].observation /\ copies[c][o] \in ObservationRow
             /\ req[c].reports \in Suggestions \cup {None, Same}
             /\ observation'[o] = Rewritten(c)
    <3>1. ~copies[c][o].deleted
      BY <2>1 DEF CopyInv, CopyOf
    <3>2. observation'[o] # NoRow /\ observation'[o].deleted = copies[c][o].deleted
      BY <2>1, RowRewritten
    <3> QED BY <3>1, <3>2
  <2>2. CASE /\ pc[c] = "write_observations" /\ copies[c][o] \in ObservationRow
             /\ observation'[o] = [copies[c][o] EXCEPT !.deleted = Flag(c)]
    <3>1. Flag(c) \in BOOLEAN
      BY DEF Flag
    <3> QED BY <2>2, <3>1, RowFlagged DEF Flagging
  <2> QED BY <1>2, <2>1, <2>2, ObservationWritten
<1>3. observation'[o] # observation[o] => \E c \in Calls : Step(c)
  BY Arrivals DEF Next, vars, tables, Crash
<1> QED BY <1>1, <1>2, <1>3

(* Who deletes a suggestion has the right to.                              *)
LEMMA SuggestionDeleted ==
  ASSUME Base, CopyInv, [Next]_vars, NEW s \in Suggestions, suggestion[s] # NoRow,
         suggestion'[s].deleted, ~suggestion[s].deleted
  PROVE  \E c \in Calls : Step(c) /\ pc[c] \in Flagging
<1>1. suggestion'[s] # suggestion[s]
  OBVIOUS
<1>2. PICK c \in Calls : Step(c)
  BY <1>1, Arrivals DEF Next, vars, tables, Crash, Base
<1>3. CASE /\ pc[c] = "upsert" /\ s = req[c].suggestion /\ kept[c] \in SuggestionRow
           /\ suggestion'[s] = [kept[c] EXCEPT !.edits = @ \cup {c}]
  BY <1>3 DEF CopyInv, CopyOf, SuggestionRow
<1> QED BY <1>1, <1>2, <1>3, SuggestionWritten DEF Flagging

LEMMA CopyStep ==
  ASSUME Base, CopyInv, [Next]_vars
  PROVE  CopyInv'
<1> USE DEF Base, TypeOK
<1>1. ASSUME NEW d \in Calls, SameLocals(d) PROVE CopyOf(d)'
  <2>1. CopyOf(d) /\ (pc[d] # "idle" => req[d] \in Request)
    BY DEF CopyInv, ShapeInv, Shape
  <2>2. ASSUME pc[d] \in {"rewrite", "upsert"},
               Deleters(d) # {} \/ \E c \in Calls : Step(c) /\ pc[c] \in Flagging
        PROVE  Deleters(d)' # {}
    <3>1. ASSUME NEW c \in met[d], Deletes(c) \/ Restores(c) PROVE Deleters(d)' # {}
      <4>1. c \in Calls /\ c \in met'[d]
        BY CallsStay
      <4>2. Deletes(c)' \/ Restores(c)'
        BY <3>1, <4>1, DeedsStay
      <4> QED BY <4>1, <4>2 DEF Deleters
    <3>2. ASSUME NEW c \in Calls, Step(c), pc[c] \in Flagging
          PROVE  c \in met[d] /\ (Deletes(c) \/ Restores(c))
      BY <1>1, <2>2, <3>2, Statements DEF SameLocals, MetInv, Active, Ended, PurposeInv, Purpose
    <3> QED BY <2>2, <3>1, <3>2 DEF Deleters
  <2>3. ASSUME NEW o \in Observations, Holds(d, o)' PROVE observation'[o] # NoRow
    <3>1. Holds(d, o)
      BY <1>1, <2>3 DEF Holds, SameLocals
    <3> QED BY <1>1, <2>1, <3>1, ObservationsStay DEF CopyOf, SameLocals
  <2>4. ASSUME pc[d] = "rewrite"
        PROVE  (LET o == req[d].observation
                IN /\ Holds(d, o) /\ ~copies[d][o].deleted
                   /\ observation[o].deleted => Deleters(d) # {})'
    <3> DEFINE o == req[d].observation
    <3>1. /\ o \in Observations /\ Holds(d, o) /\ ~copies[d][o].deleted
          /\ observation[o] # NoRow
          /\ observation[o].deleted => Deleters(d) # {}
      BY <2>1, <2>4 DEF CopyOf, Request
    <3>2. observation'[o].deleted =>
            observation[o].deleted \/ \E c \in Calls : Step(c) /\ pc[c] \in Flagging
      BY <3>1, ObservationsStay
    <3>3. observation'[o].deleted => Deleters(d)' # {}
      BY <2>2, <2>4, <3>1, <3>2
    <3> QED BY <1>1, <3>1, <3>3 DEF Holds, SameLocals
  <2>5. ASSUME pc[d] = "upsert"
        PROVE  (LET s == req[d].suggestion
                IN /\ suggestion[s] # NoRow /\ kept[d] # NoRow /\ ~kept[d].deleted
                   /\ suggestion[s].deleted => Deleters(d) # {})'
    <3> DEFINE s == req[d].suggestion
    <3>1. /\ s \in Suggestions /\ suggestion[s] # NoRow /\ kept[d] # NoRow /\ ~kept[d].deleted
          /\ suggestion[s].deleted => Deleters(d) # {}
      BY <2>1, <2>5 DEF CopyOf, Request
    <3>2. suggestion'[s].deleted =>
            suggestion[s].deleted \/ \E c \in Calls : Step(c) /\ pc[c] \in Flagging
      BY <3>1, SuggestionDeleted
    <3>3. suggestion'[s].deleted => Deleters(d)' # {}
      BY <2>2, <2>5, <3>1, <3>2
    <3>4. suggestion'[s] # NoRow
      BY <3>1, SuggestionsStay
    <3> QED BY <1>1, <3>1, <3>3, <3>4 DEF SameLocals
  <2> QED BY <1>1, <2>1, <2>3, <2>4, <2>5 DEF CopyOf, SameLocals
<1>2. ASSUME NEW d \in Calls, Arrive(d) PROVE CopyOf(d)'
  <2>1. copies[d] = NoCopies /\ UNCHANGED tables /\ req'[d] \in Request
    BY <1>2, Arrivals DEF CopyInv, CopyOf
  <2>2. CASE /\ pc'[d] = "rewrite" /\ Alive(observation, req'[d].observation)
             /\ copies'[d] = [copies[d] EXCEPT ![req'[d].observation] =
                                                   observation[req'[d].observation]]
    BY <2>1, <2>2 DEF CopyOf, Holds, NoCopies, Alive, tables, Request
  <2>3. CASE /\ pc'[d] = "upsert" /\ Alive(suggestion, req'[d].suggestion)
             /\ kept'[d] = suggestion[req'[d].suggestion]
    BY <2>1, <2>3 DEF CopyOf, Holds, Alive, tables, Request
  <2>4. CASE pc'[d] \notin {"idle", "rewrite", "upsert", "write_observations"}
    BY <2>4 DEF CopyOf, Holds
  <2> QED BY <1>2, <2>2, <2>3, <2>4, Arrivals
<1>3. ASSUME NEW d \in Calls, Step(d) PROVE CopyOf(d)'
  <2>1. CASE ReadObservations(d)
    BY <2>1 DEF ReadObservations, Goto, CopyOf, Holds, tables
  <2>2. CASE pc'[d] \notin {"idle", "rewrite", "upsert", "write_observations"}
    BY <2>2 DEF CopyOf, Holds
  <2> QED BY <1>3, <2>1, <2>2, Order DEF Reporting
<1>4. ASSUME NEW d \in Calls, Crash(d) PROVE CopyOf(d)'
  BY <1>4 DEF Crash, Goto, CopyOf, Holds
<1> QED BY <1>1, <1>2, <1>3, <1>4, Mover DEF CopyInv, vars, locals, SameLocals

(* A row comes back only by a call that restores it, or one that writes    *)
(* back what it read before it was deleted.                                *)
LEMMA ComesBack ==
  ASSUME Base, CopyInv, [Next]_vars, NEW x \in Rows,
         Row(x) # NoRow, Row(x).deleted, ~Row(x)'.deleted
  PROVE  \E c \in Calls :
           /\ pc'[c] # pc[c]
           /\ \/ Restores(c)
              \/ WritesBack(c) /\ \E d \in met[c] : Deletes(d) \/ Restores(d)
<1> DEFINE By(c) == \/ Restores(c)
                    \/ WritesBack(c) /\ \E d \in met[c] : Deletes(d) \/ Restores(d)
<1> USE DEF Base, TypeOK
<1>1. PICK c \in Calls : Step(c)
  BY Arrivals DEF Next, vars, tables, Crash, Row
<1>2. Purpose(c) /\ CopyOf(c)
  BY DEF PurposeInv, CopyInv
<1>3. ASSUME NEW o \in Observations, x = <<o, "observation">> PROVE By(c)
  <2>0. observation[o] # NoRow /\ observation[o].deleted /\ ~observation'[o].deleted
    BY <1>3 DEF Row
  <2>1. CASE pc[c] = "rewrite" /\ o = req[c].observation
    BY <1>2, <2>0, <2>1 DEF CopyOf, Deleters, Purpose, WritesBack
  <2>2. CASE /\ pc[c] = "write_observations" /\ copies[c][o] \in ObservationRow
             /\ observation'[o] = [copies[c][o] EXCEPT !.deleted = Flag(c)]
    <3>1. ~Flag(c)
      BY <2>0, <2>2 DEF ObservationRow
    <3> QED BY <1>2, <2>2, <3>1, ClearingRestores DEF Flagging
  <2> QED BY <1>1, <2>0, <2>1, <2>2, ObservationWritten
<1>4. ASSUME NEW s \in Suggestions, x = <<s, "suggestion">> PROVE By(c)
  <2>0. suggestion[s] # NoRow /\ suggestion[s].deleted /\ ~suggestion'[s].deleted
    BY <1>4 DEF Row
  <2>1. CASE pc[c] = "upsert" /\ s = req[c].suggestion
    BY <1>2, <2>0, <2>1 DEF CopyOf, Deleters, Purpose, WritesBack
  <2>2. CASE /\ pc[c] = "flag_suggestions"
             /\ suggestion'[s] = [suggestion[s] EXCEPT !.deleted = Flag(c)]
    <3>1. ~Flag(c)
      BY <2>0, <2>2 DEF SuggestionTable, SuggestionRow
    <3> QED BY <1>2, <2>2, <3>1, ClearingRestores DEF Flagging
  <2> QED BY <1>1, <2>0, <2>1, <2>2, SuggestionWritten
<1>5. ASSUME NEW r \in Runs, x = <<r, "run">> PROVE By(c)
  <2>0. run[r] # NoRow /\ run[r].deleted /\ ~run'[r].deleted
    BY <1>5 DEF Row
  <2>1. CASE FlagRun(c) /\ run[r] \in RunRow /\ run'[r] = [run[r] EXCEPT !.deleted = Flag(c)]
    <3>1. ~Flag(c) /\ pc[c] = "flag_run"
      BY <2>0, <2>1 DEF RunRow, FlagRun, At
    <3> QED BY <1>2, <3>1, ClearingRestores DEF Flagging
  <2>2. ASSUME run[r] \in RunRow
        PROVE  /\ \A b : [run[r] EXCEPT !.state = b].deleted = run[r].deleted
               /\ \A b : [run[r] EXCEPT !.observation = b].deleted = run[r].deleted
               /\ [run[r] EXCEPT !.deleted = TRUE].deleted
    BY <2>2 DEF RunRow
  <2>3. run'[r] # run[r]
    BY <2>0
  <2>4. run[r] \in RunRow
    BY <1>1, <2>0, <2>3, RunWritten
  <2>5. \/ FlagRun(c) /\ run'[r] = [run[r] EXCEPT !.deleted = Flag(c)]
        \/ run'[r] = [run[r] EXCEPT !.deleted = TRUE]
        \/ run'[r] = [run[r] EXCEPT !.state = req[c].state]
        \/ run'[r] = [run[r] EXCEPT !.observation = held[c].observation]
    BY <1>1, <2>0, <2>3, RunWritten
  <2> QED BY <2>0, <2>1, <2>2, <2>4, <2>5
<1>6. By(c)
  BY <1>3, <1>4, <1>5 DEF Rows
<1> QED BY <1>1, <1>6, Statements

LEMMA CopyInit == Init => CopyInv
BY DEF Init, CopyInv, CopyOf, Holds

(* A deleted row comes back only by an update that restores the run, or by *)
(* the write-back of a row that was read before it was deleted.            *)
THEOREM DeletedStaysDeleted == Spec => DeletionStands
<1>1. Base /\ CopyInv /\ [Next]_vars => (Base /\ CopyInv)'
  BY BaseStep, CopyStep
<1>2. Base /\ CopyInv /\ [Next]_vars =>
        [\A x \in Rows :
           (Row(x) # NoRow /\ Row(x).deleted /\ ~Row(x)'.deleted)
             => \E c \in Calls :
                  /\ pc'[c] # pc[c]
                  /\ \/ Restores(c)
                     \/ WritesBack(c) /\ \E d \in met[c] : Deletes(d) \/ Restores(d)]_vars
  BY ComesBack
<1> QED BY <1>1, <1>2, BaseInit, CopyInit, PTL DEF Spec, DeletionStands

---------------------------------------------------------------------------
(* Edits. *)

(* What stands between an answered edit and the row: a call that it met and *)
(* that writes the row back.  Otherwise the row has the edit, and so has   *)
(* every copy of the row that is still to be written.                      *)
Overwriters(c) == {d \in met[c] : Is(d, "obsupdate") \/ Deletes(d) \/ Restores(d)}
Upserters(c) == {d \in met[c] : Is(d, "sugupdate")}
InObservation(c) ==
  LET o == req[c].observation
  IN /\ observation[o] # NoRow /\ c \in observation[o].edits
     /\ \A e \in Calls : Holds(e, o) => c \in copies[e][o].edits
InSuggestion(c) ==
  LET s == req[c].suggestion
  IN /\ suggestion[s] # NoRow /\ c \in suggestion[s].edits
     /\ \A e \in Calls : (pc[e] = "upsert" /\ req[e].suggestion = s) => c \in kept[e].edits
EditOf(c) ==
  /\ Is(c, "obsupdate") =>
       /\ pc[c] \in {"rewrite"} \cup Ended
       /\ Answered(c) => Overwriters(c) # {} \/ InObservation(c)
  /\ Is(c, "sugupdate") =>
       /\ pc[c] \in {"upsert"} \cup Ended
       /\ Answered(c) => Upserters(c) # {} \/ InSuggestion(c)
EditInv == \A c \in Calls : EditOf(c)

LEMMA OverwritersStay ==
  ASSUME Base, [Next]_vars, NEW c \in Calls
  PROVE  /\ Overwriters(c) # {} => Overwriters(c)' # {}
         /\ Upserters(c) # {} => Upserters(c)' # {}
<1> USE DEF Base, TypeOK
<1>1. ASSUME NEW d \in met[c], Is(d, "obsupdate") \/ Deletes(d) \/ Restores(d)
      PROVE  Overwriters(c)' # {}
  <2>1. d \in Calls /\ d \in met'[c]
    BY CallsStay
  <2>2. (Is(d, "obsupdate") \/ Deletes(d) \/ Restores(d))'
    BY <1>1, <2>1, DeedsStay DEF Kinds
  <2> QED BY <2>1, <2>2 DEF Overwriters
<1>2. ASSUME NEW d \in met[c], Is(d, "sugupdate") PROVE Upserters(c)' # {}
  <2>1. d \in Calls /\ d \in met'[c]
    BY CallsStay
  <2>2. Is(d, "sugupdate")'
    BY <1>2, <2>1, DeedsStay DEF Kinds
  <2> QED BY <2>1, <2>2 DEF Upserters
<1> QED BY <1>1, <1>2 DEF Overwriters, Upserters

(* What a call holds after a step it held before, or has just read.        *)
LEMMA CopiesRead ==
  ASSUME Base, CopyInv, [Next]_vars, NEW e \in Calls
  PROVE  /\ \A o \in Observations : Holds(e, o)' =>
              \/ Holds(e, o) /\ copies'[e][o] = copies[e][o]
              \/ observation' = observation /\ copies'[e][o] = observation[o]
         /\ pc'[e] = "upsert" =>
              \/ pc[e] = "upsert" /\ kept'[e] = kept[e] /\ req'[e] = req[e]
              \/ suggestion' = suggestion /\ kept'[e] = suggestion[req'[e].suggestion]
<1> DEFINE Goal ==
             /\ \A o \in Observations : Holds(e, o)' =>
                  \/ Holds(e, o) /\ copies'[e][o] = copies[e][o]
                  \/ observation' = observation /\ copies'[e][o] = observation[o]
             /\ pc'[e] = "upsert" =>
                  \/ pc[e] = "upsert" /\ kept'[e] = kept[e] /\ req'[e] = req[e]
                  \/ suggestion' = suggestion /\ kept'[e] = suggestion[req'[e].suggestion]
<1> USE DEF Base, TypeOK
<1>1. ASSUME SameLocals(e) PROVE Goal
  BY <1>1 DEF SameLocals, Holds
<1>2. ASSUME Arrive(e) PROVE Goal
  <2>1. copies[e] = NoCopies /\ UNCHANGED tables
    BY <1>2, Arrivals DEF CopyInv, CopyOf
  <2>2. CASE /\ pc'[e] = "rewrite"
             /\ copies'[e] = [copies[e] EXCEPT ![req'[e].observation] =
                                                   observation[req'[e].observation]]
    BY <2>1, <2>2 DEF Holds, NoCopies, tables
  <2>3. CASE pc'[e] = "upsert" /\ kept'[e] = suggestion[req'[e].suggestion]
    BY <2>1, <2>3 DEF Holds, tables
  <2>4. CASE pc'[e] \notin {"rewrite", "upsert", "write_observations"}
    BY <2>4 DEF Holds
  <2> QED BY <1>2, <2>2, <2>3, <2>4, Arrivals
<1>3. ASSUME Step(e) PROVE Goal
  <2>1. CASE ReadObservations(e)
    BY <2>1 DEF ReadObservations, Goto, Holds, tables
  <2>2. CASE pc'[e] \notin {"rewrite", "upsert", "write_observations"}
    BY <2>2 DEF Holds
  <2> QED BY <1>3, <2>1, <2>2, Order DEF Reporting
<1>4. ASSUME Crash(e) PROVE Goal
  BY <1>4 DEF Crash, Goto, Holds
<1> QED BY <1>1, <1>2, <1>3, <1>4, Mover DEF vars, locals, SameLocals

(* An edit that is in a row and in its copies stays there.                 *)
LEMMA EditsStay ==
  ASSUME Base, CopyInv, [Next]_vars, NEW c \in Calls, req'[c] = req[c], req[c] \in Request
  PROVE  /\ InObservation(c) => InObservation(c)'
         /\ InSuggestion(c) => InSuggestion(c)'
<1> USE DEF Base, TypeOK
<1> DEFINE o == req[c].observation
           s == req[c].suggestion
<1>0. o \in Observations /\ s \in Suggestions
  BY DEF Request
<1>1. ASSUME InObservation(c) PROVE InObservation(c)'
  <2>0. observation[o] # NoRow /\ c \in observation[o].edits
    BY <1>1 DEF InObservation
  <2>1. ASSUME NEW e \in Calls, Step(e), observation'[o] # observation[o]
        PROVE  c \in observation'[o].edits
    <3> DEFINE row == copies[e][o]
    <3>1. /\ row \in ObservationRow
          /\ \/ /\ pc[e] = "rewrite" /\ o = req[e].observation /\ observation'[o] = Rewritten(e)
                /\ req[e].reports \in Suggestions \cup {None, Same}
             \/ pc[e] = "write_observations" /\ observation'[o] = [row EXCEPT !.deleted = Flag(e)]
      BY <1>0, <2>0, <2>1, ObservationWritten
    <3>2. c \in row.edits
      BY <1>1, <3>1, NullAssumption DEF InObservation, Holds
    <3>3. Flag(e) \in BOOLEAN
      BY DEF Flag
    <3>4. CASE /\ o = req[e].observation /\ observation'[o] = Rewritten(e)
               /\ req[e].reports \in Suggestions \cup {None, Same}
      BY <3>1, <3>2, <3>4, RowRewritten
    <3> HIDE DEF row
    <3>5. CASE observation'[o] = [row EXCEPT !.deleted = Flag(e)]
      BY <3>1, <3>2, <3>3, <3>5, RowFlagged
    <3> QED BY <3>1, <3>4, <3>5
  <2>2. c \in observation'[o].edits
    <3>1. observation'[o] # observation[o] => \E e \in Calls : Step(e)
      BY Arrivals DEF Next, vars, tables, Crash
    <3> QED BY <2>0, <2>1, <3>1
  <2>3. observation'[o] # NoRow
    BY <1>0, <2>0, ObservationsStay
  <2>4. ASSUME NEW e \in Calls, Holds(e, o)' PROVE c \in copies'[e][o].edits
    BY <1>0, <1>1, <2>0, <2>4, CopiesRead DEF InObservation
  <2>5. req'[c].observation = o
    OBVIOUS
  <2>6. \A e \in Calls : Holds(e, req[c].observation)' => c \in copies'[e][req'[c].observation].edits
    BY <2>4, <2>5
  <2> HIDE DEF o
  <2> QED BY <2>2, <2>3, <2>5, <2>6 DEF InObservation
<1>2. ASSUME InSuggestion(c) PROVE InSuggestion(c)'
  <2>0. suggestion[s] # NoRow /\ c \in suggestion[s].edits
    BY <1>2 DEF InSuggestion
  <2>1. ASSUME NEW e \in Calls, Step(e), suggestion'[s] # suggestion[s]
        PROVE  c \in suggestion'[s].edits
    <3>1. CASE /\ pc[e] = "upsert" /\ s = req[e].suggestion /\ kept[e] \in SuggestionRow
               /\ suggestion'[s] = [kept[e] EXCEPT !.edits = @ \cup {e}]
      <4>1. c \in kept[e].edits
        BY <1>2, <3>1 DEF InSuggestion
      <4> QED BY <3>1, <4>1 DEF SuggestionRow
    <3>2. CASE suggestion'[s] = [suggestion[s] EXCEPT !.deleted = Flag(e)]
      BY <1>0, <2>0, <3>2 DEF SuggestionTable, SuggestionRow
    <3> QED BY <1>0, <2>0, <2>1, <3>1, <3>2, SuggestionWritten
  <2>2. c \in suggestion'[s].edits
    <3>1. suggestion'[s] # suggestion[s] => \E e \in Calls : Step(e)
      BY Arrivals DEF Next, vars, tables, Crash
    <3> QED BY <2>0, <2>1, <3>1
  <2>3. suggestion'[s] # NoRow
    BY <1>0, <2>0, SuggestionsStay
  <2>4. ASSUME NEW e \in Calls, pc'[e] = "upsert", req'[e].suggestion = s
        PROVE  c \in kept'[e].edits
    BY <1>0, <1>2, <2>0, <2>4, CopiesRead DEF InSuggestion
  <2>5. req'[c].suggestion = s
    OBVIOUS
  <2> HIDE DEF s
  <2> QED BY <2>2, <2>3, <2>4, <2>5 DEF InSuggestion
<1> QED BY <1>1, <1>2

LEMMA EditStep ==
  ASSUME Base, CopyInv, EditInv, [Next]_vars
  PROVE  EditInv'
<1> USE DEF Base, TypeOK
<1>1. ASSUME NEW c \in Calls, SameLocals(c) PROVE EditOf(c)'
  <2>1. req[c] # NoRequest => req[c] \in Request
    BY DEF MetInv, ShapeInv, Shape
  <2>2. EditOf(c)
    BY DEF EditInv
  <2>3. CASE Is(c, "obsupdate") \/ Is(c, "sugupdate")
    BY <1>1, <2>1, <2>2, <2>3, OverwritersStay, EditsStay DEF EditOf, SameLocals, Is, Answered
  <2> QED BY <1>1, <2>3 DEF EditOf, SameLocals, Is
<1>2. ASSUME NEW c \in Calls, Arrive(c) PROVE EditOf(c)'
  BY <1>2, Arrivals DEF EditOf, Is, Answered, SuggestionDeletions, ObservationDeletions
<1>3. ASSUME NEW c \in Calls, Crash(c) PROVE EditOf(c)'
  BY <1>3 DEF Crash, Goto, EditOf, Answered, Ended
<1>4. ASSUME NEW c \in Calls, Step(c) PROVE EditOf(c)'
  <2>0. /\ EditOf(c) /\ Active(c) /\ req' = req /\ met' = met /\ req[c] \in Request
        /\ \A e \in Calls \ {c} : SameLocals(e)
    BY <1>4, Statements DEF EditInv, ShapeInv, Shape, Active
  <2>1. ASSUME Is(c, "obsupdate")
        PROVE  pc'[c] = "done" /\ (Overwriters(c)' # {} \/ InObservation(c)')
    <3> DEFINE o == req[c].observation
    <3>0. pc[c] = "rewrite" /\ o \in Observations
      BY <2>0, <2>1 DEF EditOf, Active, Request
    <3>1. Rewrite(c)
      BY <1>4, <3>0 DEF Step, At, ServeSuggestion, ServeObservation, InsertRun, Reread,
         FlagSuggestions, ReadObservations, WriteObservations, FlagRun, FlagRuns,
         FlagExperiment, Write, Examine, Recheck, InsertObservation, NameObservation,
         InsertReported, Upsert, InsertCheckpoint
    <3>2. Holds(c, o) /\ observation[o] # NoRow
      BY <3>0 DEF CopyInv, CopyOf
    <3>3. c \in observation'[o].edits /\ pc'[c] = "done"
      <4>1. copies[c][o] \in ObservationRow /\ observation'[o] = Rewritten(c)
        BY <3>0, <3>1, <3>2 DEF Rewrite, Holds, ObservationTable
      <4>2. req[c].reports \in Suggestions \cup {None, Same}
        BY <2>0 DEF Request
      <4>3. c \in observation'[o].edits
        BY <4>1, <4>2, RowRewritten
      <4>4. pc'[c] = "done"
        BY <3>1 DEF Rewrite, Goto
      <4> QED BY <4>3, <4>4
    <3>4. observation'[o] # NoRow
      BY <3>0, <3>2, ObservationsStay
    <3>5. ASSUME NEW e \in Calls, Holds(e, o)' PROVE Overwriters(c)' # {}
      <4>1. e # c /\ Holds(e, o)
        BY <2>0, <3>3, <3>5 DEF Holds, SameLocals
      <4>2. e \in met[c]
        BY <2>0, <4>1 DEF MetInv, Holds, Active, Ended
      <4>3. Is(e, "obsupdate") \/ Deletes(e) \/ Restores(e)
        BY <4>1 DEF Holds, PurposeInv, Purpose, Flagging
      <4> QED BY <4>2, <4>3, OverwritersStay DEF Overwriters
    <3> QED BY <2>0, <3>3, <3>4, <3>5 DEF InObservation
  <2>2. ASSUME Is(c, "sugupdate")
        PROVE  pc'[c] = "done" /\ (Upserters(c)' # {} \/ InSuggestion(c)')
    <3> DEFINE s == req[c].suggestion
    <3>0. pc[c] = "upsert" /\ s \in Suggestions
      BY <2>0, <2>2 DEF EditOf, Active, Request
    <3>1. Upsert(c)
      BY <1>4, <3>0 DEF Step, At, ServeSuggestion, ServeObservation, InsertRun, Reread,
         FlagSuggestions, ReadObservations, WriteObservations, FlagRun, FlagRuns,
         FlagExperiment, Write, Examine, Recheck, InsertObservation, NameObservation,
         InsertReported, Rewrite, InsertCheckpoint
    <3>2. kept[c] \in SuggestionRow /\ suggestion[s] # NoRow
      BY <3>0 DEF CopyInv, CopyOf
    <3>3. c \in suggestion'[s].edits /\ pc'[c] = "done"
      BY <3>0, <3>1, <3>2 DEF Upsert, Goto, SuggestionTable, SuggestionRow
    <3>4. suggestion'[s] # NoRow
      BY <3>0, <3>2, SuggestionsStay
    <3>5. ASSUME NEW e \in Calls, pc'[e] = "upsert" PROVE Upserters(c)' # {}
      <4>1. e # c /\ pc[e] = "upsert"
        BY <2>0, <3>3, <3>5 DEF SameLocals
      <4>2. e \in met[c]
        BY <2>0, <4>1 DEF MetInv, Active, Ended
      <4>3. Is(e, "sugupdate")
        BY <4>1 DEF PurposeInv, Purpose
      <4> QED BY <4>2, <4>3, OverwritersStay DEF Upserters
    <3> QED BY <2>0, <3>3, <3>4, <3>5 DEF InSuggestion
  <2> QED BY <2>0, <2>1, <2>2 DEF EditOf, Is, Ended
<1> QED BY <1>1, <1>2, <1>3, <1>4, Mover DEF EditInv, vars, locals, SameLocals

(* An answered update of an observation or suggestion is lost only to a    *)
(* call under way with it that writes back the row as it was before.       *)
THEOREM EditsNotLost == Spec => []EditsKept
<1>1. Init => EditInv
  BY DEF Init, EditInv, EditOf, Is
<1>2. Base /\ CopyInv /\ EditInv /\ [Next]_vars => (Base /\ CopyInv /\ EditInv)'
  BY BaseStep, CopyStep, EditStep
<1>3. EditInv => EditsKept
  BY DEF EditInv, EditOf, EditsKept, Overwriters, Upserters, InObservation, InSuggestion
<1> QED BY <1>1, <1>2, <1>3, BaseInit, CopyInit, PTL DEF Spec

---------------------------------------------------------------------------
(* Reporting once. *)

(* What is written down as the author of a row stays.                      *)
LEMMA AuthorsStay ==
  ASSUME Base, [Next]_vars, NEW x \in Rows, Row(x) # NoRow
  PROVE  author'[x] = author[x]
<1> USE DEF Base, TypeOK
<1>1. ASSUME NEW table, NEW kind, NEW c \in Calls, Insert(table, c, kind), x # <<New(table), kind>>
      PROVE  author'[x] = author[x]
  BY <1>1 DEF Insert
<1>2. ASSUME NEW c \in Calls, Step(c) PROVE author'[x] = author[x]
  <2>1. CASE ServeSuggestion(c)
    <3>1. CASE Insert(suggestion, c, "suggestion")
      <4>1. suggestion[New(suggestion)] = NoRow
        BY <3>1, NewIsFree DEF Insert
      <4> QED BY <1>1, <3>1, <4>1 DEF Row, Rows
    <3> QED BY <2>1, <3>1 DEF ServeSuggestion
  <2>2. CASE ServeObservation(c)
    <3>1. CASE Insert(observation, c, "observation")
      <4>1. observation[New(observation)] = NoRow
        BY <3>1, NewIsFree DEF Insert
      <4> QED BY <1>1, <3>1, <4>1 DEF Row, Rows
    <3> QED BY <2>2, <3>1 DEF ServeObservation
  <2>3. CASE InsertRun(c)
    <3>1. Insert(run, c, "run") /\ run[New(run)] = NoRow
      BY <2>3, NewIsFree DEF InsertRun, Insert
    <3> QED BY <1>1, <3>1 DEF Row, Rows
  <2>4. CASE InsertObservation(c)
    <3>1. Insert(observation, c, "observation") /\ observation[New(observation)] = NoRow
      BY <2>4, NewIsFree DEF InsertObservation, Insert
    <3> QED BY <1>1, <3>1 DEF Row, Rows
  <2>5. CASE InsertReported(c)
    <3>1. Insert(observation, c, "observation") /\ observation[New(observation)] = NoRow
      BY <2>5, NewIsFree DEF InsertReported, Insert
    <3> QED BY <1>1, <3>1 DEF Row, Rows
  <2> QED BY <1>2, <2>1, <2>2, <2>3, <2>4, <2>5, Statements
<1> QED BY <1>2, Arrivals DEF Next, vars, history, Crash

(* A run that names its observation keeps naming one.                      *)
LEMMA StaysReported ==
  ASSUME Base, [Next]_vars, NEW r \in Runs, run[r] # NoRow, run[r].observation # None
  PROVE  run'[r].observation # None
<1> USE DEF Base, TypeOK
<1>1. ASSUME NEW c \in Calls, Step(c), run'[r] # run[r] PROVE run'[r].observation # None
  <2>1. run[r] \in RunRow
    BY DEF RunTable
  <2>2. /\ \A b : [run[r] EXCEPT !.deleted = b].observation = run[r].observation
        /\ \A b : [run[r] EXCEPT !.state = b].observation = run[r].observation
        /\ \A b : [run[r] EXCEPT !.observation = b].observation = b
    BY <2>1 DEF RunRow
  <2>3. NameObservation(c) => held[c].observation # None
    BY DEF NameObservation, At, ShapeInv, Shape
  <2>4. \/ run'[r] = [run[r] EXCEPT !.deleted = Flag(c)]
        \/ run'[r] = [run[r] EXCEPT !.deleted = TRUE]
        \/ run'[r] = [run[r] EXCEPT !.state = req[c].state]
        \/ NameObservation(c) /\ run'[r] = [run[r] EXCEPT !.observation = held[c].observation]
    BY <1>1, RunWritten
  <2>5. CASE NameObservation(c) /\ run'[r] = [run[r] EXCEPT !.observation = held[c].observation]
    <3>1. run'[r].observation = held[c].observation
      BY <2>2, <2>5
    <3> QED BY <2>3, <2>5, <3>1
  <2>6. CASE \/ run'[r] = [run[r] EXCEPT !.deleted = Flag(c)]
             \/ run'[r] = [run[r] EXCEPT !.deleted = TRUE]
             \/ run'[r] = [run[r] EXCEPT !.state = req[c].state]
    <3>1. run'[r].observation = run[r].observation
      BY <2>2, <2>6
    <3> QED BY <3>1
  <2> QED BY <2>4, <2>5, <2>6
<1>2. run'[r] # run[r] => \E c \in Calls : Step(c)
  BY Arrivals DEF Next, vars, tables, Crash
<1> QED BY <1>1, <1>2

Reporter(o) == author[<<o, "observation">>]
(* The row reports its suggestion because a client named it.               *)
Named(o, row) ==
  \/ Reporter(o) # None /\ Is(Reporter(o), "obscreate")
  \/ \E c \in row.edits : Is(c, "obsupdate") /\ req[c].reports = row.suggestion
(* The observation as it is, or as a call read it that will write it back. *)
Version(o, row) ==
  \/ observation[o] # NoRow /\ row = observation[o]
  \/ \E c \in Calls : Holds(c, o) /\ row = copies[c][o]
Reports(o, s) ==
  \E row \in ObservationRow : Version(o, row) /\ row.suggestion = s /\ ~Named(o, row)

(* The suggestion that an observation reports, unless a client named it,   *)
(* is that of a run that names an observation, or whose reporter is about  *)
(* to name it, or died.                                                    *)
Backed(o, s) ==
  /\ suggestion[s] # NoRow
  /\ Reporter(o) = None =>
       \A r \in Runs : (run[r] # NoRow /\ run[r].suggestion = s) => run[r].observation # None
  /\ Reporter(o) # None =>
       LET a == Reporter(o)
       IN /\ Is(a, "update") /\ pc[a] \in {"name_observation", "done", "dead"}
          /\ Run(a) # NoRow /\ Run(a).suggestion = s
          /\ pc[a] = "done" => Run(a).observation # None
(* Who reported the one observation has met who reported the other.        *)
Overlapping(o1, o2) ==
  /\ Reporter(o1) # None /\ Reporter(o2) # None
  /\ Met(Reporter(o1), Reporter(o2)) \/ pc[Reporter(o1)] = "dead" \/ pc[Reporter(o2)] = "dead"
(* A call about to report has met who has reported the same suggestion.    *)
MetReporter(c, o) ==
  /\ Reporter(o) # None /\ Reporter(o) # c
  /\ Met(c, Reporter(o)) \/ pc[Reporter(o)] = "dead"
ReportInv ==
  /\ \A o \in Observations, s \in Suggestions : Reports(o, s) =>
       /\ Backed(o, s)
       /\ \A c \in Calls : pc[c] = "insert_run" => held[c].suggestion # s
       /\ \A c \in Calls : (pc[c] \in {"recheck", "insert_observation"} /\ held[c].suggestion = s)
                             => MetReporter(c, o)
  /\ \A c \in Calls : pc[c] \in {"recheck", "insert_observation"} => held[c].suggestion # None
  /\ \A o1, o2 \in Observations, s \in Suggestions :
       (o1 # o2 /\ Reports(o1, s) /\ Reports(o2, s)) => Overlapping(o1, o2)

(* What a client has named stays so while the row is the same.             *)
LEMMA NamedStays ==
  ASSUME Base, [Next]_vars, NEW o \in Observations, observation[o] # NoRow,
         NEW row \in ObservationRow, Named(o, row)
  PROVE  Named(o, row)'
<1> USE DEF Base, TypeOK
<1>1. Reporter(o)' = Reporter(o) /\ Reporter(o) \in Calls \cup {None}
  BY AuthorsStay DEF Row, Rows, Reporter
<1>2. \A c \in Calls : req[c] # NoRequest => req'[c] = req[c]
  BY CallsStay
<1>3. row.edits \subseteq Calls
  BY DEF ObservationRow
<1> QED BY <1>1, <1>2, <1>3 DEF Named, Is

(* What reports a suggestion after a step did so before, or is new.        *)
LEMMA NewReports ==
  ASSUME Base, CopyInv, [Next]_vars, NEW o \in Observations, NEW s \in Suggestions, Reports(o, s)'
  PROVE  \/ Reports(o, s) /\ Reporter(o)' = Reporter(o)
         \/ \E c \in Calls : /\ InsertObservation(c) /\ Step(c) /\ held[c].suggestion = s
                             /\ Reporter(o)' = c /\ o = New(observation)
<1> USE DEF Base, TypeOK
<1>1. PICK row \in ObservationRow : Version(o, row)' /\ row.suggestion = s /\ ~Named(o, row)'
  BY DEF Reports
<1>2. row # NoRow /\ s # None
  BY NullAssumption
<1>3. ASSUME NEW c \in Calls, Holds(c, o)', row = copies'[c][o]
      PROVE  Version(o, row) /\ observation[o] # NoRow
  BY <1>2, <1>3, CopiesRead DEF Version, CopyInv, CopyOf
<1>4. ASSUME observation'[o] # observation[o] PROVE \E c \in Calls : Step(c)
  BY <1>4, Arrivals DEF Next, vars, tables, Crash
<1>5. CASE observation[o] # NoRow
  <2>1. Reporter(o)' = Reporter(o)
    BY <1>5, AuthorsStay DEF Row, Rows, Reporter
  <2>2. ~Named(o, row)
    BY <1>1, <1>5, NamedStays
  <2>3. CASE Version(o, row)
    BY <1>1, <2>1, <2>2, <2>3 DEF Reports
  <2>4. CASE ~Version(o, row)
    <3>1. row = observation'[o] /\ observation'[o] # observation[o]
      BY <1>1, <1>3, <1>5, <2>4 DEF Version
    <3>2. PICK c \in Calls : Step(c)
      BY <1>4, <3>1
    <3>3. req' = req
      BY <3>2, Statements
    <3> DEFINE old == copies[c][o]
    <3>4. CASE /\ pc[c] = "rewrite" /\ o = req[c].observation /\ old \in ObservationRow
               /\ req[c].reports \in Suggestions \cup {None, Same}
               /\ observation'[o] = Rewritten(c)
      <4>1. Version(o, old) /\ Is(c, "obsupdate")
        BY <3>4 DEF Version, CopyInv, CopyOf, PurposeInv, Purpose
      <4>2. /\ row.edits = old.edits \cup {c}
            /\ row.suggestion = IF req[c].reports = Same THEN old.suggestion ELSE req[c].reports
        BY <3>1, <3>4, RowRewritten
      <4>3. req[c].reports = Same
        BY <1>1, <3>3, <4>1, <4>2 DEF Named, Is
      <4>4. old.suggestion = s /\ ~Named(o, old)
        BY <1>1, <2>2, <4>2, <4>3 DEF Named
      <4> HIDE DEF old
      <4> QED BY <2>1, <3>4, <4>1, <4>4 DEF Reports
    <3>5. CASE /\ pc[c] = "write_observations" /\ old \in ObservationRow
               /\ observation'[o] = [old EXCEPT !.deleted = Flag(c)]
      <4>1. Version(o, old)
        BY <3>5, NullAssumption DEF Version, Holds
      <4>2. row.edits = old.edits /\ row.suggestion = old.suggestion
        <5>1. Flag(c) \in BOOLEAN
          BY DEF Flag
        <5> HIDE DEF old
        <5> QED BY <3>1, <3>5, <5>1, RowFlagged
      <4>3. old.suggestion = s /\ ~Named(o, old)
        BY <1>1, <2>2, <4>2 DEF Named
      <4> HIDE DEF old
      <4> QED BY <2>1, <3>5, <4>1, <4>3 DEF Reports
    <3> QED BY <1>5, <3>1, <3>2, <3>4, <3>5, ObservationWritten
  <2> QED BY <2>3, <2>4
<1>6. CASE observation[o] = NoRow
  <2>1. row = observation'[o] /\ observation'[o] # observation[o]
    BY <1>1, <1>2, <1>3, <1>6 DEF Version
  <2>2. PICK c \in Calls : Step(c)
    BY <1>4, <2>1
  <2>3. req' = req /\ c # None
    BY <2>2, Statements, NullAssumption
  <2>4. /\ o = New(observation) /\ author'[<<o, "observation">>] = c
        /\ \/ InsertObservation(c) /\ observation'[o].suggestion = held[c].suggestion
           \/ Is(c, "obscreate")
    BY <1>1, <1>2, <1>6, <2>1, <2>2, ObservationWritten
  <2>5. ~Is(c, "obscreate")
    BY <1>1, <2>3, <2>4 DEF Named, Reporter, Is
  <2> QED BY <1>1, <2>1, <2>2, <2>4, <2>5 DEF Reporter
<1> QED BY <1>5, <1>6

LEMMA BackedStep ==
  ASSUME Base, CopyInv, OwnSuggestion, ReportInv, [Next]_vars,
         NEW o \in Observations, NEW s \in Suggestions, Reports(o, s)'
  PROVE  Backed(o, s)'
<1> USE DEF Base, TypeOK
<1>0. s # None /\ Base' /\ author[<<o, "observation">>] \in Calls \cup {None}
  BY NullAssumption, BaseStep DEF Rows
<1>1. CASE Reports(o, s) /\ Reporter(o)' = Reporter(o)
  <2>0. Backed(o, s)
    BY <1>1 DEF ReportInv
  <2>1. suggestion'[s] # NoRow
    BY <2>0, SuggestionsStay DEF Backed
  <2>2. ASSUME Reporter(o) = None, NEW r \in Runs, run'[r] # NoRow, run'[r].suggestion = s
        PROVE  run'[r].observation # None
    <3>1. CASE run[r] # NoRow
      BY <2>0, <2>2, <3>1, RunsStay, StaysReported DEF Backed
    <3>2. CASE run[r] = NoRow
      BY <1>1, <2>2, <3>2, NewRuns DEF ReportInv
    <3> QED BY <3>1, <3>2
  <2>3. ASSUME NEW a \in Calls, Reporter(o) = a
        PROVE  /\ Is(a, "update")' /\ pc'[a] \in {"name_observation", "done", "dead"}
               /\ Run(a)' # NoRow /\ Run(a)'.suggestion = s
               /\ pc'[a] = "done" => Run(a)'.observation # None
    <3>1. /\ Is(a, "update") /\ pc[a] \in {"name_observation", "done", "dead"}
          /\ Run(a) # NoRow /\ Run(a).suggestion = s
          /\ pc[a] = "done" => Run(a).observation # None
      BY <2>0, <2>3, NullAssumption DEF Backed
    <3>2. /\ req'[a] = req[a] /\ req[a].run \in Runs
          /\ pc[a] \in Ended => pc'[a] = pc[a]
      BY <3>1, CallsStay DEF ShapeInv, Shape, Request, Is
    <3>3. /\ Run(a)' # NoRow /\ Run(a)'.suggestion = s
          /\ Run(a).observation # None => Run(a)'.observation # None
      BY <3>1, <3>2, RunsStay, StaysReported DEF Run
    <3>4. CASE pc[a] = "name_observation"
      <4>1. ASSUME Step(a) PROVE pc'[a] = "done" /\ Run(a)'.observation # None
        <5>1. NameObservation(a)
          BY <3>4, <4>1 DEF Step, At, ServeSuggestion, ServeObservation, InsertRun, Reread,
             FlagSuggestions, ReadObservations, WriteObservations, FlagRun, FlagRuns,
             FlagExperiment, Write, Examine, Recheck, InsertObservation, InsertReported,
             Rewrite, Upsert, InsertCheckpoint
        <5>2. held[a].observation # None /\ run[req[a].run] \in RunRow
          BY <3>1, <3>2, <3>4 DEF ShapeInv, Shape, RunTable, Run
        <5> QED BY <3>2, <5>1, <5>2 DEF NameObservation, Goto, Run, RunTable, RunRow
      <4>2. ASSUME Arrive(a) PROVE FALSE
        BY <3>4, <4>2, Arrivals
      <4>3. Crash(a) => pc'[a] = "dead"
        BY DEF Crash, Goto
      <4>4. SameLocals(a) \/ Arrive(a) \/ Step(a) \/ Crash(a)
        BY Mover DEF vars, locals, SameLocals
      <4> QED BY <3>1, <3>2, <3>3, <3>4, <4>1, <4>2, <4>3, <4>4 DEF Is, SameLocals
    <3> QED BY <3>1, <3>2, <3>3, <3>4 DEF Is, Ended
  <2> QED BY <1>0, <1>1, <2>1, <2>2, <2>3 DEF Backed, Reporter
<1>2. ASSUME NEW c \in Calls, InsertObservation(c), Step(c), held[c].suggestion = s, Reporter(o)' = c
      PROVE  Backed(o, s)'
  <2>1. /\ pc[c] = "insert_observation" /\ pc'[c] = "name_observation" /\ req' = req
        /\ run' = run /\ suggestion' = suggestion /\ c # None
    BY <1>2, NullAssumption DEF InsertObservation, At, Goto
  <2>2. req[c] \in Request /\ req[c].kind = "update" /\ Run(c) # NoRow /\ Run(c).suggestion = s
    BY <1>2, <2>1 DEF ShapeInv, Shape, Reporting, OfRun, Looking
  <2>3. suggestion[s] # NoRow
    BY <1>0, <2>2 DEF OwnSuggestion, Run, Request
  <2> QED BY <1>2, <2>1, <2>2, <2>3, NullAssumption DEF Backed, Is, Run
<1> QED BY <1>1, <1>2, NewReports

(* A run about to be inserted has a suggestion nobody reports.             *)
LEMMA PendingUnreported ==
  ASSUME Base, CopyInv, OwnSuggestion, ReportInv, [Next]_vars,
         NEW o \in Observations, NEW s \in Suggestions, Reports(o, s)',
         NEW c \in Calls, pc'[c] = "insert_run"
  PROVE  held'[c].suggestion # s
<1> USE DEF Base, TypeOK
<1>0. s # None
  BY NullAssumption
<1>1. CASE Reports(o, s)
  <2>1. suggestion[s] # NoRow
    BY <1>1 DEF ReportInv, Backed
  <2>2. SameLocals(c) => held'[c].suggestion # s
    BY <1>1 DEF ReportInv, SameLocals
  <2> QED BY <1>0, <2>1, <2>2, NewPending
<1>2. ASSUME NEW d \in Calls, InsertObservation(d), Step(d), held[d].suggestion = s
      PROVE  held'[c].suggestion # s
  <2>1. /\ pc[d] = "insert_observation" /\ pc'[d] = "name_observation"
    BY <1>2 DEF InsertObservation, At, Goto
  <2>2. SameLocals(c)
    BY <1>2, <2>1, Statements
  <2>3. req[d].run \in Runs /\ Run(d) # NoRow /\ Run(d).suggestion = s
    BY <1>2, <2>1 DEF ShapeInv, Shape, Reporting, OfRun, Looking, Request
  <2> QED BY <1>0, <2>2, <2>3 DEF OwnSuggestion, Run, SameLocals
<1> QED BY <1>1, <1>2, NewReports

(* Who comes to report found the run unreported: whoever has reported its  *)
(* suggestion by then is still to name the observation, or died.           *)
LEMMA MetReporterStep ==
  ASSUME Base, CopyInv, OwnSuggestion, ReportInv, [Next]_vars,
         NEW o \in Observations, NEW s \in Suggestions, Reports(o, s)',
         NEW c \in Calls, pc'[c] \in {"recheck", "insert_observation"}, held'[c].suggestion = s
  PROVE  MetReporter(c, o)'
<1> USE DEF Base, TypeOK
<1>0. s # None /\ author[<<o, "observation">>] \in Calls \cup {None} /\ met[c] \subseteq met'[c]
  BY NullAssumption, CallsStay DEF Rows
<1>1. CASE Reports(o, s) /\ Reporter(o)' = Reporter(o) /\ MetReporter(c, o)
  BY <1>0, <1>1, CallsStay DEF MetReporter, Met, Reporter, Ended
<1>2. CASE SameLocals(c)
  <2>1. CASE Reports(o, s) /\ Reporter(o)' = Reporter(o)
    BY <1>1, <1>2, <2>1 DEF ReportInv, SameLocals
  <2>2. ASSUME NEW d \in Calls, InsertObservation(d), Step(d), Reporter(o)' = d
        PROVE  MetReporter(c, o)'
    <3>1. d # c
      BY <1>2, <2>2, Statements DEF SameLocals
    <3>2. d \in met[c]
      BY <1>2, <2>2, <3>1, Statements DEF SameLocals, MetInv, Active, Ended
    <3> QED BY <1>0, <2>2, <3>1, <3>2, NullAssumption DEF MetReporter, Met
  <2> QED BY <2>1, <2>2, NewReports
<1>3. CASE Step(c) /\ Examine(c)
  <2>1. /\ pc[c] = "examine" /\ pc'[c] = "recheck" /\ observation' = observation
        /\ Reportable(Run(c)) /\ Run(c).suggestion = s /\ author' = author
    BY <1>3 DEF Examine, At, Goto, tables, history
  <2>2. Reports(o, s) /\ Reporter(o)' = Reporter(o) /\ Backed(o, s)
    <3>1. ASSUME NEW d \in Calls, InsertObservation(d), Step(d) PROVE FALSE
      BY <1>3, <2>1, <3>1, Statements DEF SameLocals, InsertObservation, At
    <3> QED BY <3>1, NewReports DEF ReportInv
  <2>3. /\ req[c].run \in Runs /\ Run(c) # NoRow /\ Run(c).observation = None
    BY <2>1 DEF Reportable, ShapeInv, Shape, Request, OfRun, Looking
  <2>4. Reporter(o) # None
    BY <2>1, <2>2, <2>3 DEF Backed, Run
  <2> DEFINE a == Reporter(o)
  <2>5. a \in Calls /\ pc[a] \in {"name_observation", "done", "dead"}
    BY <1>0, <2>2, <2>4 DEF Backed, Reporter
  <2>6. req[a].run = req[c].run
    <3>1. req[a].run \in Runs /\ Run(a) # NoRow /\ Run(a).suggestion = s
      BY <2>2, <2>4, <2>5 DEF Backed, ShapeInv, Shape, Request
    <3> QED BY <1>0, <2>1, <2>3, <3>1 DEF OwnSuggestion, Run
  <2>7. pc[a] # "done"
    BY <2>2, <2>3, <2>4, <2>6 DEF Backed, Run
  <2>8. pc[a] = "name_observation" => a \in met[c]
    BY <2>1, <2>5 DEF MetInv, Active, Ended
  <2>9. a # c
    BY <2>1, <2>5
  <2> QED BY <1>1, <2>2, <2>4, <2>5, <2>7, <2>8, <2>9 DEF MetReporter, Met
<1>4. CASE Step(c) /\ Recheck(c)
  <2>1. /\ pc[c] = "recheck" /\ observation' = observation /\ held' = held /\ author' = author
    BY <1>4 DEF Recheck, At, tables, locals, history
  <2>2. ASSUME NEW d \in Calls, InsertObservation(d), Step(d) PROVE FALSE
    BY <1>4, <2>1, <2>2, Statements DEF SameLocals, InsertObservation, At
  <2>3. Reports(o, s) /\ Reporter(o)' = Reporter(o)
    BY <2>2, NewReports
  <2> QED BY <1>1, <2>1, <2>3 DEF ReportInv
<1>5. CASE Step(c)
  BY <1>3, <1>4, <1>5, Order DEF Reporting
<1>6. ~Arrive(c) /\ ~Crash(c)
  BY Arrivals DEF Crash, Goto
<1> QED BY <1>2, <1>5, <1>6, Mover DEF vars, locals, SameLocals

LEMMA OverlappingStep ==
  ASSUME Base, CopyInv, ReportInv, [Next]_vars,
         NEW o1 \in Observations, NEW o2 \in Observations, o1 # o2,
         NEW s \in Suggestions, Reports(o1, s)', Reports(o2, s)'
  PROVE  Overlapping(o1, o2)'
<1> USE DEF Base, TypeOK
<1> DEFINE Ordered(a1, a2) == /\ a1 # None /\ a2 # None
                              /\ a2 \in met'[a1] \/ pc'[a1] = "dead" \/ pc'[a2] = "dead"
<1> SUFFICES Ordered(Reporter(o1)', Reporter(o2)')
  BY DEF Overlapping, Met
<1>0. \A o \in Observations : Reporter(o) \in Calls \cup {None}
  BY DEF Reporter, Rows
<1>1. CASE Reports(o1, s) /\ Reports(o2, s) /\ Reporter(o1)' = Reporter(o1) /\ Reporter(o2)' = Reporter(o2)
  <2> DEFINE a1 == Reporter(o1)
             a2 == Reporter(o2)
  <2>1. /\ a1 # None /\ a2 # None
        /\ Met(a1, a2) \/ pc[a1] = "dead" \/ pc[a2] = "dead"
    BY <1>1 DEF ReportInv, Overlapping
  <2>2. a1 \in Calls /\ a2 \in Calls
    BY <1>0, <2>1
  <2>3. met[a1] \subseteq met'[a1] /\ (pc[a1] = "dead" => pc'[a1] = "dead")
    BY <2>2, CallsStay DEF Ended
  <2>4. pc[a2] = "dead" => pc'[a2] = "dead"
    BY <2>2, CallsStay DEF Ended
  <2> HIDE DEF a1, a2
  <2>5. Ordered(a1, a2)
    BY <2>1, <2>3, <2>4 DEF Met
  <2> QED BY <1>1, <2>5 DEF a1, a2
<1>2. ASSUME NEW p \in Observations, NEW q \in Observations, NEW c \in Calls,
             Reports(p, s), Reporter(p)' = Reporter(p), Reporter(q)' = c,
             InsertObservation(c), Step(c), held[c].suggestion = s
      PROVE  Ordered(Reporter(p)', Reporter(q)') /\ Ordered(Reporter(q)', Reporter(p)')
  <2> DEFINE a == Reporter(p)
  <2>1. a # None /\ (Met(c, a) \/ pc[a] = "dead") /\ c # None
    BY <1>2, NullAssumption DEF ReportInv, MetReporter, InsertObservation, At
  <2>2. a \in Calls
    BY <1>0, <2>1
  <2>3. met[c] \subseteq met'[c] /\ met[a] \subseteq met'[a] /\ (pc[a] = "dead" => pc'[a] = "dead")
    BY <2>2, CallsStay DEF Ended
  <2>4. Met(c, a) => Met(a, c)
    BY <2>2 DEF MetInv, Met
  <2> HIDE DEF a
  <2>5. Ordered(a, c) /\ Ordered(c, a)
    BY <2>1, <2>3, <2>4 DEF Met
  <2> QED BY <1>2, <2>5 DEF a
<1>3. \A o \in {o1, o2} :
        \/ Reports(o, s) /\ Reporter(o)' = Reporter(o)
        \/ \E c \in Calls : /\ InsertObservation(c) /\ Step(c) /\ held[c].suggestion = s
                            /\ Reporter(o)' = c /\ o = New(observation)
  BY NewReports
<1> QED BY <1>1, <1>2, <1>3

LEMMA ReportOnceStep ==
  ASSUME Base, CopyInv, OwnSuggestion, ReportInv, [Next]_vars
  PROVE  ReportInv'
<1> USE DEF Base, TypeOK
<1>1. ASSUME NEW c \in Calls, pc'[c] \in {"recheck", "insert_observation"}
      PROVE  held'[c].suggestion # None
  <2>1. CASE SameLocals(c)
    BY <1>1, <2>1 DEF ReportInv, SameLocals
  <2>2. CASE Examine(c)
    BY <1>1, <2>2 DEF Examine, Goto, Reportable
  <2>3. CASE Recheck(c)
    BY <2>3 DEF Recheck, At, locals, ReportInv
  <2>4. Step(c) => Examine(c) \/ Recheck(c)
    BY <1>1, Order DEF Reporting
  <2>5. ~Arrive(c) /\ ~Crash(c)
    BY <1>1, Arrivals DEF Crash, Goto
  <2> QED BY <2>1, <2>2, <2>3, <2>4, <2>5, Mover DEF vars, locals, SameLocals
<1> QED BY <1>1, BackedStep, PendingUnreported, MetReporterStep, OverlappingStep DEF ReportInv

LEMMA ReportOnceInit == Init => ReportInv
<1> SUFFICES ASSUME Init PROVE ReportInv
  OBVIOUS
<1>1. PICK t \in InitialStates :
         run = t.run /\ suggestion = t.suggestion /\ observation = t.observation
  BY DEF Init
<1>2. \A o \in Observations : (observation[o] # NoRow /\ observation[o].suggestion # None) =>
        /\ suggestion[observation[o].suggestion] # NoRow
        /\ \A r \in Runs : (run[r] # NoRow /\ run[r].suggestion = observation[o].suggestion)
                             => run[r].observation # None
        /\ \A o2 \in Observations : (o2 # o /\ observation[o2] # NoRow)
                             => observation[o2].suggestion # observation[o].suggestion
  BY <1>1, StartAssumption
<1>3. /\ \A o \in Observations : Reporter(o) = None
      /\ \A c \in Calls : pc[c] = "idle"
  BY DEF Init, Reporter, Rows
<1>4. ASSUME NEW o \in Observations, NEW s \in Suggestions, Reports(o, s)
      PROVE  observation[o] # NoRow /\ observation[o].suggestion = s
  BY <1>3, <1>4 DEF Reports, Version, Holds
<1>5. \A o \in Observations, s \in Suggestions : Reports(o, s) => Backed(o, s)
  BY <1>2, <1>3, <1>4, NullAssumption DEF Backed
<1> QED BY <1>2, <1>3, <1>4, <1>5, NullAssumption DEF ReportInv

LEMMA ReportedByOne ==
  ASSUME Base, ReportInv
  PROVE  ReportedOnce
<1> USE DEF Base, TypeOK
<1> SUFFICES ASSUME NEW o1 \in Observations, NEW o2 \in Observations, o1 # o2,
                    observation[o1] # NoRow, observation[o2] # NoRow,
                    observation[o1].suggestion = observation[o2].suggestion,
                    observation[o1].suggestion # None,
                    ~NamedByClient(o1), ~NamedByClient(o2)
             PROVE  Overlapping(o1, o2)
  BY DEF ReportedOnce, Overlapping, Reporter
<1> DEFINE s == observation[o1].suggestion
<1>1. s \in Suggestions /\ observation[o1] \in ObservationRow /\ observation[o2] \in ObservationRow
  BY DEF ObservationTable, ObservationRow
<1>2. ~Named(o1, observation[o1]) /\ ~Named(o2, observation[o2])
  BY DEF Named, NamedByClient, Reporter
<1>3. Reports(o1, s) /\ Reports(o2, s)
  BY <1>1, <1>2 DEF Reports, Version
<1> QED BY <1>1, <1>3 DEF ReportInv

(* A suggestion is reported twice only where a client names it, in a batch *)
(* or in an update of an observation, and by updates of runs that were     *)
(* under way together, or when one of them died before it named its        *)
(* observation.                                                            *)
THEOREM OneReport == Spec => []ReportedOnce
<1> DEFINE IInv == Base /\ CopyInv /\ OwnSuggestion /\ ReportInv
<1>1. Init => IInv
  BY BaseInit, CopyInit, InitReport, ReportOnceInit
<1>2. IInv /\ [Next]_vars => IInv'
  BY BaseStep, CopyStep, OwnStep, ReportOnceStep DEF Base
<1>3. IInv => ReportedOnce
  BY ReportedByOne
<1> QED BY <1>1, <1>2, <1>3, PTL DEF Spec

---------------------------------------------------------------------------
(* The deletion of an experiment with its runs. *)

Creating == {"serve_suggestion", "serve_observation", "insert_run"}
Sweeping == {"flag_runs", "flag_suggestions", "read_observations", "write_observations",
             "flag_experiment"}

(* Where the deletion stands and what it will flag; the calls that create  *)
(* rows come before its last statement, or after the experiment was made   *)
(* active again.                                                           *)
Creates(d) == Is(d, "create") \/ Is(d, "obscreate")
Course(c) ==
  /\ pc[c] \in Creating => Is(c, "create")
  /\ FlagsAll(c) =>
       /\ pc[c] \in Sweeping \cup {"done", "dead"}
       /\ pc[c] \in {"flag_runs", "flag_suggestions"} => marked[c] = Suggestions
       /\ (Answered(c) /\ ~Reopened) =>
            gone /\ \A d \in Calls : (Creates(d) /\ Active(d)) => Met(c, d)
CourseInv == \A c \in Calls : Course(c)

(* The statements of the deletion.                                         *)
LEMMA SweepMoves ==
  ASSUME TypeOK, NEW c \in Calls, Course(c), FlagsAll(c), Step(c)
  PROVE  \/ FlagRuns(c) /\ pc'[c] = "flag_suggestions" /\ marked' = marked
         \/ FlagSuggestions(c) /\ pc'[c] = "read_observations"
         \/ ReadObservations(c) /\ pc'[c] = "write_observations"
         \/ WriteObservations(c) /\ pc'[c] = "flag_experiment"
         \/ FlagExperiment(c) /\ pc'[c] = "done"
<1> USE DEF TypeOK, Goto
<1>1. pc[c] \in Sweeping /\ req[c].kind = "deleteexp"
  BY Statements DEF Course, Active, Ended, FlagsAll, Is
<1>2. \/ FlagRuns(c) \/ FlagSuggestions(c) \/ ReadObservations(c)
      \/ WriteObservations(c) \/ FlagExperiment(c)
  BY <1>1 DEF Step, Sweeping, At, ServeSuggestion, ServeObservation, InsertRun, Reread,
     FlagRun, Write, Examine, Recheck, InsertObservation, NameObservation, InsertReported,
     Rewrite, Upsert, InsertCheckpoint
<1>3. CASE FlagRuns(c)
  BY <1>3 DEF FlagRuns, locals
<1>4. CASE FlagSuggestions(c)
  BY <1>1, <1>4 DEF FlagSuggestions
<1>5. CASE ReadObservations(c)
  BY <1>5 DEF ReadObservations
<1>6. CASE WriteObservations(c)
  BY <1>1, <1>6 DEF WriteObservations
<1>7. CASE FlagExperiment(c)
  BY <1>7 DEF FlagExperiment
<1> QED BY <1>2, <1>3, <1>4, <1>5, <1>6, <1>7

LEMMA CourseStep ==
  ASSUME Base, CourseInv, [Next]_vars
  PROVE  CourseInv'
<1> USE DEF Base, TypeOK
<1> SUFFICES ASSUME NEW c \in Calls PROVE Course(c)'
  BY DEF CourseInv
<1>0. Course(c)
  BY DEF CourseInv
<1>1. ASSUME pc'[c] \in Creating PROVE Is(c, "create")'
  <2>1. CASE SameLocals(c)
    BY <1>0, <1>1, <2>1 DEF Course, SameLocals, Is
  <2>2. CASE Arrive(c)
    <3>1. req'[c].kind = "create" /\ req'[c] \in Request
      BY <1>1, <2>2, Arrivals DEF Creating
    <3> QED BY <3>1, NullAssumption DEF Is
  <2>3. CASE Step(c)
    <3>1. pc[c] \in Creating /\ req'[c] = req[c]
      BY <1>1, <2>3, Order, Statements DEF Creating, Reporting
    <3> QED BY <1>0, <3>1 DEF Course, Is
  <2>4. CASE Crash(c)
    BY <1>1, <2>4 DEF Crash, Goto, Creating
  <2> QED BY <2>1, <2>2, <2>3, <2>4, Mover DEF vars, locals, SameLocals
<1>2. ASSUME FlagsAll(c)'
      PROVE  /\ pc'[c] \in Sweeping \cup {"done", "dead"}
             /\ pc'[c] \in {"flag_runs", "flag_suggestions"} => marked'[c] = Suggestions
             /\ (Answered(c)' /\ ~Answered(c)) => FlagExperiment(c)
  <2>1. CASE SameLocals(c)
    BY <1>0, <1>2, <2>1 DEF Course, SameLocals, FlagsAll, Is, Answered
  <2>2. CASE Arrive(c)
    BY <1>2, <2>2, Arrivals DEF Sweeping, FlagsAll, Is, Answered, SuggestionDeletions,
       ObservationDeletions
  <2>3. CASE Step(c)
    <3>1. FlagsAll(c)
      BY <1>2, <2>3, Statements DEF FlagsAll, Is
    <3>2. FlagRuns(c) => marked[c] = Suggestions
      BY <1>0, <3>1 DEF FlagRuns, At, Course
    <3> QED BY <1>0, <2>3, <3>1, <3>2, SweepMoves DEF Sweeping, Answered
  <2>4. CASE Crash(c)
    BY <1>2, <2>4 DEF Crash, Goto, Answered
  <2> QED BY <2>1, <2>2, <2>3, <2>4, Mover DEF vars, locals, SameLocals
<1>3. ASSUME FlagsAll(c)', Answered(c)', ~Reopened'
      PROVE  gone' /\ \A d \in Calls : (Creates(d)' /\ Active(d)') => Met(c, d)'
  <2>0. ~Reopened /\ \A d \in Calls : FlagExperiment(d) => gone'
    <3>1. ~Reopened
      BY <1>3, DeedsStay DEF Reopened, Kinds
    <3>2. ASSUME NEW d \in Calls, FlagExperiment(d) PROVE gone'
      <4>1. req[d].kind \in {"deleteexp", "restoreexp"} /\ pc[d] # "idle"
        BY <3>2 DEF FlagExperiment, At, ShapeInv, Shape
      <4>2. req[d] \in Request
        BY <4>1 DEF ShapeInv, Shape
      <4>3. req[d].kind # "restoreexp"
        BY <3>1, <4>2, NullAssumption DEF Reopened, Is
      <4> QED BY <3>2, <4>1, <4>3 DEF FlagExperiment
    <3> QED BY <3>1, <3>2
  <2>1. CASE Answered(c)
    <3>1. FlagsAll(c)
      BY <1>3, <2>1, CallsStay DEF FlagsAll, Is, Answered
    <3>2. gone /\ gone'
      <4>1. gone
        BY <1>0, <2>0, <2>1, <3>1 DEF Course
      <4>2. gone' = gone \/ \E d \in Calls : FlagExperiment(d)
        BY Arrivals, Statements DEF Next, vars, tables, Crash
      <4> QED BY <2>0, <4>1, <4>2
    <3>3. ASSUME NEW d \in Calls, Creates(d)', Active(d)' PROVE Met(c, d)'
      <4>1. ~Arrive(d)
        BY <3>2, <3>3, Arrivals DEF Creates, Is, SuggestionDeletions, ObservationDeletions
      <4>2. pc[d] # "idle" => Creates(d) /\ Active(d)
        BY <3>3, CallsStay DEF Creates, Is, Active
      <4>3. pc[d] # "idle"
        <5>1. pc[d] = "idle" => ~Step(d) /\ ~Crash(d)
          BY Statements DEF Active, Crash
        <5>2. SameLocals(d) => pc[d] # "idle"
          BY <3>3 DEF SameLocals, Active
        <5> QED BY <4>1, <5>1, <5>2, Mover DEF vars, locals, SameLocals
      <4> QED BY <1>0, <2>0, <2>1, <3>1, <4>2, <4>3, CallsStay DEF Course, Met
    <3> QED BY <3>2, <3>3
  <2>2. CASE ~Answered(c)
    <3>1. FlagExperiment(c)
      BY <1>2, <1>3, <2>2
    <3>2. gone' /\ met' = met /\ Active(c) /\ req' = req
      BY <2>0, <3>1 DEF FlagExperiment, history, locals, Active, Ended, At
    <3>3. ASSUME NEW d \in Calls, Creates(d)', Active(d)' PROVE Met(c, d)'
      <4>1. d # c /\ Active(d)
        BY <1>3, <3>1, <3>2, <3>3 DEF FlagExperiment, Goto, FlagsAll, Creates, Is, Active
      <4> QED BY <3>2, <4>1 DEF MetInv, Met
    <3> QED BY <3>2, <3>3
  <2> QED BY <2>1, <2>2
<1> QED BY <1>1, <1>2, <1>3 DEF Course

(* A row in use, and the calls that made it; the deletion that met one of  *)
(* them may have missed the row, and so it may have one that came later.   *)
InUse(x) == Row(x) # NoRow /\ ~Row(x).deleted
MetMaker(c, x) == (\E a \in Origins(x) : Met(c, a)) \/ (Reopened /\ author[x] # None)
Pardoned(c) == \E d \in Calls : Restores(d) \/ (WritesBack(d) /\ Met(c, d))

(* The run of an update is there as long as the update is known of.        *)
LEMMA UpdatedRuns ==
  ASSUME Base, NEW a \in Calls, Is(a, "update")
  PROVE  req[a].run \in Runs /\ Run(a) # NoRow
BY DEF Base, MetInv, ShapeInv, Shape, Is, Request, PurposeInv, Purpose

(* What made a row stays what made it.                                     *)
LEMMA MakersStay ==
  ASSUME Base, OwnSuggestion, [Next]_vars, NEW c \in Calls, NEW x \in Rows,
         Row(x) # NoRow, MetMaker(c, x)
  PROVE  MetMaker(c, x)'
<1> USE DEF Base, TypeOK
<1>1. author'[x] = author[x] /\ met[c] \subseteq met'[c]
  BY AuthorsStay, CallsStay
<1>2. Reopened => Reopened'
  BY DeedsStay DEF Reopened, Kinds
<1>3. ASSUME NEW s \in ReportedBy(x)
      PROVE  s \in ReportedBy(x)' /\ author'[<<s, "suggestion">>] = author[<<s, "suggestion">>]
  <2>1. PICK a \in Calls : /\ author[x] = a /\ Is(a, "update") /\ Run(a).suggestion = s
                          /\ x[2] = "observation"
    BY <1>3 DEF ReportedBy
  <2>2. s \in Suggestions /\ s # None
    BY <1>3, NullAssumption DEF ReportedBy
  <2>3. req[a].run \in Runs /\ Run(a) # NoRow
    BY <2>1, UpdatedRuns
  <2>4. run'[req[a].run].suggestion = s /\ Is(a, "update")' /\ req'[a] = req[a]
    BY <2>1, <2>3, RunsStay, CallsStay, DeedsStay DEF Run, Is, Kinds
  <2>5. suggestion[s] # NoRow
    BY <2>1, <2>2, <2>3 DEF OwnSuggestion, Run
  <2>6. author'[<<s, "suggestion">>] = author[<<s, "suggestion">>]
    BY <2>2, <2>5, AuthorsStay DEF Row, Rows
  <2> QED BY <1>1, <2>1, <2>2, <2>4, <2>6 DEF ReportedBy, Run
<1>4. ASSUME NEW a \in Origins(x), Met(c, a) PROVE MetMaker(c, x)'
  <2>1. a \in Origins(x)'
    BY <1>1, <1>3, <1>4 DEF Origins
  <2> QED BY <1>1, <1>4, <2>1 DEF MetMaker, Met
<1> QED BY <1>1, <1>2, <1>4 DEF MetMaker

LEMMA PardonsStay ==
  ASSUME Base, [Next]_vars, NEW c \in Calls, Pardoned(c)
  PROVE  Pardoned(c)'
<1>1. PICK d \in Calls : Restores(d) \/ (WritesBack(d) /\ Met(c, d))
  BY DEF Pardoned
<1>2. Restores(d)' \/ (WritesBack(d)' /\ Met(c, d)')
  BY <1>1, DeedsStay, CallsStay DEF Base, Met
<1> QED BY <1>2 DEF Pardoned

(* How a row comes into use.                                               *)
WroteBack(d, x) ==
  /\ WritesBack(d)
  /\ \/ pc[d] = "rewrite" /\ x = <<req[d].observation, "observation">>
     \/ pc[d] = "upsert" /\ x = <<req[d].suggestion, "suggestion">>
LEMMA ComesIntoUse ==
  ASSUME Base, CopyInv, CourseInv, [Next]_vars, NEW x \in Rows, InUse(x)', ~InUse(x)
  PROVE  \E d \in Calls :
           /\ Step(d)
           /\ \/ Creates(d) /\ author'[x] = d
              \/ InsertObservation(d) /\ author'[x] = d /\ x[2] = "observation"
              \/ Restores(d)
              \/ WroteBack(d, x) /\ Row(x) # NoRow
<1> USE DEF Base, TypeOK
<1>1. PICK d \in Calls : Step(d)
  <2>1. UNCHANGED <<run, suggestion, observation>> => (InUse(x)' <=> InUse(x))
    BY DEF InUse, Row
  <2> QED BY <2>1, Arrivals DEF Next, vars, tables, Crash
<1> DEFINE By == \/ Creates(d) /\ author'[x] = d
                 \/ InsertObservation(d) /\ author'[x] = d /\ x[2] = "observation"
                 \/ Restores(d)
                 \/ WroteBack(d, x) /\ Row(x) # NoRow
<1>2. Purpose(d) /\ Course(d)
  BY DEF PurposeInv, CourseInv
<1>3. ASSUME NEW o \in Observations, x = <<o, "observation">> PROVE By
  <2>1. observation'[o] # NoRow /\ ~observation'[o].deleted /\ observation'[o] # observation[o]
        /\ (observation[o] # NoRow => observation[o].deleted)
    BY <1>3 DEF InUse, Row
  <2>2. CASE ServeObservation(d) /\ author'[<<o, "observation">>] = d
    BY <1>2, <1>3, <2>2 DEF ServeObservation, At, Course, Creating, Creates
  <2>3. CASE /\ InsertObservation(d) \/ Is(d, "obscreate")
             /\ author'[<<o, "observation">>] = d
    BY <1>3, <2>3 DEF Creates
  <2>4. CASE pc[d] = "rewrite" /\ o = req[d].observation /\ observation[o] # NoRow
    BY <1>2, <1>3, <2>4 DEF Row, WroteBack, WritesBack, Purpose
  <2>5. CASE /\ pc[d] = "write_observations" /\ copies[d][o] \in ObservationRow
             /\ observation'[o] = [copies[d][o] EXCEPT !.deleted = Flag(d)]
    <3>1. ~Flag(d)
      BY <2>1, <2>5 DEF ObservationRow
    <3> QED BY <1>2, <2>5, <3>1, ClearingRestores DEF Flagging
  <2> QED BY <1>1, <2>1, <2>2, <2>3, <2>4, <2>5, ObservationWritten
<1>4. ASSUME NEW s \in Suggestions, x = <<s, "suggestion">> PROVE By
  <2>1. suggestion'[s] # NoRow /\ ~suggestion'[s].deleted /\ suggestion'[s] # suggestion[s]
        /\ (suggestion[s] # NoRow => suggestion[s].deleted)
    BY <1>4 DEF InUse, Row
  <2>2. CASE ServeSuggestion(d) /\ author'[<<s, "suggestion">>] = d
    BY <1>2, <1>4, <2>2 DEF ServeSuggestion, At, Course, Creating, Creates
  <2>3. CASE pc[d] = "upsert" /\ s = req[d].suggestion
    <3>1. suggestion[s] # NoRow
      BY <2>3 DEF CopyInv, CopyOf
    <3> QED BY <1>2, <1>4, <2>3, <3>1 DEF Row, WroteBack, WritesBack, Purpose
  <2>4. CASE /\ pc[d] = "flag_suggestions" /\ suggestion[s] # NoRow
             /\ suggestion'[s] = [suggestion[s] EXCEPT !.deleted = Flag(d)]
    <3>1. ~Flag(d)
      BY <2>1, <2>4 DEF SuggestionTable, SuggestionRow
    <3> QED BY <1>2, <2>4, <3>1, ClearingRestores DEF Flagging
  <2>5. \/ ServeSuggestion(d) /\ author'[<<s, "suggestion">>] = d
        \/ pc[d] = "upsert" /\ s = req[d].suggestion
        \/ /\ pc[d] = "flag_suggestions" /\ suggestion[s] # NoRow
           /\ suggestion'[s] = [suggestion[s] EXCEPT !.deleted = Flag(d)]
    <3> HIDE DEF Base, TypeOK
    <3> QED BY <1>1, <2>1, SuggestionWritten
  <2> QED BY <2>2, <2>3, <2>4, <2>5
<1>5. ASSUME NEW r \in Runs, x = <<r, "run">> PROVE By
  <2>1. run'[r] # NoRow /\ ~run'[r].deleted /\ run'[r] # run[r]
        /\ (run[r] # NoRow => run[r].deleted)
    BY <1>5 DEF InUse, Row
  <2>2. CASE InsertRun(d) /\ author'[<<r, "run">>] = d
    BY <1>2, <1>5, <2>2 DEF InsertRun, At, Course, Creating, Creates
  <2>3. CASE run[r] \in RunRow
    <3>1. /\ \A b : [run[r] EXCEPT !.state = b].deleted = run[r].deleted
          /\ \A b : [run[r] EXCEPT !.observation = b].deleted = run[r].deleted
          /\ \A b : [run[r] EXCEPT !.deleted = b].deleted = b
          /\ run[r].deleted
      BY <2>1, <2>3, NullAssumption DEF RunRow
    <3>2. \/ FlagRun(d) /\ run'[r] = [run[r] EXCEPT !.deleted = Flag(d)]
          \/ run'[r] = [run[r] EXCEPT !.deleted = TRUE]
          \/ run'[r] = [run[r] EXCEPT !.state = req[d].state]
          \/ run'[r] = [run[r] EXCEPT !.observation = held[d].observation]
      BY <1>1, <2>1, <2>3, NullAssumption, RunWritten
    <3>3. FlagRun(d) /\ ~Flag(d)
      <4>1. ~run'[r].deleted
        BY <2>1
      <4>2. run'[r] # [run[r] EXCEPT !.deleted = TRUE]
        BY <3>1, <4>1
      <4>3. run'[r] # [run[r] EXCEPT !.state = req[d].state]
        BY <3>1, <4>1
      <4>4. run'[r] # [run[r] EXCEPT !.observation = held[d].observation]
        BY <3>1, <4>1
      <4>5. FlagRun(d) /\ run'[r] = [run[r] EXCEPT !.deleted = Flag(d)]
        BY <3>2, <4>2, <4>3, <4>4
      <4> QED BY <3>1, <4>1, <4>5
    <3> QED BY <1>2, <3>3, ClearingRestores DEF Flagging, FlagRun, At
  <2> QED BY <1>1, <2>1, <2>2, <2>3, RunWritten
<1> QED BY <1>1, <1>3, <1>4, <1>5 DEF Rows

(* What the deletion has been past is in use only if it has met a maker of *)
(* it; so it is with what others are about to bring into use.              *)
Past(c, x) ==
  pc[c] \in {"flag_experiment", "done"}
            \cup (IF x[2] = "observation" THEN {} ELSE {"read_observations", "write_observations"})
            \cup (IF x[2] = "run" THEN {"flag_suggestions"} ELSE {})
Brings(c, d) ==
  /\ pc[d] = "insert_observation" => Met(c, d) \/ MetMaker(c, <<held[d].suggestion, "suggestion">>)
  /\ pc[d] = "rewrite" => MetMaker(c, <<req[d].observation, "observation">>)
  /\ pc[d] = "upsert" => MetMaker(c, <<req[d].suggestion, "suggestion">>)
Copied(c, x) == x[2] = "observation" /\ copies[c][x[1]] # NoRow
Sweep(c) ==
  /\ \A x \in Rows : (InUse(x) /\ Past(c, x)) => MetMaker(c, x)
  /\ pc[c] = "write_observations" =>
       \A x \in Rows : InUse(x) => Copied(c, x) \/ MetMaker(c, x)
  /\ Answered(c) => \A d \in Calls : Brings(c, d)
SweepInv == \A c \in Calls : (FlagsAll(c) /\ ~Pardoned(c)) => Sweep(c)

(* What comes into use behind the deletion was made by a call it has met.  *)
LEMMA ComesBehind ==
  ASSUME Base, CopyInv, OwnSuggestion, ReportInv, CourseInv, [Next]_vars,
         NEW c \in Calls, FlagsAll(c), Sweep(c), ~Pardoned(c)', pc[c] # "dead",
         NEW x \in Rows, InUse(x)', ~InUse(x)
  PROVE  MetMaker(c, x)'
<1> USE DEF Base, TypeOK
<1>1. PICK d \in Calls :
        /\ Step(d)
        /\ \/ Creates(d) /\ author'[x] = d
           \/ InsertObservation(d) /\ author'[x] = d /\ x[2] = "observation"
           \/ Restores(d)
           \/ WroteBack(d, x) /\ Row(x) # NoRow
  BY ComesIntoUse
<1>2. Active(d) /\ (Active(c) \/ Answered(c)) /\ Course(c)
  BY <1>1, Statements DEF CourseInv, Course, Sweeping, Active, Answered, Ended
<1>3. (Met(c, d) /\ author'[x] = d) => MetMaker(c, x)'
  BY CallsStay DEF Met, MetMaker, Origins
<1>4. (Active(c) /\ c # d) => Met(c, d)
  BY <1>2 DEF MetInv, Met
<1>0. (Reopened /\ author'[x] = d) => MetMaker(c, x)'
  BY DeedsStay, NullAssumption DEF Reopened, Kinds, MetMaker
<1>5. CASE Creates(d) /\ author'[x] = d
  <2>1. c # d
    BY <1>5 DEF Creates, Is, FlagsAll
  <2> QED BY <1>0, <1>2, <1>3, <1>4, <1>5, <2>1 DEF Course
<1>6. CASE InsertObservation(d) /\ author'[x] = d /\ x[2] = "observation"
  <2>1. pc[d] = "insert_observation"
    BY <1>6 DEF InsertObservation, At
  <2>2. c # d
    BY <1>2, <2>1 DEF Course, Sweeping
  <2>3. CASE Met(c, d)
    BY <1>3, <1>6, <2>3
  <2>4. CASE ~Met(c, d)
    <3> DEFINE s == held[d].suggestion
    <3>1. MetMaker(c, <<s, "suggestion">>)
      BY <1>2, <1>4, <2>1, <2>2, <2>4 DEF Sweep, Brings
    <3>2. /\ s # None /\ s = Run(d).suggestion /\ Run(d) # NoRow /\ req[d].run \in Runs
          /\ req[d] \in Request /\ req[d].kind = "update"
      BY <2>1 DEF ReportInv, ShapeInv, Shape, Reporting, OfRun, Looking, Request
    <3>3. s \in Suggestions /\ suggestion[s] # NoRow
      BY <3>2 DEF OwnSuggestion, Run, RunTable, RunRow
    <3>4. Is(d, "update")' /\ Run(d)'.suggestion = s
      BY <2>1, <3>2, NullAssumption, RunsStay, CallsStay DEF Is, Run
    <3> HIDE DEF s
    <3>5. s \in ReportedBy(x)'
      BY <1>6, <3>3, <3>4 DEF ReportedBy
    <3>6. author'[<<s, "suggestion">>] = author[<<s, "suggestion">>]
      BY <3>3, AuthorsStay DEF Row, Rows
    <3>7. ReportedBy(<<s, "suggestion">>) = {}
      BY DEF ReportedBy
    <3>8. ASSUME NEW a, a = author[<<s, "suggestion">>], Met(c, a) PROVE MetMaker(c, x)'
      <4>1. Met(c, a)'
        BY <3>8, CallsStay DEF Met
      <4>2. a \in Origins(x)'
        BY <3>5, <3>6, <3>8 DEF Origins
      <4> QED BY <4>1, <4>2 DEF MetMaker
    <3> QED BY <1>0, <1>6, <3>1, <3>7, <3>8 DEF MetMaker, Origins
  <2> QED BY <2>3, <2>4
<1>7. CASE Restores(d)
  BY <1>7, DeedsStay DEF Pardoned
<1>8. CASE WroteBack(d, x) /\ Row(x) # NoRow
  <2>1. ~Met(c, d)
    BY <1>8, PardonsStay DEF WroteBack, Pardoned
  <2>2. c # d
    BY <1>8 DEF WroteBack, WritesBack, FlagsAll, Is
  <2>3. Answered(c)
    BY <1>2, <1>4, <2>1, <2>2
  <2>4. MetMaker(c, x)
    BY <1>8, <2>3 DEF Sweep, Brings, WroteBack
  <2> QED BY <1>8, <2>4, MakersStay
<1> QED BY <1>1, <1>5, <1>6, <1>7, <1>8

(* What others are about to bring into use once the deletion is answered.  *)
LEMMA BringsStep ==
  ASSUME Base, CopyInv, OwnSuggestion, ReportInv, CourseInv, [Next]_vars,
         NEW c \in Calls, FlagsAll(c), Sweep(c), ~Pardoned(c), Answered(c)',
         NEW d \in Calls
  PROVE  Brings(c, d)'
<1> USE DEF Base, TypeOK
<1>1. CASE Answered(c)
  <2>1. Brings(c, d)
    BY <1>1 DEF Sweep
  <2>2. ASSUME NEW x \in Rows, Row(x) # NoRow, InUse(x) \/ MetMaker(c, x) PROVE MetMaker(c, x)'
    BY <1>1, <2>2, MakersStay DEF Sweep, Past, Answered
  <2>3. ASSUME pc'[d] = "insert_observation"
        PROVE  (Met(c, d) \/ MetMaker(c, <<held[d].suggestion, "suggestion">>))'
    <3>1. (SameLocals(d) /\ pc[d] = "insert_observation") \/ Recheck(d)
      <4>1. ~Arrive(d)
        BY <2>3, Arrivals DEF SuggestionDeletions, ObservationDeletions
      <4>2. ~Crash(d)
        BY <2>3 DEF Crash, Goto
      <4>3. Step(d) => Recheck(d)
        BY <2>3, Order
      <4> QED BY <2>3, <4>1, <4>2, <4>3, OwnMove DEF SameLocals
    <3>2. held'[d] = held[d] /\ pc[d] \in {"recheck", "insert_observation"}
      BY <3>1 DEF SameLocals, Recheck, At, locals
    <3>3. /\ held[d].suggestion # None /\ held[d].suggestion = Run(d).suggestion
          /\ Run(d) # NoRow /\ req[d].run \in Runs
      BY <3>2 DEF ReportInv, ShapeInv, Shape, Reporting, OfRun, Looking, Request
    <3>4. PICK s \in Suggestions : s = held[d].suggestion /\ suggestion[s] # NoRow
      BY <3>3 DEF OwnSuggestion, Run, RunTable, RunRow
    <3>5. Recheck(d) => InUse(<<s, "suggestion">>)
      BY <2>3, <3>4 DEF Recheck, Goto, Alive, InUse, Row
    <3>6. CASE Met(c, d)
      BY <3>6, CallsStay DEF Met
    <3>7. CASE InUse(<<s, "suggestion">>) \/ MetMaker(c, <<s, "suggestion">>)
      <4>1. <<s, "suggestion">> \in Rows /\ Row(<<s, "suggestion">>) # NoRow
        BY <3>4 DEF Row, Rows
      <4>2. MetMaker(c, <<s, "suggestion">>)'
        BY <2>2, <3>7, <4>1
      <4> QED BY <3>2, <3>4, <4>2
    <3> QED BY <2>1, <3>1, <3>4, <3>5, <3>6, <3>7 DEF Brings
  <2>4. ASSUME pc'[d] = "rewrite"
        PROVE  MetMaker(c, <<req[d].observation, "observation">>)'
    <3>0. Arrive(d) => Alive(observation, req'[d].observation)
      BY <2>4, Arrivals DEF SuggestionDeletions, ObservationDeletions
    <3>1. \/ SameLocals(d) /\ pc[d] = "rewrite"
          \/ Arrive(d) /\ Alive(observation, req'[d].observation)
      BY <2>4, <3>0, WritersArrive DEF SameLocals
    <3>2. PICK o \in Observations : o = req'[d].observation
      BY <3>1, Arrivals DEF SameLocals, ShapeInv, Shape, Request
    <3>3. observation[o] # NoRow
      BY <3>1, <3>2 DEF SameLocals, CopyInv, CopyOf, Alive, Holds
    <3>4. InUse(<<o, "observation">>) \/ MetMaker(c, <<o, "observation">>)
      BY <2>1, <3>1, <3>2 DEF SameLocals, Brings, Alive, InUse, Row
    <3>5. <<o, "observation">> \in Rows /\ Row(<<o, "observation">>) # NoRow
      BY <3>3 DEF Row, Rows
    <3>6. MetMaker(c, <<o, "observation">>)'
      BY <2>2, <3>4, <3>5
    <3> QED BY <3>2, <3>6
  <2>5. ASSUME pc'[d] = "upsert"
        PROVE  MetMaker(c, <<req[d].suggestion, "suggestion">>)'
    <3>0. Arrive(d) => Alive(suggestion, req'[d].suggestion)
      BY <2>5, Arrivals DEF SuggestionDeletions, ObservationDeletions
    <3>1. \/ SameLocals(d) /\ pc[d] = "upsert"
          \/ Arrive(d) /\ Alive(suggestion, req'[d].suggestion)
      BY <2>5, <3>0, WritersArrive DEF SameLocals
    <3>2. PICK s \in Suggestions : s = req'[d].suggestion
      BY <3>1, Arrivals DEF SameLocals, ShapeInv, Shape, Request
    <3>3. suggestion[s] # NoRow
      BY <3>1, <3>2 DEF SameLocals, CopyInv, CopyOf, Alive
    <3>4. InUse(<<s, "suggestion">>) \/ MetMaker(c, <<s, "suggestion">>)
      BY <2>1, <3>1, <3>2 DEF SameLocals, Brings, Alive, InUse, Row
    <3>5. <<s, "suggestion">> \in Rows /\ Row(<<s, "suggestion">>) # NoRow
      BY <3>3 DEF Row, Rows
    <3>6. MetMaker(c, <<s, "suggestion">>)'
      BY <2>2, <3>4, <3>5
    <3> QED BY <3>2, <3>6
  <2> QED BY <2>3, <2>4, <2>5 DEF Brings
<1>2. CASE ~Answered(c)
  <2>1. Course(c) /\ pc[c] # "idle"
    BY CallsStay DEF CourseInv, FlagsAll, Is
  <2>2. Step(c)
    BY <1>2, <2>1, Arrivals, Mover DEF vars, locals, SameLocals, Crash, Goto, Answered
  <2>3. c = d \/ (FlagExperiment(c) /\ Active(c) /\ SameLocals(d))
    BY <2>1, <2>2, SweepMoves, Statements DEF Answered
  <2>4. c = d => Brings(c, d)'
    BY DEF Answered, Brings
  <2>5. ASSUME c # d, pc[d] \in {"insert_observation", "rewrite", "upsert"}
        PROVE  Met(c, d)' /\ pc[d] = "insert_observation"
    <3>1. Met(c, d)
      BY <2>3, <2>5 DEF MetInv, Met, Active, Ended
    <3>2. ~WritesBack(d)
      BY <3>1 DEF Pardoned
    <3> QED BY <2>5, <3>1, <3>2, CallsStay DEF PurposeInv, Purpose, WritesBack, Met
  <2> QED BY <2>3, <2>4, <2>5 DEF Brings, SameLocals
<1> QED BY <1>1, <1>2

LEMMA SweepStep ==
  ASSUME Base, CopyInv, OwnSuggestion, ReportInv, CourseInv, SweepInv, [Next]_vars
  PROVE  SweepInv'
<1> USE DEF Base, TypeOK
<1> SUFFICES ASSUME NEW c \in Calls, FlagsAll(c)', ~Pardoned(c)' PROVE Sweep(c)'
  BY DEF SweepInv
<1>1. CASE ~FlagsAll(c)
  <2>1. pc[c] = "idle"
    BY <1>1, CallsStay DEF FlagsAll, Is
  <2>2. Arrive(c)
    BY <1>1, <2>1, Statements, Mover DEF vars, locals, SameLocals, FlagsAll, Is, Active, Crash
  <2>3. pc'[c] = "flag_runs"
    BY <2>2, Arrivals DEF FlagsAll, Is, SuggestionDeletions, ObservationDeletions
  <2> QED BY <2>3 DEF Sweep, Past, Answered
<1>2. CASE pc'[c] = "dead"
  BY <1>2 DEF Sweep, Past, Answered
<1>3. ASSUME FlagsAll(c), pc'[c] # "dead" PROVE Sweep(c)'
  <2>1. Sweep(c) /\ Course(c) /\ ~Pardoned(c)
    BY <1>3, PardonsStay DEF SweepInv, CourseInv
  <2>2. pc[c] # "dead" /\ pc[c] # "idle"
    BY <1>3, CallsStay DEF Ended, FlagsAll, Is
  <2>3. SameLocals(c) \/ Step(c)
    BY <1>3, <2>2, Arrivals, Mover DEF vars, locals, SameLocals, Crash, Goto
  <2>4. ASSUME NEW x \in Rows, InUse(x)', MetMaker(c, x) \/ ~InUse(x) PROVE MetMaker(c, x)'
    BY <1>3, <2>1, <2>2, <2>4, ComesBehind, MakersStay DEF InUse
  <2>5. ASSUME NEW x \in Rows, InUse(x), InUse(x)', Past(c, x)' PROVE MetMaker(c, x)
    <3>1. CASE Past(c, x)
      BY <2>1, <2>5, <3>1 DEF Sweep
    <3>2. CASE FlagRuns(c) /\ pc'[c] = "flag_suggestions"
      <4>1. PICK r \in Runs : x = <<r, "run">>
        BY <2>5, <3>2 DEF Past, Rows
      <4>2. run[r] \in RunRow /\ run'[r] = [run[r] EXCEPT !.deleted = TRUE]
        BY <2>5, <3>2, <4>1 DEF FlagRuns, InUse, Row, RunTable
      <4> QED BY <2>5, <4>1, <4>2 DEF InUse, Row, RunRow
    <3>3. CASE FlagSuggestions(c) /\ pc'[c] = "read_observations"
      <4>1. pc[c] = "flag_suggestions" /\ marked[c] = Suggestions /\ Flag(c)
        BY <1>3, <2>1, <3>3 DEF FlagSuggestions, At, Course, Flag, FlagsAll, Is
      <4>2. CASE x[2] = "run"
        BY <3>1, <4>1, <4>2 DEF Past
      <4>3. ASSUME NEW s \in Suggestions, x = <<s, "suggestion">> PROVE FALSE
        <5>1. suggestion[s] \in SuggestionRow
              /\ suggestion'[s] = [suggestion[s] EXCEPT !.deleted = Flag(c)]
          BY <2>5, <3>3, <4>1, <4>3 DEF FlagSuggestions, InUse, Row, SuggestionTable
        <5> QED BY <2>5, <4>1, <4>3, <5>1 DEF InUse, Row, SuggestionRow
      <4> QED BY <2>5, <3>3, <4>2, <4>3 DEF Past, Rows
    <3>4. CASE ReadObservations(c) /\ pc'[c] = "write_observations"
      BY <2>5, <3>1, <3>4 DEF Past, ReadObservations, At
    <3>5. CASE WriteObservations(c) /\ pc'[c] = "flag_experiment"
      <4>1. pc[c] = "write_observations" /\ Flag(c)
        BY <1>3, <3>5 DEF WriteObservations, At, Flag, FlagsAll, Is
      <4>2. ASSUME NEW o \in Observations, x = <<o, "observation">>, copies[c][o] # NoRow
            PROVE  FALSE
        <5>1. copies[c][o] \in ObservationRow
              /\ observation'[o] = [copies[c][o] EXCEPT !.deleted = Flag(c)]
          BY <3>5, <4>2 DEF WriteObservations, Flagged, ObservationTable
        <5> QED BY <2>5, <4>1, <4>2, <5>1 DEF InUse, Row, ObservationRow
      <4> QED BY <2>1, <2>5, <4>1, <4>2 DEF Sweep, Copied, Rows
    <3>6. CASE FlagExperiment(c)
      BY <2>5, <3>1, <3>6 DEF Past, FlagExperiment, At
    <3> QED BY <1>3, <2>1, <2>3, <2>5, <3>1, <3>2, <3>3, <3>4, <3>5, <3>6, SweepMoves
         DEF SameLocals, Past
  <2>6. ASSUME NEW x \in Rows, InUse(x), pc'[c] = "write_observations"
        PROVE  Copied(c, x)' \/ MetMaker(c, x)
    <3>1. CASE SameLocals(c)
      BY <2>1, <2>6, <3>1 DEF SameLocals, Sweep, Copied
    <3>2. CASE ReadObservations(c)
      <4>1. x[2] # "observation" => MetMaker(c, x)
        BY <2>1, <2>6, <3>2 DEF Sweep, Past, ReadObservations, At
      <4>2. ASSUME NEW o \in Observations, x = <<o, "observation">> PROVE Copied(c, x)'
        <5>1. Alive(observation, o)
          BY <2>6, <4>2 DEF InUse, Row, Alive
        <5>2. o \in ToCopy(c)
          BY <1>3, <5>1 DEF ToCopy, FlagsAll, Is
        <5> QED BY <3>2, <4>2, <5>1, <5>2 DEF ReadObservations, Copied, Alive
      <4> QED BY <4>1, <4>2 DEF Rows
    <3> QED BY <1>3, <2>1, <2>3, <2>6, <3>1, <3>2, SweepMoves
  <2>7. Answered(c)' => \A d \in Calls : Brings(c, d)'
    BY <1>3, <2>1, BringsStep
  <2> QED BY <2>4, <2>5, <2>6, <2>7 DEF Sweep
<1> QED BY <1>1, <1>2, <1>3

(* Nothing of the runs survives the deletion of an experiment with its     *)
(* runs, apart from what calls that it met created, and what was restored  *)
(* or written back.                                                        *)
THEOREM DeletionTakesRuns == Spec => []ExperimentTakesItsRuns
<1> DEFINE IInv == Base /\ CopyInv /\ OwnSuggestion /\ ReportInv /\ CourseInv /\ SweepInv
<1>1. Init => IInv
  <2>1. Init => CourseInv /\ SweepInv
    BY DEF Init, CourseInv, Course, Creating, SweepInv, FlagsAll, Is
  <2> QED BY <2>1, BaseInit, CopyInit, InitReport, ReportOnceInit
<1>2. IInv /\ [Next]_vars => IInv'
  BY BaseStep, CopyStep, OwnStep, ReportOnceStep, CourseStep, SweepStep DEF Base
<1>3. IInv => ExperimentTakesItsRuns
  BY DEF SweepInv, Sweep, Past, InUse, MetMaker, Pardoned, Answered, ExperimentTakesItsRuns
<1> QED BY <1>1, <1>2, <1>3, PTL DEF Spec

---------------------------------------------------------------------------
(* A run, its suggestion and its observation are deleted together. *)

(* What disturbs stays.                                                    *)
LEMMA DisturbedStays ==
  ASSUME Base, [Next]_vars, Disturbed
  PROVE  Disturbed'
<1>1. PICK c \in Calls :
        \/ pc[c] = "dead"
        \/ req[c] # NoRequest /\ req[c].kind \in SuggestionDeletions \cup ObservationDeletions
        \/ \E d \in met[c] : Collide(c, d)
  BY DEF Disturbed
<1>2. CASE pc[c] = "dead"
  BY <1>2, CallsStay DEF Base, Disturbed, Ended
<1>3. CASE req[c] # NoRequest /\ req[c].kind \in SuggestionDeletions \cup ObservationDeletions
  BY <1>3, CallsStay DEF Base, Disturbed
<1>4. CASE \E d \in met[c] : Collide(c, d)
  <2>1. PICK d \in met[c] : Collide(c, d)
    BY <1>4
  <2>2. d \in Calls /\ d \in met'[c] /\ pc[c] # "idle" /\ pc[d] # "idle"
    BY CallsStay DEF Base, TypeOK, MetInv
  <2>3. req'[c] = req[c] /\ req'[d] = req[d]
    BY <2>2, CallsStay DEF Base
  <2>4. Collide(c, d)'
    BY <2>1, <2>3 DEF Collide, Deletes, WritesBack, Is, FlagsAll
  <2> QED BY <2>2, <2>4 DEF Disturbed
<1> QED BY <1>1, <1>2, <1>3, <1>4

(* While nothing disturbs, a call that deletes is under way only with      *)
(* calls that do not collide with it.                                      *)
LEMMA Apart ==
  ASSUME Base, ~Disturbed, NEW c \in Calls, NEW d \in Calls, c # d, Active(c), Active(d), Deletes(c)
  PROVE  /\ ~WritesBack(d) /\ ~Restores(d)
         /\ Is(d, "update") => req[d].state = None /\ req[d].deleted = TRUE
         /\ FlagsAll(c) => ~Is(d, "create")
<1>1. ~Collide(c, d)
  BY DEF Base, MetInv, Disturbed
<1> QED BY <1>1 DEF Collide, Restores

(* An observation belongs to one run: those who carry one to name it, or   *)
(* carry the row of the run that names it, are at work on that run.        *)
Names(r, o) == run[r] # NoRow /\ run[r].observation = o
Carries(c, o) == held[c] # NoRow /\ held[c].observation = o
OwnObservation ==
  /\ \A c \in Calls : pc[c] = "idle" => held[c] = NoRow
  /\ \A o \in Observations :
       /\ \A r \in Runs : Names(r, o) => observation[o] # NoRow
       /\ \A r, s \in Runs : (Names(r, o) /\ Names(s, o)) => r = s
       /\ \A c \in Calls : Carries(c, o) => observation[o] # NoRow
       /\ \A c \in Calls, r \in Runs :
            (Carries(c, o) /\ Names(r, o)) => ~Is(c, "create") /\ req[c].run = r
       /\ \A c, d \in Calls : (c # d /\ Carries(c, o) /\ Carries(d, o))
            => ~Is(c, "create") /\ req[c].run = req[d].run

(* Who names an observation after a step did so before, or is given it.    *)
LEMMA NewNames ==
  ASSUME Base, CourseInv, [Next]_vars, NEW r \in Runs, NEW o \in Observations, Names(r, o)'
  PROVE  \/ Names(r, o)
         \/ \E c \in Calls : /\ Step(c) /\ Carries(c, o) /\ ~Carries(c, o)'
                             /\ \/ Is(c, "create") /\ run[r] = NoRow
                                \/ NameObservation(c) /\ ~Is(c, "create") /\ req[c].run = r
<1> USE DEF Base, TypeOK
<1>1. CASE run'[r] = run[r]
  BY <1>1 DEF Names
<1>2. CASE run'[r] # run[r]
  <2>1. PICK c \in Calls : Step(c)
    BY <1>2, Arrivals DEF Next, vars, tables, Crash
  <2>2. CASE InsertRun(c) /\ run[r] = NoRow /\ run'[r] = held[c]
    <3>1. Is(c, "create") /\ held[c] # NoRow
      BY <2>2 DEF InsertRun, At, CourseInv, Course, Creating, ShapeInv, Shape
    <3>2. held'[c] = NoRow
      BY <2>2 DEF InsertRun
    <3> QED BY <2>1, <2>2, <3>1, <3>2 DEF Names, Carries
  <2>3. CASE /\ run[r] \in RunRow
             /\ NameObservation(c) /\ r = req[c].run
             /\ run'[r] = [run[r] EXCEPT !.observation = held[c].observation]
    <3>1. held[c] # NoRow /\ req[c].kind = "update"
      BY <2>3 DEF NameObservation, At, ShapeInv, Shape, Reporting
    <3>2. held'[c] = NoRow /\ held[c].observation = o
      BY <2>3 DEF NameObservation, Names, RunRow
    <3> QED BY <2>1, <2>3, <3>1, <3>2 DEF Carries, Is
  <2>4. CASE /\ run[r] \in RunRow
             /\ \/ run'[r] = [run[r] EXCEPT !.deleted = Flag(c)]
                \/ run'[r] = [run[r] EXCEPT !.deleted = TRUE]
                \/ run'[r] = [run[r] EXCEPT !.state = req[c].state]
    BY <2>4, NullAssumption DEF Names, RunRow
  <2> QED BY <1>2, <2>1, <2>2, <2>3, <2>4, RunWritten
<1> QED BY <1>1, <1>2

(* Who carries an observation after a step did so before, reads the run    *)
(* that names it, or has just inserted it.                                 *)
LEMMA NewCarries ==
  ASSUME Base, CourseInv, OwnObservation, [Next]_vars,
         NEW c \in Calls, NEW o \in Observations, Carries(c, o)'
  PROVE  /\ req'[c] = req[c]
         /\ \/ Carries(c, o)
            \/ /\ Reread(c) /\ Step(c) /\ ~Is(c, "create")
               /\ req[c].run \in Runs /\ Names(req[c].run, o)
            \/ Step(c) /\ observation[o] = NoRow /\ observation'[o] # NoRow
<1> USE DEF Base, TypeOK
<1>1. CASE SameLocals(c)
  BY <1>1 DEF SameLocals, Carries
<1>2. CASE Arrive(c)
  BY <1>2, Arrivals DEF OwnObservation, Carries
<1>3. CASE Step(c)
  <2>0. req'[c] = req[c]
    BY <1>3, Statements
  <2>1. CASE held'[c] = held[c]
    BY <2>0, <2>1 DEF Carries
  <2>2. CASE ServeSuggestion(c)
    <3>1. held'[c].observation = None
      BY <2>2 DEF ServeSuggestion
    <3> QED BY <3>1, NullAssumption DEF Carries
  <2>3. CASE ServeObservation(c)
    <3>1. o = New(observation) /\ Insert(observation, c, "observation")
          /\ observation' = [observation EXCEPT ![New(observation)] =
                             [suggestion |-> None, deleted |-> FALSE, edits |-> {}]]
      BY <2>3, NullAssumption DEF ServeObservation, Carries
    <3>2. observation[o] = NoRow
      BY <3>1, NewIsFree DEF Insert
    <3>3. [suggestion |-> None, deleted |-> FALSE, edits |-> {}] \in ObservationRow
      BY DEF ObservationRow
    <3> QED BY <1>3, <2>0, <3>1, <3>2, <3>3, NullAssumption DEF ObservationTable
  <2>4. CASE Reread(c)
    <3>1. /\ OfRun(c) /\ req[c].run \in Runs /\ Run(c) # NoRow /\ held'[c] = Run(c)
      BY <2>4 DEF Reread, At, ShapeInv, Shape, Looking, Request
    <3> QED BY <1>3, <2>0, <2>4, <3>1 DEF Carries, Names, Run, OfRun, Is
  <2>5. CASE InsertObservation(c)
    <3>1. held[c] \in RunRow
      BY <2>5 DEF InsertObservation, At, ShapeInv, Shape, Reporting
    <3>2. /\ o = New(observation) /\ Insert(observation, c, "observation")
          /\ observation'[o] = [suggestion |-> held[c].suggestion, deleted |-> FALSE, edits |-> {}]
      BY <2>5, <3>1 DEF InsertObservation, Carries, RunRow, ObservationTable
    <3>3. observation[o] = NoRow
      BY <3>2, NewIsFree DEF Insert
    <3>4. observation'[o] \in ObservationRow
      BY <3>1, <3>2 DEF ObservationRow, RunRow
    <3> QED BY <1>3, <2>0, <3>3, <3>4, NullAssumption
  <2>6. CASE Examine(c)
    BY <2>6, NullAssumption DEF Examine, Reportable, Carries
  <2>7. CASE InsertRun(c) \/ FlagRun(c) \/ NameObservation(c)
    BY <2>7 DEF InsertRun, FlagRun, NameObservation, Carries
  <2> QED BY <1>3, <2>1, <2>2, <2>3, <2>4, <2>5, <2>6, <2>7, Statements
<1>4. CASE Crash(c)
  BY <1>4 DEF Crash, locals, Carries
<1> QED BY <1>1, <1>2, <1>3, <1>4, Mover DEF vars, locals, SameLocals

(* So an observation goes on belonging to one run.                         *)
LEMMA OwnObservationStep ==
  ASSUME Base, CopyInv, CourseInv, OwnObservation, [Next]_vars
  PROVE  OwnObservation'
<1> USE DEF Base, TypeOK
<1>1. ASSUME NEW c \in Calls, pc'[c] = "idle" PROVE held'[c] = NoRow
  <2>1. pc[c] = "idle"
    BY <1>1, CallsStay
  <2>2. ~Step(c) /\ ~Crash(c)
    BY <2>1, Statements DEF Active, Crash
  <2>3. ~Arrive(c)
    BY <1>1, Arrivals DEF SuggestionDeletions, ObservationDeletions
  <2> QED BY <2>1, <2>2, <2>3, Mover DEF vars, locals, SameLocals, OwnObservation
<1> SUFFICES ASSUME NEW o \in Observations
             PROVE  /\ \A r \in Runs : Names(r, o)' => observation'[o] # NoRow
                    /\ \A r, s \in Runs : (Names(r, o)' /\ Names(s, o)') => r = s
                    /\ \A c \in Calls : Carries(c, o)' => observation'[o] # NoRow
                    /\ \A c \in Calls, r \in Runs :
                         (Carries(c, o)' /\ Names(r, o)') => ~Is(c, "create")' /\ req'[c].run = r
                    /\ \A c, d \in Calls : (c # d /\ Carries(c, o)' /\ Carries(d, o)')
                         => ~Is(c, "create")' /\ req'[c].run = req'[d].run
  BY <1>1 DEF OwnObservation
<1>2. observation[o] # NoRow => observation'[o] # NoRow
  BY ObservationsStay
<1>3. /\ \A r \in Runs : Names(r, o) => observation[o] # NoRow
      /\ \A r, s \in Runs : (Names(r, o) /\ Names(s, o)) => r = s
      /\ \A c \in Calls : Carries(c, o) => observation[o] # NoRow
      /\ \A c \in Calls, r \in Runs :
           (Carries(c, o) /\ Names(r, o)) => ~Is(c, "create") /\ req[c].run = r
      /\ \A c, d \in Calls : (c # d /\ Carries(c, o) /\ Carries(d, o))
           => ~Is(c, "create") /\ req[c].run = req[d].run
  BY DEF OwnObservation
<1>4. ASSUME NEW c \in Calls, NEW d \in Calls, Step(c), Step(d) PROVE c = d
  BY <1>4, Statements DEF SameLocals
<1>5. ASSUME NEW r \in Runs, Names(r, o)', ~Names(r, o)
      PROVE  \E c \in Calls : /\ Step(c) /\ Carries(c, o) /\ ~Carries(c, o)'
                              /\ \/ Is(c, "create") /\ r = New(run)
                                 \/ ~Is(c, "create") /\ req[c].run = r
  <2>1. PICK c \in Calls : /\ Step(c) /\ Carries(c, o) /\ ~Carries(c, o)'
                           /\ \/ Is(c, "create") /\ run[r] = NoRow
                              \/ ~Is(c, "create") /\ req[c].run = r
    BY <1>5, NewNames
  <2>2. run[r] = NoRow => r = New(run)
    BY <1>5, NewRuns DEF Names
  <2> QED BY <2>1, <2>2
<1>6. ASSUME NEW c \in Calls, Carries(c, o)', ~Carries(c, o), observation[o] # NoRow
      PROVE  /\ Step(c) /\ ~Is(c, "create") /\ run' = run
             /\ req[c].run \in Runs /\ Names(req[c].run, o)
  BY <1>6, NewCarries DEF Reread, tables
<1>7. ASSUME NEW c \in Calls, Carries(c, o)'
      PROVE  req'[c] = req[c] /\ (Is(c, "create")' <=> Is(c, "create"))
  BY <1>7, NewCarries DEF Is
<1>8. ASSUME NEW r \in Runs, Names(r, o)' PROVE observation[o] # NoRow
  BY <1>3, <1>5, <1>8
<1>9. ASSUME NEW r \in Runs, NEW s \in Runs, Names(r, o)', Names(s, o)' PROVE r = s
  BY <1>3, <1>4, <1>5, <1>9
<1>10. ASSUME NEW c \in Calls, Carries(c, o)' PROVE observation'[o] # NoRow
  BY <1>2, <1>3, <1>10, NewCarries
<1>11. ASSUME NEW c \in Calls, NEW r \in Runs, Carries(c, o)', Names(r, o)'
       PROVE  ~Is(c, "create")' /\ req'[c].run = r
  <2>1. observation[o] # NoRow
    BY <1>8, <1>11
  <2>2. CASE Carries(c, o)
    <3>1. CASE Names(r, o)
      BY <1>3, <1>7, <1>11, <2>2, <3>1
    <3>2. CASE ~Names(r, o)
      BY <1>3, <1>5, <1>7, <1>11, <2>2, <3>2
    <3> QED BY <3>1, <3>2
  <2>3. CASE ~Carries(c, o)
    BY <1>3, <1>6, <1>7, <1>11, <2>1, <2>3 DEF Names
  <2> QED BY <2>2, <2>3
<1>12. ASSUME NEW c \in Calls, NEW d \in Calls, c # d, Carries(c, o)', Carries(d, o)'
       PROVE  ~Is(c, "create")' /\ req'[c].run = req'[d].run
  <2>1. CASE Carries(c, o) /\ Carries(d, o)
    BY <1>3, <1>7, <1>12, <2>1
  <2>2. CASE Carries(c, o) /\ ~Carries(d, o)
    BY <1>3, <1>6, <1>7, <1>12, <2>2
  <2>3. CASE ~Carries(c, o) /\ Carries(d, o)
    BY <1>3, <1>6, <1>7, <1>12, <2>3
  <2>4. CASE ~Carries(c, o) /\ ~Carries(d, o)
    <3>1. ~Step(c) \/ ~Step(d)
      BY <1>4, <1>12
    <3> QED BY <1>12, <2>4, <3>1, NewCarries DEF Carries
  <2> QED BY <2>1, <2>2, <2>3, <2>4
<1> QED BY <1>2, <1>8, <1>9, <1>10, <1>11, <1>12

(* What a call that flags a run has read of it: held is a row, the marked  *)
(* suggestion and the copied observation are the ones it names.            *)
Flagger(c) == pc[c] \in Flagging /\ pc[c] # "reread" /\ OfRun(c)
Aims(c) ==
  Flagger(c) =>
    /\ held[c] # NoRow
    /\ pc[c] = "flag_suggestions" => marked[c] = {Run(c).suggestion} \ {None}
    /\ pc[c] = "write_observations" =>
         \A o \in Observations : copies[c][o] # NoRow <=> o = held[c].observation
AimsInv == \A c \in Calls : Aims(c)

(* A call reads the run first, and the run keeps its suggestion.           *)
LEMMA AimsStep ==
  ASSUME Base, CopyInv, CourseInv, OwnObservation, AimsInv, [Next]_vars
  PROVE  AimsInv'
<1> USE DEF Base, TypeOK
<1> SUFFICES ASSUME NEW c \in Calls, Flagger(c)' PROVE Aims(c)'
  BY DEF AimsInv, Aims
<1>1. Aims(c) /\ Shape(c)
  BY DEF AimsInv, ShapeInv
<1>2. CASE SameLocals(c)
  <2>1. Flagger(c)
    BY <1>2 DEF SameLocals, Flagger, OfRun
  <2>2. pc[c] # "idle" /\ req[c].run \in Runs
    BY <1>1, <2>1 DEF Flagger, Flagging, Shape, Request
  <2>3. pc[c] = "flag_suggestions" => Run(c)'.suggestion = Run(c).suggestion
    BY <1>1, <1>2, <2>1, <2>2, RunsStay DEF SameLocals, Shape, Flagger, Looking, Run
  <2> QED BY <1>1, <1>2, <2>1, <2>3 DEF SameLocals, Aims
<1>3. CASE Arrive(c)
  BY <1>3, Arrivals DEF Flagger, Flagging, OfRun, SuggestionDeletions, ObservationDeletions
<1>4. CASE Crash(c)
  BY <1>4 DEF Crash, Goto, Flagger, Flagging
<1>5. CASE Step(c)
  <2>0. req' = req /\ OfRun(c) /\ pc'[c] \in Flagging \ {"reread"}
    BY <1>5, Statements DEF Flagger, OfRun
  <2>1. CASE Reread(c)
    <3>1. Run(c) # NoRow /\ run' = run /\ held'[c] = Run(c)
          /\ marked'[c] = {Run(c).suggestion} \ {None}
          /\ pc'[c] # "write_observations"
      BY <1>1, <2>0, <2>1 DEF Reread, At, Goto, ToObservations, Shape, Looking, tables
    <3> QED BY <2>0, <3>1 DEF Aims, Run
  <2>2. CASE FlagSuggestions(c)
    <3>1. Flagger(c) /\ held' = held /\ pc'[c] \in {"read_observations", "flag_run"}
      BY <2>0, <2>2 DEF FlagSuggestions, At, Goto, Flagger, Flagging, OfRun, ToObservations
    <3> QED BY <1>1, <3>1 DEF Aims
  <2>3. CASE ReadObservations(c)
    <3>1. Flagger(c) /\ held' = held /\ pc'[c] = "write_observations"
      BY <2>0, <2>3 DEF ReadObservations, At, Goto, Flagger, Flagging
    <3>2. held[c] # NoRow /\ ToCopy(c) = {held[c].observation} \ {None}
      BY <1>1, <2>0, <3>1 DEF Aims, ToCopy, OfRun
    <3>3. \A o \in Observations : o = held[c].observation => observation[o] # NoRow
      BY <3>2 DEF OwnObservation, Carries
    <3>4. ASSUME NEW o \in Observations
          PROVE  copies'[c][o] # NoRow <=> o = held[c].observation
      BY <2>3, <3>2, <3>3, NullAssumption DEF ReadObservations
    <3> QED BY <3>1, <3>2, <3>4 DEF Aims
  <2>4. CASE WriteObservations(c)
    <3>1. Flagger(c) /\ held' = held /\ pc'[c] = "flag_run"
      BY <2>0, <2>4 DEF WriteObservations, At, Goto, Flagger, Flagging, OfRun
    <3> QED BY <1>1, <3>1 DEF Aims
  <2>5. pc[c] \in {"reread", "flag_suggestions", "write_observations", "flag_runs"}
        \/ ReadObservations(c)
    BY <1>5, <2>0, Order DEF Flagging, Reporting
  <2>6. pc[c] # "flag_runs"
    BY <1>1, <2>0 DEF Shape, OfRun
  <2> QED BY <1>5, <2>1, <2>2, <2>3, <2>4, <2>5, <2>6 DEF Step, At, ServeSuggestion, ServeObservation,
          InsertRun, FlagRun, FlagRuns, FlagExperiment, Write, Examine, Recheck, InsertObservation,
          NameObservation, InsertReported, Rewrite, Upsert, InsertCheckpoint
<1> QED BY <1>2, <1>3, <1>4, <1>5, Mover DEF vars, locals, SameLocals

---------------------------------------------------------------------------
(* While nothing disturbs. *)

Ground == Base /\ CopyInv /\ OwnSuggestion /\ CourseInv /\ OwnObservation /\ AimsInv

Settled(c) == Run(c).observation # None => observation[Run(c).observation].deleted = Flag(c)
(* What a call has flagged on its way to the run.                          *)
FlagsInTurn(c) ==
  Flagger(c) =>
    /\ (pc[c] # "flag_suggestions" /\ Run(c).suggestion # None)
         => suggestion[Run(c).suggestion].deleted = Flag(c)
    /\ held[c].observation = Run(c).observation \/ Settled(c)
    /\ pc[c] = "flag_run" => Settled(c)
(* What an update does after that is not to delete the run.                *)
ReportsInUse(c) ==
  /\ (pc[c] \in {"write", "examine"} /\ req[c].deleted = TRUE) => Run(c).deleted
  /\ pc[c] \in Reporting =>
       /\ req[c].deleted # TRUE
       /\ held[c].suggestion # None /\ Alive(suggestion, held[c].suggestion)
  /\ pc[c] = "name_observation" => Alive(observation, held[c].observation)
(* What the deletion of the experiment has flagged, and will.              *)
SweepsInTurn(c) ==
  FlagsAll(c) =>
    /\ pc[c] \in Sweeping \ {"flag_runs"} => \A r \in Runs : run[r] # NoRow => run[r].deleted
    /\ pc[c] = "write_observations" =>
         \A o \in Observations, r \in Runs :
           (Names(r, o) /\ Alive(observation, o)) => copies[c][o] # NoRow
(* What is inserted or written back is in use.                             *)
InsertsInUse(c) ==
  pc[c] = "insert_run" =>
    /\ ~held[c].deleted
    /\ held[c].suggestion # None => Alive(suggestion, held[c].suggestion)
    /\ held[c].observation # None => Alive(observation, held[c].observation)
CopiesInUse(c) ==
  /\ pc[c] = "upsert" => Alive(suggestion, req[c].suggestion)
  /\ pc[c] = "rewrite" => Alive(observation, req[c].observation)
Calm(c) ==
  FlagsInTurn(c) /\ ReportsInUse(c) /\ SweepsInTurn(c) /\ InsertsInUse(c) /\ CopiesInUse(c)

(* Flags that differ are about to be set by a call under way, and who will *)
(* look at a run that is to be reported does not delete it.                *)
Halfway(c, r) == /\ pc[c] \in {"read_observations", "write_observations", "flag_run"}
                 /\ OfRun(c) /\ req[c].run = r
SuggestionMatches(r) ==
  (run[r].suggestion # None /\ suggestion[run[r].suggestion].deleted # run[r].deleted)
    => \E c \in Calls : Halfway(c, r) \/ (FlagsAll(c) /\ pc[c] = "flag_suggestions")
ObservationMatches(r) ==
  (run[r].observation # None /\ observation[run[r].observation].deleted # run[r].deleted)
    => \E c \in Calls : \/ Halfway(c, r)
                        \/ FlagsAll(c) /\ pc[c] \in Sweeping \ {"flag_runs", "flag_experiment"}
IsLookedAt(r) ==
  Reportable(run[r]) => \E c \in Calls : WillLook(c, r) /\ req[c].deleted # TRUE
Matches(r) ==
  run[r] # NoRow => SuggestionMatches(r) /\ ObservationMatches(r) /\ IsLookedAt(r)
TogetherInv == ~Disturbed => (\A c \in Calls : Calm(c)) /\ (\A r \in Runs : Matches(r))

(* Who flags rows deletes them or restores them, and is at work on a run   *)
(* or on the experiment.                                                   *)
LEMMA FlaggersAre ==
  ASSUME Ground, ~Disturbed, NEW c \in Calls, pc[c] \in Flagging
  PROVE  /\ Active(c) /\ Flag(c) \in BOOLEAN
         /\ Flag(c) => Deletes(c)
         /\ ~Flag(c) => Restores(c)
         /\ FlagsAll(c) => Flag(c)
         /\ OfRun(c) \/ FlagsAll(c)
         /\ OfRun(c) => req[c] \in Request /\ req[c].run \in Runs
<1>1. (Deletes(c) \/ Restores(c)) /\ Active(c) /\ pc[c] # "idle"
  BY DEF Ground, Base, PurposeInv, Purpose, Flagging, Active, Ended
<1>2. req[c] # NoRequest /\ req[c].kind \notin SuggestionDeletions \cup ObservationDeletions
  BY <1>1 DEF Disturbed, Deletes, Restores, FlagsAll, Is
<1>3. req[c] \in Request
  BY <1>1 DEF Ground, Base, ShapeInv, Shape
<1>4. OfRun(c) \/ FlagsAll(c)
  BY <1>1, <1>2 DEF Deletes, Restores, Is, OfRun
<1>5. Flag(c) => Deletes(c)
  BY <1>1, <1>2 DEF Flag, Deletes, Restores, Is
<1>6. FlagsAll(c) => Flag(c)
  BY DEF Flag, FlagsAll, Is
<1>7. Flag(c) \in BOOLEAN
  BY DEF Flag
<1>8. ~Flag(c) => Restores(c)
  BY ClearingRestores DEF Ground, Base, PurposeInv
<1> QED BY <1>1, <1>3, <1>4, <1>5, <1>6, <1>7, <1>8 DEF Request

(* Only a call that flags suggestions changes the flag of one: a row that  *)
(* is written back is in use by then.                                      *)
LEMMA SuggestionFlagged ==
  ASSUME Ground, ~Disturbed, NEW c \in Calls, Calm(c), Step(c), NEW s \in Suggestions,
         suggestion[s] # NoRow, suggestion'[s].deleted # suggestion[s].deleted
  PROVE  /\ FlagSuggestions(c) /\ pc[c] = "flag_suggestions" /\ s \in marked[c]
         /\ suggestion'[s].deleted = Flag(c)
<1> USE DEF Ground, Base, TypeOK
<1>1. suggestion[s] \in SuggestionRow
  BY DEF SuggestionTable
<1>2. CASE /\ pc[c] = "upsert" /\ s = req[c].suggestion
           /\ suggestion'[s] = [kept[c] EXCEPT !.edits = @ \cup {c}]
           /\ kept[c] \in SuggestionRow
  <2>1. ~kept[c].deleted /\ ~suggestion[s].deleted
    BY <1>2 DEF CopyInv, CopyOf, Calm, CopiesInUse, Alive
  <2>2. suggestion'[s].deleted = kept[c].deleted /\ kept[c].deleted \in BOOLEAN
    BY <1>2 DEF SuggestionRow
  <2> QED BY <1>1, <2>1, <2>2 DEF SuggestionRow
<1>3. CASE /\ pc[c] = "flag_suggestions"
           /\ suggestion'[s] = [suggestion[s] EXCEPT !.deleted = Flag(c)]
  <2>1. FlagSuggestions(c)
    BY <1>3, Statements DEF ServeSuggestion, Upsert, At
  <2>2. s \in marked[c]
    BY <2>1 DEF FlagSuggestions
  <2> QED BY <1>1, <1>3, <2>1, <2>2 DEF SuggestionRow
<1> QED BY <1>2, <1>3, SuggestionWritten

(* The same for an observation.                                            *)
LEMMA ObservationFlagged ==
  ASSUME Ground, ~Disturbed, NEW c \in Calls, Calm(c), Step(c), NEW o \in Observations,
         observation[o] # NoRow, observation'[o].deleted # observation[o].deleted
  PROVE  /\ WriteObservations(c) /\ pc[c] = "write_observations" /\ copies[c][o] # NoRow
         /\ observation'[o].deleted = Flag(c)
<1> USE DEF Ground, Base, TypeOK
<1>1. observation[o] \in ObservationRow
  BY DEF ObservationTable
<1>2. CASE /\ pc[c] = "rewrite" /\ o = req[c].observation /\ copies[c][o] \in ObservationRow
           /\ req[c].reports \in Suggestions \cup {None, Same}
           /\ observation'[o] = Rewritten(c)
  <2>1. ~copies[c][o].deleted /\ ~observation[o].deleted
    BY <1>2 DEF CopyInv, CopyOf, Calm, CopiesInUse, Alive
  <2>2. observation'[o].deleted = copies[c][o].deleted /\ copies[c][o].deleted \in BOOLEAN
    BY <1>2, RowRewritten DEF ObservationRow
  <2> QED BY <1>1, <2>1, <2>2 DEF ObservationRow
<1>3. CASE /\ pc[c] = "write_observations" /\ copies[c][o] \in ObservationRow
           /\ observation'[o] = [copies[c][o] EXCEPT !.deleted = Flag(c)]
  <2>1. WriteObservations(c)
    BY <1>3, Statements DEF ServeObservation, InsertObservation, InsertReported, Rewrite, At
  <2> QED BY <1>3, <2>1, NullAssumption DEF ObservationRow
<1> QED BY <1>2, <1>3, ObservationWritten

(* And for a run, that no call writes back.                                *)
LEMMA RunFlagged ==
  ASSUME Ground, NEW c \in Calls, Step(c), NEW r \in Runs,
         run[r] # NoRow, run'[r].deleted # run[r].deleted
  PROVE  \/ /\ FlagRun(c) /\ pc[c] = "flag_run" /\ r = req[c].run /\ OfRun(c)
            /\ run'[r].deleted = Flag(c)
         \/ /\ FlagRuns(c) /\ pc[c] = "flag_runs" /\ run'[r].deleted
            /\ req[c].kind = "deleteexp"
<1> USE DEF Ground, Base, TypeOK
<1>1. run[r] \in RunRow
  BY DEF RunTable
<1>2. CASE FlagRun(c) /\ r = req[c].run /\ run'[r] = [run[r] EXCEPT !.deleted = Flag(c)]
  BY <1>1, <1>2 DEF FlagRun, At, ShapeInv, Shape, RunRow
<1>3. CASE FlagRuns(c) /\ run'[r] = [run[r] EXCEPT !.deleted = TRUE]
  BY <1>1, <1>3 DEF FlagRuns, At, ShapeInv, Shape, RunRow
<1>4. CASE \/ run'[r] = [run[r] EXCEPT !.state = req[c].state]
           \/ run'[r] = [run[r] EXCEPT !.observation = held[c].observation]
  BY <1>1, <1>4 DEF RunRow
<1> QED BY <1>2, <1>3, <1>4, RunWritten

(* A call that relies on rows in use: it restores the run, goes on to      *)
(* report it, or writes back a row.                                        *)
Relies(d) == WritesBack(d) \/ (Is(d, "update") /\ req[d].deleted # TRUE)

(* What such a call relies on is not deleted under its hands, nor what a   *)
(* call has created for its run.                                           *)
LEMMA SuggestionKept ==
  ASSUME Ground, ~Disturbed, NEW c \in Calls, Calm(c), Step(c), [Next]_vars,
         NEW d \in Calls, c # d, Active(d), NEW s \in Suggestions, Alive(suggestion, s),
         Relies(d) \/ (pc[d] = "insert_run" /\ held[d].suggestion = s)
  PROVE  Alive(suggestion, s)'
<1> USE DEF Ground, Base, TypeOK
<1>1. suggestion'[s] # NoRow
  BY SuggestionsStay DEF Alive
<1>2. ASSUME suggestion'[s].deleted PROVE FALSE
  <2>1. /\ pc[c] = "flag_suggestions" /\ s \in marked[c] /\ Flag(c)
    BY <1>2, SuggestionFlagged DEF Alive
  <2>2. Active(c) /\ Deletes(c) /\ (OfRun(c) \/ FlagsAll(c))
    BY <2>1, FlaggersAre DEF Flagging
  <2>3. ~Relies(d)
    BY <2>2, Apart DEF Relies
  <2>4. pc[d] = "insert_run" /\ held[d].suggestion = s /\ Is(d, "create")
    BY <2>3 DEF CourseInv, Course, Creating
  <2>5. OfRun(c)
    BY <2>2, <2>4, Apart
  <2>6. /\ s = Run(c).suggestion /\ Run(c) # NoRow /\ req[c].run \in Runs
    BY <2>1, <2>5, FlaggersAre DEF Flagging, Looking, ShapeInv, Shape
  <2> QED BY <2>4, <2>6, NullAssumption DEF OwnSuggestion, Run
<1> QED BY <1>1, <1>2 DEF Alive

(* The same for an observation.                                            *)
LEMMA ObservationKept ==
  ASSUME Ground, ~Disturbed, NEW c \in Calls, Calm(c), Step(c), [Next]_vars,
         NEW d \in Calls, c # d, Active(d), NEW o \in Observations, Alive(observation, o),
         Relies(d) \/ (pc[d] = "insert_run" /\ Carries(d, o))
  PROVE  Alive(observation, o)'
<1> USE DEF Ground, Base, TypeOK
<1>1. observation'[o] # NoRow
  BY ObservationsStay DEF Alive
<1>2. ASSUME observation'[o].deleted PROVE FALSE
  <2>1. /\ pc[c] = "write_observations" /\ copies[c][o] # NoRow /\ Flag(c)
    BY <1>2, ObservationFlagged DEF Alive
  <2>2. Active(c) /\ Deletes(c) /\ (OfRun(c) \/ FlagsAll(c))
    BY <2>1, FlaggersAre DEF Flagging
  <2>3. ~Relies(d)
    BY <2>2, Apart DEF Relies
  <2>4. pc[d] = "insert_run" /\ Carries(d, o) /\ Is(d, "create")
    BY <2>3 DEF CourseInv, Course, Creating
  <2>5. OfRun(c)
    BY <2>2, <2>4, Apart
  <2>6. Carries(c, o)
    BY <2>1, <2>5 DEF AimsInv, Aims, Flagger, Flagging, Carries
  <2> QED BY <2>4, <2>6 DEF OwnObservation
<1> QED BY <1>1, <1>2 DEF Alive

(* Calls that flag the same run at the same time set the same flag.        *)
LEMMA SameFlags ==
  ASSUME Ground, ~Disturbed, NEW c \in Calls, NEW d \in Calls, c # d,
         pc[c] \in Flagging, pc[d] \in Flagging
  PROVE  Flag(c) = Flag(d)
BY FlaggersAre, Apart DEF Ground

(* A statement of one call does not unsettle what another call has set.    *)
LEMMA SettledStays ==
  ASSUME Ground, ~Disturbed, NEW c \in Calls, Calm(c), Step(c), [Next]_vars,
         NEW d \in Calls, c # d, Flagger(d),
         Settled(d) \/ Run(d)'.observation # Run(d).observation
  PROVE  Settled(d)'
<1> USE DEF Ground, Base, TypeOK
<1>0. /\ SameLocals(d) /\ pc[d] \in Flagging /\ req[d].run \in Runs /\ Active(d)
      /\ Flag(d) \in BOOLEAN /\ (Flag(d) => Deletes(d))
  BY Statements, FlaggersAre DEF Flagger
<1>1. Flag(d)' = Flag(d)
  BY <1>0 DEF Flag, SameLocals
<1>2. Run(d) # NoRow /\ Run(d) \in RunRow /\ Run(d)' = run'[req[d].run]
  BY <1>0 DEF Flagger, Flagging, ShapeInv, Shape, Looking, OfRun, Run, RunTable, SameLocals
<1>3. CASE Run(d)'.observation = Run(d).observation
  <2> DEFINE o == Run(d).observation
  <2>1. SUFFICES ASSUME o # None PROVE observation'[o].deleted = Flag(d)
    BY <1>1, <1>3 DEF Settled
  <2>2. o \in Observations /\ observation[o] # NoRow /\ observation[o].deleted = Flag(d)
    BY <1>0, <1>2, <1>3, <2>1 DEF RunRow, OwnObservation, Names, Run, Settled
  <2>3. CASE observation'[o].deleted = observation[o].deleted
    BY <2>2, <2>3
  <2>4. CASE observation'[o].deleted # observation[o].deleted
    <3>1. observation'[o].deleted = Flag(c) /\ pc[c] \in Flagging
      BY <2>2, <2>4, ObservationFlagged DEF Flagging
    <3> QED BY <1>0, <3>1, SameFlags
  <2> QED BY <2>3, <2>4
<1>4. CASE Run(d)'.observation # Run(d).observation
  <2>1. run'[req[d].run] # run[req[d].run]
    BY <1>2, <1>4 DEF Run
  <2>2. NameObservation(c) /\ run'[req[d].run] = [run[req[d].run] EXCEPT !.observation = held[c].observation]
    <3> DEFINE r == req[d].run
    <3>1. /\ r \in Runs /\ run[r] # NoRow /\ run[r] \in RunRow
          /\ run'[r] # run[r] /\ run'[r].observation # run[r].observation
      BY <1>0, <1>2, <1>4, <2>1 DEF Run
    <3> HIDE DEF r
    <3>2. /\ \A b : [run[r] EXCEPT !.deleted = b].observation = run[r].observation
          /\ \A b : [run[r] EXCEPT !.state = b].observation = run[r].observation
      BY <3>1 DEF RunRow
    <3>3. NameObservation(c) /\ run'[r] = [run[r] EXCEPT !.observation = held[c].observation]
      <4>1. \/ run'[r] = [run[r] EXCEPT !.deleted = Flag(c)]
            \/ run'[r] = [run[r] EXCEPT !.deleted = TRUE]
            \/ run'[r] = [run[r] EXCEPT !.state = req[c].state]
            \/ /\ NameObservation(c)
               /\ run'[r] = [run[r] EXCEPT !.observation = held[c].observation]
        BY <3>1, RunWritten
      <4> QED BY <3>1, <3>2, <4>1
    <3> QED BY <3>3 DEF r
  <2>3. /\ pc[c] = "name_observation" /\ held[c] \in RunRow /\ req[c].kind = "update"
        /\ req[c] # NoRequest /\ held[c].observation # None
    BY <2>2, NullAssumption DEF NameObservation, At, ShapeInv, Shape, Reporting
  <2>4. /\ Run(d)'.observation = held[c].observation /\ held[c].observation \in Observations
        /\ observation' = observation
    BY <1>2, <2>2, <2>3 DEF NameObservation, RunRow, Run
  <2>5. Alive(observation, held[c].observation) /\ req[c].deleted # TRUE
    BY <2>3 DEF Calm, ReportsInUse, Reporting
  <2>6. ~Flag(d)
    BY <1>0, <2>3, <2>5, Apart DEF Active, Ended, Is
  <2>7. observation[held[c].observation] \in ObservationRow
    BY <2>4, <2>5 DEF Alive, ObservationTable
  <2> QED BY <1>0, <1>1, <2>4, <2>5, <2>6, <2>7 DEF Settled, Alive, ObservationRow
<1> QED BY <1>3, <1>4

(* What holds of a call that flags a run.                                  *)
LEMMA FlaggerKnows ==
  ASSUME Ground, ~Disturbed, NEW d \in Calls, Flagger(d)
  PROVE  /\ pc[d] \in Flagging /\ Active(d) /\ pc[d] # "idle"
         /\ req[d] \in Request /\ req[d].run \in Runs
         /\ Run(d) \in RunRow /\ Run(d) # NoRow
         /\ Run(d).suggestion # None => /\ Run(d).suggestion \in Suggestions
                                        /\ suggestion[Run(d).suggestion] # NoRow
<1>1. pc[d] \in Flagging /\ OfRun(d) /\ pc[d] \in Looking
  BY DEF Flagger, Ground, Base, ShapeInv, Shape, Flagging, Looking, OfRun
<1>2. Active(d) /\ req[d] \in Request /\ req[d].run \in Runs
  BY <1>1, FlaggersAre
<1>3. Run(d) # NoRow /\ Run(d) \in RunRow
  BY <1>1, <1>2 DEF Ground, Base, TypeOK, ShapeInv, Shape, Run, RunTable
<1>4. Run(d).suggestion # None => /\ Run(d).suggestion \in Suggestions
                                  /\ suggestion[Run(d).suggestion] # NoRow
  BY <1>2, <1>3 DEF Ground, OwnSuggestion, Run, RunRow
<1> QED BY <1>1, <1>2, <1>3, <1>4 DEF Active

(* A statement of one call leaves what another one has flagged.            *)
LEMMA FlagsOfOthers ==
  ASSUME Ground, ~Disturbed, NEW c \in Calls, Calm(c), Step(c), [Next]_vars,
         NEW d \in Calls, c # d, FlagsInTurn(d)
  PROVE  FlagsInTurn(d)'
<1> USE DEF Ground, Base, TypeOK
<1>1. SameLocals(d)
  BY Statements
<1>2. SUFFICES ASSUME Flagger(d) PROVE FlagsInTurn(d)'
  BY <1>1 DEF FlagsInTurn, Flagger, OfRun, SameLocals
<1>3. /\ pc[d] \in Flagging /\ req[d].run \in Runs /\ Run(d) # NoRow /\ Run(d) \in RunRow
      /\ Run(d).suggestion # None => /\ Run(d).suggestion \in Suggestions
                                     /\ suggestion[Run(d).suggestion] # NoRow
  BY <1>2, FlaggerKnows
<1>4. Run(d)' = run'[req[d].run] /\ Run(d)'.suggestion = Run(d).suggestion
  BY <1>1, <1>3, RunsStay DEF SameLocals, Run
<1>5. Flag(d)' = Flag(d)
  BY <1>1 DEF SameLocals, Flag
<1>6. ASSUME pc[d] # "flag_suggestions", Run(d).suggestion # None
      PROVE  suggestion'[Run(d).suggestion].deleted = Flag(d)
  <2> DEFINE s == Run(d).suggestion
  <2>1. s \in Suggestions /\ suggestion[s] # NoRow /\ suggestion[s].deleted = Flag(d)
    BY <1>2, <1>3, <1>6 DEF FlagsInTurn
  <2>2. CASE suggestion'[s].deleted = suggestion[s].deleted
    BY <2>1, <2>2
  <2>3. CASE suggestion'[s].deleted # suggestion[s].deleted
    <3>1. suggestion'[s].deleted = Flag(c) /\ pc[c] \in Flagging
      BY <2>1, <2>3, SuggestionFlagged DEF Flagging
    <3> QED BY <1>3, <3>1, SameFlags
  <2> QED BY <2>2, <2>3
<1>7. (Settled(d) \/ Run(d)'.observation # Run(d).observation) => Settled(d)'
  BY <1>2, SettledStays
<1>8. held'[d].observation = Run(d)'.observation \/ Settled(d)'
  BY <1>1, <1>2, <1>7 DEF FlagsInTurn, SameLocals
<1>9. pc[d] = "flag_run" => Settled(d)'
  BY <1>2, <1>7 DEF FlagsInTurn
<1> QED BY <1>1, <1>4, <1>5, <1>6, <1>8, <1>9 DEF FlagsInTurn, SameLocals

(* And what another one reports.                                           *)
LEMMA ReportsOfOthers ==
  ASSUME Ground, ~Disturbed, NEW c \in Calls, Calm(c), Step(c), [Next]_vars,
         NEW d \in Calls, c # d, ReportsInUse(d)
  PROVE  ReportsInUse(d)'
<1> USE DEF Ground, Base, TypeOK
<1>1. SameLocals(d) /\ Active(c) /\ Shape(d)
  BY Statements DEF ShapeInv
<1>2. ASSUME pc[d] \in {"write", "examine"}, req[d].deleted = TRUE PROVE run'[req[d].run].deleted
  <2>1. /\ pc[d] # "idle" /\ Active(d) /\ OfRun(d) /\ Is(d, "update") /\ req[d].run \in Runs
    BY <1>1, <1>2, NullAssumption DEF Shape, OfRun, Is, Active, Ended, Request
  <2>2. Run(d) # NoRow /\ Run(d).deleted /\ Deletes(d)
    BY <1>1, <1>2, <2>1 DEF Shape, Looking, ReportsInUse, Deletes
  <2>3. ASSUME ~run'[req[d].run].deleted PROVE FALSE
    <3>1. pc[c] = "flag_run" /\ ~Flag(c)
      BY <2>1, <2>2, <2>3, RunFlagged DEF Run
    <3>2. Restores(c)
      BY <3>1, FlaggersAre DEF Flagging
    <3> QED BY <1>1, <2>1, <2>2, <3>2, Apart
  <2> QED BY <2>3
<1>3. ASSUME pc[d] \in Reporting
      PROVE  /\ req[d].deleted # TRUE
             /\ held[d].suggestion # None /\ Alive(suggestion, held[d].suggestion)'
             /\ pc[d] = "name_observation" => Alive(observation, held[d].observation)'
  <2>1. /\ Active(d) /\ Is(d, "update") /\ held[d] \in RunRow
        /\ pc[d] = "name_observation" => held[d].observation # None
    BY <1>1, <1>3, NullAssumption DEF Shape, Is, Active, Ended, Reporting
  <2>2. req[d].deleted # TRUE /\ Relies(d)
    BY <1>3, <2>1 DEF ReportsInUse, Relies
  <2>3. held[d].suggestion # None /\ held[d].suggestion \in Suggestions
        /\ Alive(suggestion, held[d].suggestion)
    BY <1>3, <2>1 DEF ReportsInUse, RunRow
  <2>4. Alive(suggestion, held[d].suggestion)'
    <3>1. PICK s \in Suggestions : s = held[d].suggestion
      BY <2>3
    <3>2. Alive(suggestion, s)'
      BY <2>1, <2>2, <2>3, <3>1, SuggestionKept
    <3> QED BY <1>1, <3>1, <3>2 DEF SameLocals, Alive
  <2>5. ASSUME pc[d] = "name_observation" PROVE Alive(observation, held[d].observation)'
    <3>1. PICK o \in Observations : o = held[d].observation
      BY <2>1, <2>5 DEF RunRow
    <3>2. Alive(observation, o)'
      BY <2>1, <2>2, <2>5, <3>1, ObservationKept DEF ReportsInUse
    <3> QED BY <1>1, <3>1, <3>2 DEF SameLocals, Alive
  <2> QED BY <2>2, <2>3, <2>4, <2>5
<1> QED BY <1>1, <1>2, <1>3 DEF ReportsInUse, SameLocals, Run, Reporting

(* A deletion of the experiment misses no row: no call that it has not met *)
(* brings one into use.                                                    *)
LEMMA SweepsOfOthers ==
  ASSUME Ground, ~Disturbed, NEW c \in Calls, Calm(c), Step(c), [Next]_vars,
         NEW d \in Calls, c # d, SweepsInTurn(d)
  PROVE  SweepsInTurn(d)'
<1> USE DEF Ground, Base, TypeOK
<1>1. SameLocals(d) /\ Active(c)
  BY Statements
<1>2. SUFFICES ASSUME FlagsAll(d), pc[d] \in Sweeping \ {"flag_runs"} PROVE SweepsInTurn(d)'
  BY <1>1 DEF SweepsInTurn, Sweeping, FlagsAll, Is, SameLocals
<1>3. Active(d) /\ Deletes(d)
  BY <1>2 DEF Active, Ended, Sweeping, Deletes
<1>4. ~Restores(c) /\ ~Is(c, "create") /\ (Is(c, "update") => req[c].deleted = TRUE)
  BY <1>1, <1>2, <1>3, Apart
<1>5. pc[c] \in Flagging => Flag(c)
  BY <1>4, FlaggersAre
<1>6. ASSUME NEW r \in Runs, run'[r] # NoRow PROVE run'[r].deleted
  <2>1. CASE run[r] # NoRow
    <3>1. run[r].deleted
      BY <1>2, <2>1 DEF SweepsInTurn
    <3>2. CASE run'[r].deleted # run[r].deleted
      BY <1>5, <2>1, <3>2, RunFlagged DEF Flagging
    <3> QED BY <3>1, <3>2
  <2>2. CASE run[r] = NoRow
    <3>1. PICK e \in Calls : pc[e] = "insert_run" /\ pc'[e] = "done"
      BY <1>6, <2>2, NewRuns
    <3>2. e = c
      BY <3>1, Statements DEF SameLocals
    <3> QED BY <1>4, <3>1, <3>2 DEF CourseInv, Course, Creating
  <2> QED BY <2>1, <2>2
<1>7. ASSUME NEW o \in Observations, NEW r \in Runs, Names(r, o)',
             pc[d] = "write_observations", copies[d][o] = NoRow, Alive(observation, o)'
      PROVE  FALSE
  <2>1. Names(r, o)
    <3>1. ASSUME NEW e \in Calls, Step(e), NameObservation(e) PROVE FALSE
      <4>1. e = c
        BY <3>1, Statements DEF SameLocals
      <4>2. Is(c, "update") /\ req[c].deleted # TRUE
        BY <3>1, <4>1, NullAssumption
           DEF NameObservation, At, ShapeInv, Shape, Reporting, Is, Calm, ReportsInUse
      <4> QED BY <1>4, <4>2
    <3>2. ASSUME NEW e \in Calls, Step(e), Is(e, "create") PROVE FALSE
      BY <1>4, <3>2, Statements DEF SameLocals
    <3> QED BY <1>7, <3>1, <3>2, NewNames
  <2>2. observation[o] # NoRow /\ ~Alive(observation, o)
    BY <1>2, <1>7, <2>1 DEF OwnObservation, SweepsInTurn
  <2>3. observation'[o].deleted # observation[o].deleted
    BY <1>7, <2>2 DEF Alive
  <2>4. pc[c] = "write_observations" /\ observation'[o].deleted = Flag(c)
    BY <2>2, <2>3, ObservationFlagged
  <2> QED BY <1>5, <1>7, <2>4 DEF Flagging, Alive
<1> QED BY <1>1, <1>2, <1>6, <1>7 DEF SweepsInTurn, SameLocals

(* What another one is to insert or to write back stays in use.            *)
LEMMA RowsOfOthers ==
  ASSUME Ground, ~Disturbed, NEW c \in Calls, Calm(c), Step(c), [Next]_vars,
         NEW d \in Calls, c # d, InsertsInUse(d), CopiesInUse(d)
  PROVE  InsertsInUse(d)' /\ CopiesInUse(d)'
<1> USE DEF Ground, Base, TypeOK
<1>1. SameLocals(d) /\ Shape(d)
  BY Statements DEF ShapeInv
<1>2. ASSUME pc[d] = "insert_run", held[d].suggestion # None
      PROVE  Alive(suggestion, held[d].suggestion)'
  <2>1. held[d] \in RunRow /\ Active(d)
    BY <1>1, <1>2 DEF Shape, Active, Ended
  <2>2. PICK s \in Suggestions : s = held[d].suggestion
    BY <1>2, <2>1 DEF RunRow
  <2>3. Alive(suggestion, s)'
    BY <1>2, <2>1, <2>2, SuggestionKept DEF InsertsInUse
  <2> QED BY <1>1, <2>2, <2>3 DEF SameLocals, Alive
<1>3. ASSUME pc[d] = "insert_run", held[d].observation # None
      PROVE  Alive(observation, held[d].observation)'
  <2>1. held[d] \in RunRow /\ held[d] # NoRow /\ Active(d)
    BY <1>1, <1>3 DEF Shape, Active, Ended
  <2>2. PICK o \in Observations : o = held[d].observation
    BY <1>3, <2>1 DEF RunRow
  <2>3. Alive(observation, o)'
    BY <1>3, <2>1, <2>2, ObservationKept DEF InsertsInUse, Carries
  <2> QED BY <1>1, <2>2, <2>3 DEF SameLocals, Alive
<1>4. ASSUME pc[d] \in {"upsert", "rewrite"} PROVE Active(d) /\ Relies(d) /\ req[d] \in Request
  BY <1>1, <1>4 DEF Active, Ended, PurposeInv, Purpose, Relies, WritesBack, Shape
<1>5. ASSUME pc[d] = "upsert" PROVE Alive(suggestion, req[d].suggestion)'
  <2>1. PICK s \in Suggestions : s = req[d].suggestion
    BY <1>4, <1>5 DEF Request
  <2>2. Alive(suggestion, s)'
    BY <1>4, <1>5, <2>1, SuggestionKept DEF CopiesInUse
  <2> QED BY <1>1, <2>1, <2>2 DEF SameLocals, Alive
<1>6. ASSUME pc[d] = "rewrite" PROVE Alive(observation, req[d].observation)'
  <2>1. PICK o \in Observations : o = req[d].observation
    BY <1>4, <1>6 DEF Request
  <2>2. Alive(observation, o)'
    BY <1>4, <1>6, <2>1, ObservationKept DEF CopiesInUse
  <2> QED BY <1>1, <2>1, <2>2 DEF SameLocals, Alive
<1> QED BY <1>1, <1>2, <1>3, <1>5, <1>6 DEF InsertsInUse, CopiesInUse, SameLocals

(* So another one stays calm.                                              *)
LEMMA CalmOthers ==
  ASSUME Ground, ~Disturbed, NEW c \in Calls, Calm(c), Step(c), [Next]_vars,
         NEW d \in Calls, c # d, Calm(d)
  PROVE  Calm(d)'
BY FlagsOfOthers, ReportsOfOthers, SweepsOfOthers, RowsOfOthers DEF Calm

(* What a call has flagged when it comes to the next statement.            *)
LEMMA FlagsOwn ==
  ASSUME Ground, ~Disturbed, NEW c \in Calls, FlagsInTurn(c), Step(c), [Next]_vars
  PROVE  FlagsInTurn(c)'
<1> USE DEF Ground, Base, TypeOK
<1>1. req' = req /\ Flag(c)' = Flag(c)
  BY Statements DEF Flag
<1>2. SUFFICES ASSUME Flagger(c)' PROVE FlagsInTurn(c)'
  BY DEF FlagsInTurn
<1>3. OfRun(c) /\ pc'[c] \in Flagging \ {"reread"} /\ Aims(c) /\ Shape(c)
  BY <1>1, <1>2 DEF Flagger, OfRun, AimsInv, ShapeInv
<1>4. CASE Reread(c)
  <2>1. /\ Run(c)' = Run(c) /\ held'[c] = Run(c)
        /\ pc'[c] = IF Run(c).suggestion # None THEN "flag_suggestions" ELSE ToObservations(Run(c))
    BY <1>1, <1>4 DEF Reread, Goto, Run, tables
  <2> QED BY <2>1 DEF FlagsInTurn, Settled, ToObservations
<1>5. ASSUME Flagger(c), run' = run, held' = held
      PROVE  /\ Run(c)' = Run(c) /\ Run(c).observation \in Observations \cup {None}
             /\ Run(c).suggestion # None => /\ Run(c).suggestion \in Suggestions
                                            /\ suggestion[Run(c).suggestion] \in SuggestionRow
             /\ (pc[c] # "flag_suggestions" /\ Run(c).suggestion # None)
                  => suggestion[Run(c).suggestion].deleted = Flag(c)
             /\ held[c].observation = Run(c).observation \/ Settled(c)
             /\ Flag(c) \in BOOLEAN
  BY <1>1, <1>5, FlaggerKnows DEF FlagsInTurn, Run, RunRow, SuggestionTable, Flag
<1>6. CASE FlagSuggestions(c)
  <2>1. /\ Flagger(c) /\ run' = run /\ held' = held /\ observation' = observation
        /\ pc[c] = "flag_suggestions" /\ pc'[c] = ToObservations(held[c])
    BY <1>3, <1>6 DEF FlagSuggestions, Flagger, Flagging, OfRun, At, Goto
  <2>2. Settled(c)' <=> Settled(c)
    BY <1>1, <1>5, <2>1 DEF Settled
  <2>3. pc'[c] = "flag_run" => held[c].observation = None
    BY <2>1 DEF ToObservations
  <2>4. pc'[c] = "flag_run" => Settled(c)'
    BY <1>5, <2>1, <2>2, <2>3 DEF Settled
  <2>5. ASSUME Run(c).suggestion # None PROVE suggestion'[Run(c).suggestion].deleted = Flag(c)
    <3>1. Run(c).suggestion \in marked[c]
      BY <1>3, <2>1, <2>5 DEF Aims
    <3>2. suggestion'[Run(c).suggestion] = [suggestion[Run(c).suggestion] EXCEPT !.deleted = Flag(c)]
      BY <1>5, <1>6, <2>1, <2>5, <3>1, NullAssumption DEF FlagSuggestions
    <3> QED BY <1>5, <2>1, <2>5, <3>2 DEF SuggestionRow
  <2> QED BY <1>1, <1>5, <2>1, <2>2, <2>4, <2>5 DEF FlagsInTurn
<1>7. CASE ReadObservations(c)
  <2>1. /\ Flagger(c) /\ UNCHANGED <<run, suggestion, observation, held>>
        /\ pc[c] = "read_observations" /\ pc'[c] = "write_observations"
    BY <1>3, <1>7 DEF ReadObservations, Flagger, Flagging, At, Goto, tables
  <2>2. Settled(c)' <=> Settled(c)
    BY <1>1, <1>5, <2>1 DEF Settled
  <2> QED BY <1>1, <1>5, <2>1, <2>2 DEF FlagsInTurn
<1>8. CASE WriteObservations(c)
  <2>1. /\ Flagger(c) /\ UNCHANGED <<run, suggestion, held>>
        /\ pc[c] = "write_observations" /\ pc'[c] = "flag_run"
    BY <1>3, <1>8 DEF WriteObservations, Flagger, Flagging, OfRun, At, Goto
  <2>2. ASSUME NEW o \in Observations, o = Run(c).observation
        PROVE  observation'[o].deleted = Flag(c)
    <3>1. CASE copies[c][o] # NoRow
      <4>1. copies[c][o] \in ObservationRow
            /\ observation'[o] = [copies[c][o] EXCEPT !.deleted = Flag(c)]
        BY <1>8, <3>1 DEF WriteObservations, Flagged, ObservationTable
      <4> QED BY <1>5, <2>1, <4>1 DEF ObservationRow
    <3>2. CASE copies[c][o] = NoRow
      <4>1. o # held[c].observation
        BY <1>3, <2>1, <3>2 DEF Aims
      <4>2. observation'[o] = observation[o]
        BY <1>8, <3>2 DEF WriteObservations
      <4>3. observation[o].deleted = Flag(c)
        BY <1>5, <2>1, <2>2, <4>1, NullAssumption DEF Settled
      <4> QED BY <4>2, <4>3
    <3> QED BY <3>1, <3>2
  <2>3. Settled(c)'
    BY <1>1, <1>5, <2>1, <2>2 DEF Settled
  <2> QED BY <1>1, <1>5, <2>1, <2>3 DEF FlagsInTurn
<1>9. Reread(c) \/ FlagSuggestions(c) \/ ReadObservations(c) \/ WriteObservations(c)
  <2>1. \/ pc[c] \in {"reread", "flag_suggestions", "write_observations", "flag_runs"}
        \/ ReadObservations(c)
    BY <1>3, Order DEF Flagging, Reporting
  <2>2. pc[c] # "flag_runs"
    BY <1>3 DEF Shape, OfRun
  <2> QED BY <2>1, <2>2 DEF Step, At, ServeSuggestion, ServeObservation,
          InsertRun, FlagRun, FlagRuns, FlagExperiment, Write, Examine, Recheck, InsertObservation,
          NameObservation, InsertReported, Rewrite, Upsert, InsertCheckpoint
<1> QED BY <1>4, <1>6, <1>7, <1>8, <1>9

(* An update comes from its flag to its state, and then to look.           *)
LEMMA ComesOnward ==
  ASSUME TypeOK, NEW c \in Calls, Step(c), pc'[c] \in {"write", "examine"}
  PROVE  FlagRun(c) \/ Write(c)
<1> USE DEF TypeOK, Goto
<1>1. ~ServeSuggestion(c) /\ ~ServeObservation(c) /\ ~InsertRun(c)
  BY DEF ServeSuggestion, ServeObservation, InsertRun
<1>2. ~Reread(c) /\ ~FlagSuggestions(c)
  BY DEF Reread, FlagSuggestions, ToObservations
<1>3. ~ReadObservations(c) /\ ~WriteObservations(c)
  BY DEF ReadObservations, WriteObservations
<1>4. ~FlagRuns(c) /\ ~FlagExperiment(c) /\ ~Examine(c) /\ ~Recheck(c)
  BY DEF FlagRuns, FlagExperiment, Examine, Recheck
<1>5. /\ ~InsertObservation(c) /\ ~NameObservation(c) /\ ~InsertReported(c)
      /\ ~Rewrite(c) /\ ~Upsert(c) /\ ~InsertCheckpoint(c)
  BY DEF InsertObservation, NameObservation, InsertReported, Rewrite, Upsert, InsertCheckpoint
<1> QED BY <1>1, <1>2, <1>3, <1>4, <1>5 DEF Step

(* What an update reports when it comes to the next statement.             *)
LEMMA ReportsOwn ==
  ASSUME Ground, ~Disturbed, NEW c \in Calls, ReportsInUse(c), Step(c), [Next]_vars,
         \A r \in Runs : Matches(r)
  PROVE  ReportsInUse(c)'
<1> USE DEF Ground, Base, TypeOK
<1>1. req' = req /\ Shape(c) /\ Active(c) /\ (Flag(c)' = Flag(c))
  BY Statements DEF ShapeInv, Flag
<1>2. ASSUME pc'[c] \in {"write", "examine"}, req[c].deleted = TRUE PROVE run'[req[c].run].deleted
  <2>1. CASE FlagRun(c)
    <3>1. /\ req[c].run \in Runs /\ Run(c) \in RunRow /\ Flag(c)
          /\ run'[req[c].run] = [Run(c) EXCEPT !.deleted = Flag(c)]
      BY <1>1, <1>2, <2>1 DEF FlagRun, At, Shape, Looking, OfRun, Request, Run, RunTable, Flag
    <3> QED BY <3>1 DEF RunRow
  <2>2. CASE Write(c)
    <3>1. /\ pc[c] = "write" /\ req[c].run \in Runs /\ Run(c) \in RunRow /\ Run(c).deleted
          /\ run'[req[c].run] = [Run(c) EXCEPT !.state = req[c].state]
      BY <1>1, <1>2, <2>2 DEF Write, At, Shape, Looking, OfRun, Request, Run, RunTable, ReportsInUse
    <3> QED BY <3>1 DEF RunRow
  <2> QED BY <1>2, <2>1, <2>2, ComesOnward
<1>3. ASSUME pc'[c] = "recheck"
      PROVE  /\ req[c].deleted # TRUE
             /\ held'[c].suggestion # None /\ Alive(suggestion, held[c].suggestion)'
  <2>1. Examine(c) /\ pc[c] = "examine"
    BY <1>3, Order DEF Examine, At
  <2>2. Reportable(Run(c)) /\ held'[c] = Run(c) /\ suggestion' = suggestion
    BY <1>3, <2>1 DEF Examine, Goto, tables
  <2>3. /\ req[c].run \in Runs /\ Run(c) # NoRow /\ Is(c, "update")
    BY <1>1, <2>1, NullAssumption DEF Shape, Looking, OfRun, Request, Is
  <2>4. PICK e \in Calls : WillLook(e, req[c].run) /\ req[e].deleted # TRUE
    BY <2>2, <2>3 DEF Matches, IsLookedAt, Run
  <2>5. ASSUME req[c].deleted = TRUE PROVE FALSE
    <3>1. Active(e) /\ Is(e, "update") /\ e # c /\ Deletes(c)
      BY <2>3, <2>4, <2>5 DEF WillLook, Updates, Looking, Active, Ended, Deletes, Is
    <3> QED BY <1>1, <2>4, <3>1, Apart
  <2> QED BY <2>2, <2>5 DEF Reportable, Alive
<1>4. ASSUME pc'[c] = "insert_observation"
      PROVE  /\ req[c].deleted # TRUE
             /\ held'[c].suggestion # None /\ Alive(suggestion, held[c].suggestion)'
  <2>1. Recheck(c) /\ pc[c] \in Reporting /\ held' = held /\ suggestion' = suggestion
    BY <1>4, Order DEF Recheck, At, Reporting, locals, tables
  <2> QED BY <2>1 DEF ReportsInUse, Alive
<1>5. ASSUME pc'[c] = "name_observation"
      PROVE  /\ req[c].deleted # TRUE
             /\ held'[c].suggestion # None /\ Alive(suggestion, held[c].suggestion)'
             /\ Alive(observation, held[c].observation)'
  <2>1. InsertObservation(c) /\ pc[c] = "insert_observation"
    BY <1>5, Order DEF InsertObservation, At
  <2>2. held[c] \in RunRow /\ New(observation) \in Observations
    BY <1>1, <2>1, NewIsFree DEF InsertObservation, Insert, Shape, Reporting, ObservationTable
  <2>3. PICK o \in Observations : o = New(observation)
    BY <2>2
  <2>4. /\ held'[c] = [held[c] EXCEPT !.observation = o] /\ suggestion' = suggestion
        /\ observation'[o] = [suggestion |-> held[c].suggestion, deleted |-> FALSE, edits |-> {}]
    BY <2>1, <2>3 DEF InsertObservation, ObservationTable
  <2>5. held'[c].suggestion = held[c].suggestion /\ held'[c].observation = o
    BY <2>2, <2>4 DEF RunRow
  <2>6. observation'[o] \in ObservationRow
    BY <2>2, <2>4 DEF RunRow, ObservationRow
  <2>7. observation'[o] # NoRow
    BY <2>6, NullAssumption
  <2>8. ~observation'[o].deleted
    BY <2>4
  <2>9. /\ req[c].deleted # TRUE
        /\ held[c].suggestion # None /\ Alive(suggestion, held[c].suggestion)
    BY <2>1 DEF ReportsInUse, Reporting
  <2> QED BY <2>4, <2>5, <2>7, <2>8, <2>9 DEF Alive
<1> QED BY <1>1, <1>2, <1>3, <1>4, <1>5 DEF ReportsInUse, Reporting, Run

(* What the deletion of the experiment has flagged at its next statement.  *)
LEMMA SweepsOwn ==
  ASSUME Ground, NEW c \in Calls, SweepsInTurn(c), Step(c)
  PROVE  SweepsInTurn(c)'
<1> USE DEF Ground, Base, TypeOK
<1>1. SUFFICES ASSUME FlagsAll(c) PROVE SweepsInTurn(c)'
  BY Statements DEF SweepsInTurn, FlagsAll, Is
<1>2. Course(c)
  BY DEF CourseInv
<1>3. CASE FlagRuns(c) /\ pc'[c] = "flag_suggestions"
  <2>1. ASSUME NEW r \in Runs, run'[r] # NoRow PROVE run'[r].deleted
    <3>1. run[r] \in RunRow /\ run'[r] = [run[r] EXCEPT !.deleted = TRUE]
      BY <1>3, <2>1 DEF FlagRuns, RunTable
    <3> QED BY <3>1 DEF RunRow
  <2> QED BY <1>3, <2>1 DEF SweepsInTurn
<1>4. CASE FlagSuggestions(c) /\ pc'[c] = "read_observations"
  BY <1>1, <1>4 DEF FlagSuggestions, At, SweepsInTurn, Sweeping
<1>5. CASE ReadObservations(c) /\ pc'[c] = "write_observations"
  <2>1. ASSUME NEW o \in Observations, Alive(observation, o)' PROVE copies'[c][o] # NoRow
    <3>1. Alive(observation, o) /\ o \in ToCopy(c)
      BY <1>1, <1>5, <2>1 DEF ReadObservations, tables, Alive, ToCopy, FlagsAll, Is
    <3> QED BY <1>5, <3>1 DEF ReadObservations, Alive
  <2> QED BY <1>1, <1>5, <2>1 DEF ReadObservations, At, SweepsInTurn, Sweeping, tables
<1>6. CASE WriteObservations(c) /\ pc'[c] = "flag_experiment"
  BY <1>1, <1>6 DEF WriteObservations, At, SweepsInTurn, Sweeping
<1>7. CASE FlagExperiment(c) /\ pc'[c] = "done"
  BY <1>7 DEF SweepsInTurn, Sweeping
<1> QED BY <1>1, <1>2, <1>3, <1>4, <1>5, <1>6, <1>7, SweepMoves

(* What a call is to insert is new.                                        *)
LEMMA InsertsOwn ==
  ASSUME TypeOK, NEW c \in Calls, Step(c)
  PROVE  InsertsInUse(c)' /\ CopiesInUse(c)'
<1> USE DEF TypeOK
<1>1. CopiesInUse(c)'
  BY Order DEF CopiesInUse, Reporting
<1>2. SUFFICES ASSUME pc'[c] = "insert_run" PROVE InsertsInUse(c)'
  BY <1>1 DEF InsertsInUse
<1>3. ServeSuggestion(c) \/ ServeObservation(c)
  BY <1>2, Order DEF Step, At, InsertRun, Reread, FlagSuggestions, ReadObservations,
     WriteObservations, FlagRun, FlagRuns, FlagExperiment, Write, Examine, Recheck,
     InsertObservation, NameObservation, InsertReported, Rewrite, Upsert, InsertCheckpoint
<1>4. ASSUME NEW x \in Suggestions, Insert(suggestion, c, "suggestion"), x = New(suggestion),
             suggestion' = [suggestion EXCEPT ![x] = [deleted |-> FALSE, edits |-> {}]]
      PROVE  Alive(suggestion, x)'
  <2>1. suggestion'[x] = [deleted |-> FALSE, edits |-> {}]
    BY <1>4 DEF SuggestionTable
  <2>2. suggestion'[x] \in SuggestionRow
    BY <2>1 DEF SuggestionRow
  <2>3. suggestion'[x] # NoRow
    BY <2>2, NullAssumption
  <2> QED BY <2>1, <2>3 DEF Alive
<1>5. ASSUME NEW x \in Observations, Insert(observation, c, "observation"), x = New(observation),
             observation' = [observation EXCEPT ![x] = [suggestion |-> None, deleted |-> FALSE, edits |-> {}]]
      PROVE  Alive(observation, x)'
  <2>1. observation'[x] = [suggestion |-> None, deleted |-> FALSE, edits |-> {}]
    BY <1>5 DEF ObservationTable
  <2>2. observation'[x] \in ObservationRow
    BY <2>1 DEF ObservationRow
  <2>3. observation'[x] # NoRow
    BY <2>2, NullAssumption
  <2> QED BY <2>1, <2>3 DEF Alive
<1>6. CASE ServeSuggestion(c)
  <2>1. ~held'[c].deleted /\ held'[c].observation = None
    BY <1>6 DEF ServeSuggestion
  <2>2. CASE Insert(suggestion, c, "suggestion")
             /\ suggestion' = [suggestion EXCEPT ![New(suggestion)] = [deleted |-> FALSE, edits |-> {}]]
             /\ held' = [held EXCEPT ![c] = [suggestion |-> New(suggestion), observation |-> None,
                                            state |-> "active", deleted |-> FALSE]]
    <3>1. PICK s \in Suggestions : s = New(suggestion)
      BY <2>2, NewIsFree DEF Insert, SuggestionTable
    <3>2. Alive(suggestion, s)' /\ held'[c].suggestion = s
      BY <1>4, <2>2, <3>1
    <3> QED BY <2>1, <3>2 DEF InsertsInUse, Alive
  <2>3. CASE held'[c].suggestion = None
    BY <2>1, <2>3 DEF InsertsInUse
  <2>4. \/ held' = [held EXCEPT ![c] = [suggestion |-> None, observation |-> None,
                                        state |-> "active", deleted |-> FALSE]]
        \/ Insert(suggestion, c, "suggestion")
             /\ suggestion' = [suggestion EXCEPT ![New(suggestion)] = [deleted |-> FALSE, edits |-> {}]]
             /\ held' = [held EXCEPT ![c] = [suggestion |-> New(suggestion), observation |-> None,
                                            state |-> "active", deleted |-> FALSE]]
    BY <1>6 DEF ServeSuggestion
  <2> QED BY <2>2, <2>3, <2>4
<1>7. CASE ServeObservation(c)
  <2>1. ~held'[c].deleted /\ held'[c].suggestion = None
    BY <1>7 DEF ServeObservation
  <2>2. CASE Insert(observation, c, "observation")
             /\ observation' = [observation EXCEPT ![New(observation)] =
                                  [suggestion |-> None, deleted |-> FALSE, edits |-> {}]]
             /\ held' = [held EXCEPT ![c] = [suggestion |-> None, observation |-> New(observation),
                                            state |-> "completed", deleted |-> FALSE]]
    <3>1. PICK o \in Observations : o = New(observation)
      BY <2>2, NewIsFree DEF Insert, ObservationTable
    <3>2. Alive(observation, o)' /\ held'[c].observation = o
      BY <1>5, <2>2, <3>1
    <3> QED BY <2>1, <3>2 DEF InsertsInUse, Alive
  <2>3. CASE held'[c].observation = None
    BY <2>1, <2>3 DEF InsertsInUse
  <2>4. \/ held' = [held EXCEPT ![c] = [suggestion |-> None, observation |-> None,
                                        state |-> "completed", deleted |-> FALSE]]
        \/ Insert(observation, c, "observation")
             /\ observation' = [observation EXCEPT ![New(observation)] =
                                  [suggestion |-> None, deleted |-> FALSE, edits |-> {}]]
             /\ held' = [held EXCEPT ![c] = [suggestion |-> None, observation |-> New(observation),
                                            state |-> "completed", deleted |-> FALSE]]
    BY <1>7 DEF ServeObservation
  <2> QED BY <2>2, <2>3, <2>4
<1> QED BY <1>3, <1>6, <1>7

(* A call that moves on stays calm.                                        *)
LEMMA CalmSelf ==
  ASSUME Ground, ~Disturbed, NEW c \in Calls, Calm(c), Step(c), [Next]_vars,
         \A r \in Runs : Matches(r)
  PROVE  Calm(c)'
BY FlagsOwn, ReportsOwn, SweepsOwn, InsertsOwn DEF Calm, Ground, Base

(* A call that does nothing stays calm while the tables do not change.     *)
LEMMA CalmStays ==
  ASSUME NEW d \in Calls, SameLocals(d), UNCHANGED tables, Calm(d)
  PROVE  Calm(d)'
<1> USE DEF SameLocals, tables, Run, Alive
<1>1. FlagsInTurn(d)'
  BY DEF Calm, FlagsInTurn, Flagger, OfRun, Settled, Flag
<1>2. ReportsInUse(d)'
  BY DEF Calm, ReportsInUse
<1>3. SweepsInTurn(d)'
  BY DEF Calm, SweepsInTurn, FlagsAll, Is, Names
<1>4. InsertsInUse(d)' /\ CopiesInUse(d)'
  BY DEF Calm, InsertsInUse, CopiesInUse
<1> QED BY <1>1, <1>2, <1>3, <1>4 DEF Calm

(* An update that does not flag the run has found the flag as it asks.     *)
LEMMA UpdatesArrive ==
  ASSUME TypeOK, NEW c \in Calls, Arrive(c), pc'[c] \in {"write", "examine"},
         req'[c].deleted = TRUE
  PROVE  run[req'[c].run].deleted
<1> USE DEF TypeOK, Goto
<1>1. CASE BeginUpdate(c)
  <2>1. PICK q \in Asked(c) :
          Begin(c, q, IF FlagChanges(q, run[q.run]) THEN "reread" ELSE Onward(q))
    BY <1>1 DEF BeginUpdate
  <2>2. req'[c] = q /\ pc'[c] = IF FlagChanges(q, run[q.run]) THEN "reread" ELSE Onward(q)
    BY <2>1 DEF Begin
  <2>3. ~FlagChanges(q, run[q.run])
    BY <2>2
  <2> QED BY <2>2, <2>3, NullAssumption DEF FlagChanges
<1>2. ASSUME NEW q, NEW label, Begin(c, q, label) PROVE pc'[c] = label
  BY <1>2 DEF Begin
<1>3. CASE BeginCreate(c)
  BY <1>2, <1>3 DEF BeginCreate
<1>4. CASE BeginDelete(c) \/ BeginDeleteExperiment(c)
  BY <1>2, <1>4 DEF BeginDelete, BeginDeleteExperiment
<1>5. CASE BeginSuggestionUpdate(c) \/ BeginSuggestionsDelete(c)
  BY <1>2, <1>5 DEF BeginSuggestionUpdate, BeginSuggestionsDelete
<1>6. CASE BeginObservationUpdate(c) \/ BeginObservationsDelete(c) \/ BeginCheckpoint(c)
  BY <1>2, <1>6 DEF BeginObservationUpdate, BeginObservationsDelete, BeginCheckpoint
<1>7. CASE BeginRestoreExperiment(c) \/ BeginObservationCreate(c)
  BY <1>2, <1>7 DEF BeginRestoreExperiment, BeginObservationCreate
<1> QED BY <1>1, <1>3, <1>4, <1>5, <1>6, <1>7 DEF Arrive

(* A call that arrives is calm.                                            *)
LEMMA CalmArrives ==
  ASSUME TypeOK, NEW c \in Calls, Arrive(c)
  PROVE  Calm(c)'
<1>1. run' = run /\ suggestion' = suggestion /\ observation' = observation
  BY Arrivals DEF tables
<1>2. FlagsInTurn(c)'
  BY Arrivals DEF FlagsInTurn, Flagger, Flagging, OfRun, SuggestionDeletions, ObservationDeletions
<1>3. ReportsInUse(c)'
  <2>1. pc'[c] \notin Reporting
    BY Arrivals DEF Reporting, SuggestionDeletions, ObservationDeletions
  <2> QED BY <1>1, <2>1, UpdatesArrive DEF ReportsInUse, Run, Reporting
<1>4. SweepsInTurn(c)'
  BY Arrivals DEF SweepsInTurn, Sweeping, FlagsAll, Is, SuggestionDeletions, ObservationDeletions
<1>5. InsertsInUse(c)'
  BY Arrivals DEF InsertsInUse, SuggestionDeletions, ObservationDeletions
<1>6. CopiesInUse(c)'
  BY <1>1, Arrivals DEF CopiesInUse, Alive, SuggestionDeletions, ObservationDeletions
<1> QED BY <1>2, <1>3, <1>4, <1>5, <1>6 DEF Calm

(* Runs stay matched while the tables do not change and calls only arrive. *)
LEMMA MatchesStays ==
  ASSUME UNCHANGED tables, \A d \in Calls : pc[d] # "idle" => SameLocals(d),
         NEW r \in Runs, Matches(r)
  PROVE  Matches(r)'
<1> USE DEF SameLocals, tables
<1>1. SUFFICES ASSUME run[r] # NoRow
               PROVE  SuggestionMatches(r)' /\ ObservationMatches(r)' /\ IsLookedAt(r)'
  BY DEF Matches
<1>2. SuggestionMatches(r) /\ ObservationMatches(r) /\ IsLookedAt(r)
  BY <1>1 DEF Matches
<1>3. ASSUME NEW d \in Calls, Halfway(d, r) PROVE Halfway(d, r)'
  BY <1>3 DEF Halfway, OfRun
<1>4. ASSUME NEW d \in Calls, FlagsAll(d), pc[d] \in Sweeping
      PROVE  FlagsAll(d)' /\ pc'[d] = pc[d]
  BY <1>4 DEF FlagsAll, Is, Sweeping
<1>5. ASSUME NEW d \in Calls, WillLook(d, r) PROVE WillLook(d, r)' /\ req'[d] = req[d]
  BY <1>5 DEF WillLook, Updates, Is, Looking
<1>6. SuggestionMatches(r)'
  BY <1>2, <1>3, <1>4 DEF SuggestionMatches, Sweeping
<1>7. ObservationMatches(r)'
  BY <1>2, <1>3, <1>4 DEF ObservationMatches, Sweeping
<1>8. Reportable(run[r])' <=> Reportable(run[r])
  BY DEF Reportable, Alive
<1>9. IsLookedAt(r)'
  BY <1>2, <1>5, <1>8 DEF IsLookedAt
<1> QED BY <1>6, <1>7, <1>9

(* A row that a run names is there.                                        *)
LEMMA NamedRows ==
  ASSUME Ground, NEW r \in Runs, run[r] # NoRow
  PROVE  /\ run[r] \in RunRow
         /\ run[r].suggestion # None => /\ run[r].suggestion \in Suggestions
                                        /\ suggestion[run[r].suggestion] # NoRow
                                        /\ suggestion[run[r].suggestion] \in SuggestionRow
         /\ run[r].observation # None => /\ run[r].observation \in Observations
                                         /\ observation[run[r].observation] # NoRow
                                         /\ observation[run[r].observation] \in ObservationRow
<1>1. run[r] \in RunRow
  BY DEF Ground, Base, TypeOK, RunTable
<1>2. ASSUME run[r].suggestion # None
      PROVE  /\ run[r].suggestion \in Suggestions
             /\ suggestion[run[r].suggestion] # NoRow
             /\ suggestion[run[r].suggestion] \in SuggestionRow
  BY <1>1, <1>2 DEF Ground, OwnSuggestion, Base, TypeOK, RunRow, SuggestionTable
<1>3. ASSUME run[r].observation # None
      PROVE  /\ run[r].observation \in Observations
             /\ observation[run[r].observation] # NoRow
             /\ observation[run[r].observation] \in ObservationRow
  <2>1. run[r].observation \in Observations
    BY <1>1, <1>3 DEF RunRow
  <2>2. observation[run[r].observation] # NoRow
    BY <2>1 DEF Ground, OwnObservation, Names
  <2> QED BY <2>1, <2>2 DEF Ground, Base, TypeOK, ObservationTable
<1> QED BY <1>1, <1>2, <1>3

(* A call halfway through a run goes on, unless it flags the run.          *)
LEMMA HalfwayOn ==
  ASSUME TypeOK, NEW c \in Calls, Step(c), NEW e \in Calls, NEW r \in Runs, Halfway(e, r)
  PROVE  Halfway(e, r)' \/ (e = c /\ FlagRun(c))
<1> USE DEF TypeOK, Goto, At
<1>1. CASE e # c
  BY <1>1, Statements DEF SameLocals, Halfway, OfRun
<1>2. CASE e = c
  <2>1. ReadObservations(c) \/ WriteObservations(c) \/ FlagRun(c)
    BY <1>2 DEF Halfway, Step, ServeSuggestion, ServeObservation, InsertRun, Reread,
       FlagSuggestions, FlagRuns, FlagExperiment, Write, Examine, Recheck, InsertObservation,
       NameObservation, InsertReported, Rewrite, Upsert, InsertCheckpoint
  <2>2. req' = req /\ OfRun(c) /\ req[c].run = r
    BY <1>2, Statements DEF Halfway
  <2>3. ReadObservations(c) => pc'[c] = "write_observations"
    BY DEF ReadObservations
  <2>4. WriteObservations(c) => pc'[c] = "flag_run"
    BY <2>2 DEF WriteObservations, OfRun
  <2> QED BY <1>2, <2>1, <2>2, <2>3, <2>4 DEF Halfway, OfRun
<1> QED BY <1>1, <1>2

(* A run that is flagged has the flag of its suggestion and observation,   *)
(* or all runs are flagged and what belongs to them is to follow.          *)
LEMMA FlaggedLast ==
  ASSUME Ground, NEW c \in Calls, FlagsInTurn(c), Step(c), NEW r \in Runs,
         run[r] # NoRow, run'[r].deleted # run[r].deleted \/ (FlagRun(c) /\ req[c].run = r)
  PROVE  \/ /\ FlagsAll(c)' /\ pc'[c] = "flag_suggestions"
         \/ /\ run[r].suggestion # None
                 => suggestion'[run[r].suggestion].deleted = run'[r].deleted
            /\ run[r].observation # None
                 => observation'[run[r].observation].deleted = run'[r].deleted
<1> USE DEF Ground, Base, TypeOK
<1>1. CASE FlagRuns(c) /\ pc[c] = "flag_runs" /\ req[c].kind = "deleteexp"
  <2>1. FlagsAll(c)
    BY <1>1 DEF PurposeInv, Purpose, Flagging, Deletes, Restores, Is, FlagsAll,
       SuggestionDeletions, ObservationDeletions
  <2> QED BY <1>1, <2>1, Statements DEF FlagRuns, Goto, FlagsAll, Is
<1>2. CASE FlagRun(c) /\ req[c].run = r
  <2>1. /\ pc[c] = "flag_run" /\ OfRun(c) /\ Run(c) = run[r]
        /\ UNCHANGED <<suggestion, observation>>
    BY <1>2 DEF FlagRun, At, ShapeInv, Shape, Run
  <2>2. run[r] \in RunRow
    BY NamedRows
  <2>3. run'[r] = [run[r] EXCEPT !.deleted = Flag(c)]
    BY <1>2, <2>2 DEF FlagRun, RunTable
  <2>4. run'[r].deleted = Flag(c)
    BY <2>2, <2>3 DEF RunRow
  <2>5. Flagger(c)
    BY <2>1 DEF Flagger, Flagging
  <2> QED BY <2>1, <2>4, <2>5 DEF FlagsInTurn, Settled
<1> QED BY <1>1, <1>2, RunFlagged

(* A run that is inserted is in use, and so is what it names.              *)
LEMMA InsertedInUse ==
  ASSUME Ground, NEW c \in Calls, InsertsInUse(c), Step(c), NEW r \in Runs,
         run[r] = NoRow, run'[r] # NoRow
  PROVE  /\ run'[r] \in RunRow /\ run'[r].deleted = FALSE
         /\ suggestion' = suggestion /\ observation' = observation
         /\ run'[r].suggestion # None =>
              /\ suggestion[run'[r].suggestion].deleted = FALSE
              /\ run'[r].state = "active"
         /\ run'[r].observation # None => observation[run'[r].observation].deleted = FALSE
<1> USE DEF Ground, Base, TypeOK
<1>1. InsertRun(c) /\ run'[r] = held[c]
  BY RunWritten, NullAssumption
<1>2. /\ pc[c] = "insert_run" /\ held[c] \in RunRow /\ Shape(c)
      /\ suggestion' = suggestion /\ observation' = observation
  BY <1>1 DEF InsertRun, At, ShapeInv, Shape
<1>3. held[c].deleted = FALSE
  BY <1>2 DEF InsertsInUse, RunRow
<1>4. held[c].suggestion # None
        => suggestion[held[c].suggestion].deleted = FALSE /\ held[c].state = "active"
  <2>1. SUFFICES ASSUME held[c].suggestion # None
                 PROVE  suggestion[held[c].suggestion].deleted = FALSE /\ held[c].state = "active"
    OBVIOUS
  <2>2. held[c].suggestion \in Suggestions /\ Alive(suggestion, held[c].suggestion)
    BY <1>2, <2>1 DEF InsertsInUse, RunRow
  <2>3. suggestion[held[c].suggestion] \in SuggestionRow
    BY <2>2 DEF Alive, SuggestionTable
  <2> QED BY <1>2, <2>1, <2>2, <2>3 DEF Alive, SuggestionRow, Shape
<1>5. held[c].observation # None => observation[held[c].observation].deleted = FALSE
  <2>1. SUFFICES ASSUME held[c].observation # None
                 PROVE  observation[held[c].observation].deleted = FALSE
    OBVIOUS
  <2>2. held[c].observation \in Observations /\ Alive(observation, held[c].observation)
    BY <1>2, <2>1 DEF InsertsInUse, RunRow
  <2>3. observation[held[c].observation] \in ObservationRow
    BY <2>2 DEF Alive, ObservationTable
  <2> QED BY <2>2, <2>3 DEF Alive, ObservationRow
<1> QED BY <1>1, <1>2, <1>3, <1>4, <1>5

(* A suggestion that differs from its run is halfway through.              *)
LEMMA SuggestionMatchStep ==
  ASSUME Ground, ~Disturbed, NEW c \in Calls, Calm(c), Step(c), [Next]_vars,
         NEW r \in Runs, Matches(r), run'[r] # NoRow
  PROVE  SuggestionMatches(r)'
<1> USE DEF Ground, Base, TypeOK
<1> SUFFICES ASSUME run'[r].suggestion # None,
                    suggestion'[run'[r].suggestion].deleted # run'[r].deleted
             PROVE  \E e \in Calls : Halfway(e, r)' \/ (FlagsAll(e)' /\ pc'[e] = "flag_suggestions")
  BY DEF SuggestionMatches
<1>1. run[r] # NoRow
  BY InsertedInUse DEF Calm
<1>2. PICK s \in Suggestions : /\ s = run[r].suggestion /\ run'[r].suggestion = s
                               /\ suggestion[s] \in SuggestionRow /\ suggestion[s] # NoRow
  BY <1>1, NamedRows, RunsStay
<1>3. suggestion'[s].deleted # run'[r].deleted /\ run[r].suggestion # None
  BY <1>2
<1>4. CASE run'[r].deleted # run[r].deleted \/ (FlagRun(c) /\ req[c].run = r)
  BY <1>1, <1>2, <1>3, <1>4, FlaggedLast DEF Calm
<1>5. ASSUME FlagSuggestions(c), FlagsAll(c) PROVE suggestion'[s].deleted = run'[r].deleted
  <2>1. pc[c] = "flag_suggestions" /\ run' = run /\ marked[c] = Suggestions /\ Flag(c)
    BY <1>5 DEF FlagSuggestions, At, CourseInv, Course, Flag, FlagsAll, Is
  <2>2. suggestion'[s] = [suggestion[s] EXCEPT !.deleted = Flag(c)]
    BY <1>2, <1>5, <2>1 DEF FlagSuggestions
  <2>3. suggestion'[s].deleted = TRUE
    BY <1>2, <2>1, <2>2 DEF SuggestionRow, Flag
  <2>4. run[r] \in RunRow /\ run[r].deleted
    BY <1>1, <1>5, <2>1, NamedRows DEF Calm, SweepsInTurn, Sweeping
  <2> QED BY <2>1, <2>3, <2>4 DEF RunRow
<1>6. CASE suggestion'[s].deleted # suggestion[s].deleted
  <2>1. FlagSuggestions(c) /\ pc[c] = "flag_suggestions" /\ s \in marked[c]
    BY <1>2, <1>6, SuggestionFlagged
  <2>2. OfRun(c) /\ req[c].run \in Runs
    BY <1>3, <1>5, <2>1, FlaggersAre DEF Flagging
  <2>3. Run(c).suggestion = s /\ Run(c) # NoRow
    BY <2>1, <2>2 DEF ShapeInv, Shape, Looking
  <2>4. req[c].run = r
    BY <1>1, <1>2, <1>3, <2>2, <2>3 DEF OwnSuggestion, Run
  <2>5. req' = req /\ pc'[c] = ToObservations(held[c])
    BY <2>1, <2>2 DEF FlagSuggestions, Goto, OfRun
  <2> QED BY <2>2, <2>4, <2>5 DEF Halfway, OfRun, ToObservations
<1>7. CASE /\ suggestion'[s].deleted = suggestion[s].deleted /\ run'[r].deleted = run[r].deleted
           /\ ~(FlagRun(c) /\ req[c].run = r)
  <2>1. PICK e \in Calls : Halfway(e, r) \/ (FlagsAll(e) /\ pc[e] = "flag_suggestions")
    BY <1>1, <1>2, <1>3, <1>7 DEF Matches, SuggestionMatches
  <2>2. CASE Halfway(e, r)
    BY <1>7, <2>2, HalfwayOn DEF Halfway
  <2>3. CASE FlagsAll(e) /\ pc[e] = "flag_suggestions" /\ e # c
    BY <2>3, Statements DEF SameLocals, FlagsAll, Is
  <2>4. CASE FlagsAll(e) /\ pc[e] = "flag_suggestions" /\ e = c
    <3>1. FlagSuggestions(c)
      BY <2>4, SweepMoves DEF CourseInv, FlagRuns, ReadObservations, WriteObservations,
         FlagExperiment, At
    <3> QED BY <1>3, <1>5, <2>4, <3>1
  <2> QED BY <2>1, <2>2, <2>3, <2>4
<1> QED BY <1>4, <1>6, <1>7

(* So is an observation that differs from its run.                         *)
LEMMA ObservationMatchStep ==
  ASSUME Ground, ~Disturbed, NEW c \in Calls, Calm(c), Step(c), [Next]_vars,
         NEW r \in Runs, Matches(r), run'[r] # NoRow
  PROVE  ObservationMatches(r)'
<1> USE DEF Ground, Base, TypeOK
<1> DEFINE Sweeps(e) == FlagsAll(e) /\ pc[e] \in Sweeping \ {"flag_runs", "flag_experiment"}
<1> SUFFICES ASSUME run'[r].observation # None,
                    observation'[run'[r].observation].deleted # run'[r].deleted
             PROVE  \E e \in Calls : Halfway(e, r)' \/ Sweeps(e)'
  BY DEF ObservationMatches
<1>1. run[r] # NoRow
  BY InsertedInUse DEF Calm
<1>2. run[r] \in RunRow /\ run'[r] \in RunRow
  <2>1. TypeOK'
    BY TypeStep
  <2> QED BY <1>1, <2>1, NamedRows DEF RunTable
<1>3. CASE run'[r].observation # run[r].observation
  <2>1. NameObservation(c) /\ r = req[c].run /\ run'[r] = [run[r] EXCEPT !.observation = held[c].observation]
    <3>1. /\ \A b : [run[r] EXCEPT !.deleted = b].observation = run[r].observation
          /\ \A b : [run[r] EXCEPT !.state = b].observation = run[r].observation
      BY <1>2 DEF RunRow
    <3>2. \/ run'[r] = [run[r] EXCEPT !.deleted = Flag(c)]
          \/ run'[r] = [run[r] EXCEPT !.deleted = TRUE]
          \/ run'[r] = [run[r] EXCEPT !.state = req[c].state]
          \/ /\ NameObservation(c) /\ r = req[c].run
             /\ run'[r] = [run[r] EXCEPT !.observation = held[c].observation]
      BY <1>1, <1>3, RunWritten
    <3> QED BY <1>3, <3>1, <3>2
  <2>2. /\ pc[c] = "name_observation" /\ pc[c] \in Reporting /\ held[c] \in RunRow
        /\ observation' = observation
    BY <2>1 DEF NameObservation, At, ShapeInv, Shape, Reporting
  <2>3. run'[r].observation = held[c].observation /\ run'[r].deleted = run[r].deleted
    BY <1>2, <2>1 DEF RunRow
  <2>4. /\ Is(c, "update") /\ req[c].deleted # TRUE /\ Active(c)
        /\ Alive(suggestion, held[c].suggestion) /\ held[c].suggestion # None
        /\ Alive(observation, held[c].observation)
    BY <2>2, NullAssumption DEF Calm, ReportsInUse, ShapeInv, Shape, Is, Active, Ended
  <2>5. held[c].observation \in Observations
    BY <1>2, <2>3 DEF RunRow
  <2>6. observation[held[c].observation].deleted = FALSE
    BY <2>4, <2>5 DEF Alive, ObservationTable, ObservationRow
  <2>7. run[r].deleted = TRUE
    BY <1>2, <2>2, <2>3, <2>6 DEF RunRow
  <2>8. run[r].suggestion = held[c].suggestion
    BY <2>1, <2>2 DEF ShapeInv, Shape, Run
  <2>9. PICK e \in Calls : Halfway(e, r) \/ (FlagsAll(e) /\ pc[e] = "flag_suggestions")
    BY <1>1, <2>4, <2>7, <2>8 DEF Matches, SuggestionMatches, Alive
  <2>10. CASE Halfway(e, r)
    BY <2>2, <2>10, HalfwayOn DEF FlagRun, At
  <2>11. CASE FlagsAll(e) /\ pc[e] = "flag_suggestions"
    <3>1. Active(e) /\ Deletes(e) /\ e # c
      BY <2>2, <2>11 DEF Active, Ended, Deletes
    <3> QED BY <2>4, <3>1, Apart
  <2> QED BY <2>9, <2>10, <2>11
<1>4. CASE run'[r].observation = run[r].observation
  <2>1. PICK o \in Observations : /\ o = run[r].observation /\ run'[r].observation = o
                                  /\ observation[o] \in ObservationRow /\ observation[o] # NoRow
    BY <1>1, <1>4, NamedRows
  <2>2. observation'[o].deleted # run'[r].deleted /\ run[r].observation # None
    BY <1>4, <2>1
  <2>3. CASE run'[r].deleted # run[r].deleted \/ (FlagRun(c) /\ req[c].run = r)
    <3>1. FlagsAll(c)' /\ pc'[c] = "flag_suggestions"
      BY <1>1, <2>1, <2>2, <2>3, FlaggedLast DEF Calm
    <3> QED BY <3>1 DEF Sweeping
  <2>4. ASSUME WriteObservations(c), FlagsAll(c) PROVE observation'[o].deleted = run'[r].deleted
    <3>1. pc[c] = "write_observations" /\ run' = run /\ Flag(c) = TRUE
      BY <2>4 DEF WriteObservations, At, Flag, FlagsAll, Is
    <3>2. run[r].deleted = TRUE
      BY <1>1, <1>2, <2>4, <3>1 DEF Calm, SweepsInTurn, Sweeping, RunRow
    <3>3. CASE copies[c][o] # NoRow
      <4>1. copies[c][o] \in ObservationRow
            /\ observation'[o] = [copies[c][o] EXCEPT !.deleted = Flag(c)]
        BY <2>4, <3>3 DEF WriteObservations, Flagged, ObservationTable
      <4> QED BY <3>1, <3>2, <4>1 DEF ObservationRow
    <3>4. CASE copies[c][o] = NoRow
      <4>1. observation'[o] = observation[o]
        BY <2>4, <3>4 DEF WriteObservations
      <4>2. ~Alive(observation, o)
        BY <1>1, <2>1, <2>4, <3>1, <3>4 DEF Calm, SweepsInTurn, Names
      <4> QED BY <2>1, <3>1, <3>2, <4>1, <4>2 DEF Alive, ObservationRow
    <3> QED BY <3>3, <3>4
  <2>5. CASE observation'[o].deleted # observation[o].deleted
    <3>1. WriteObservations(c) /\ pc[c] = "write_observations" /\ copies[c][o] # NoRow
      BY <2>1, <2>5, ObservationFlagged
    <3>2. OfRun(c) /\ req[c].run \in Runs
      BY <2>2, <2>4, <3>1, FlaggersAre DEF Flagging
    <3>3. Carries(c, o)
      BY <3>1, <3>2 DEF AimsInv, Aims, Flagger, Flagging, Carries
    <3>4. req[c].run = r
      BY <1>1, <2>1, <3>3 DEF OwnObservation, Names
    <3>5. req' = req /\ pc'[c] = "flag_run"
      BY <3>1, <3>2 DEF WriteObservations, Goto, OfRun
    <3> QED BY <3>2, <3>4, <3>5 DEF Halfway, OfRun
  <2>6. CASE /\ observation'[o].deleted = observation[o].deleted /\ run'[r].deleted = run[r].deleted
             /\ ~(FlagRun(c) /\ req[c].run = r)
    <3>1. PICK e \in Calls : Halfway(e, r) \/ Sweeps(e)
      BY <1>1, <2>1, <2>2, <2>6 DEF Matches, ObservationMatches
    <3>2. CASE Halfway(e, r)
      BY <2>6, <3>2, HalfwayOn DEF Halfway
    <3>3. CASE Sweeps(e) /\ e # c
      BY <3>3, Statements DEF SameLocals, FlagsAll, Is
    <3>4. CASE Sweeps(e) /\ e = c
      <4>1. FlagsAll(c)' /\ ~WriteObservations(c)
        BY <2>2, <2>4, <3>4, Statements DEF FlagsAll, Is
      <4>2. pc'[c] \in {"read_observations", "write_observations"}
        BY <3>4, <4>1, SweepMoves DEF CourseInv, FlagRuns, FlagExperiment, At
      <4> QED BY <4>1, <4>2 DEF Sweeping
    <3> QED BY <3>1, <3>2, <3>3, <3>4
  <2> QED BY <2>3, <2>5, <2>6
<1> QED BY <1>3, <1>4

(* A run that is to be reported is looked at by an update that does not    *)
(* delete it.                                                              *)
LEMMA LookedAtStep ==
  ASSUME Ground, ~Disturbed, ~Disturbed', NEW c \in Calls, Calm(c), Step(c), [Next]_vars,
         NEW r \in Runs, Matches(r), run'[r] # NoRow
  PROVE  IsLookedAt(r)'
<1> USE DEF Ground, Base, TypeOK
<1> SUFFICES ASSUME Reportable(run[r])'
             PROVE  \E e \in Calls : WillLook(e, r)' /\ req'[e].deleted # TRUE
  BY DEF IsLookedAt
<1>1. /\ run'[r].state = "completed" /\ run'[r].observation = None
      /\ run'[r].suggestion # None /\ Alive(suggestion', run'[r].suggestion)
  BY DEF Reportable, Alive
<1>2. run[r] # NoRow
  BY <1>1, InsertedInUse DEF Calm
<1>3. PICK s \in Suggestions : /\ s = run[r].suggestion /\ run'[r].suggestion = s
                               /\ suggestion[s] \in SuggestionRow /\ suggestion[s] # NoRow
  BY <1>1, <1>2, NamedRows, RunsStay
<1>4. run[r] \in RunRow /\ run[r].suggestion # None
  BY <1>1, <1>2, <1>3, NamedRows
<1>5. req' = req /\ Active(c)
  BY Statements
<1>6. CASE Reportable(run[r])
  <2>1. PICK e \in Calls : WillLook(e, r) /\ req[e].deleted # TRUE
    BY <1>2, <1>6 DEF Matches, IsLookedAt
  <2>2. ToReport(r)'
    BY DEF ToReport
  <2>3. WillLook(e, r)' \/ pc'[e] = "dead"
    BY <2>1, <2>2, LooksOn
  <2> QED BY <1>5, <2>1, <2>3 DEF Disturbed
<1>7. CASE run'[r] = run[r] /\ ~Reportable(run[r])
  <2>1. suggestion'[s].deleted # suggestion[s].deleted /\ ~suggestion'[s].deleted
    BY <1>1, <1>3, <1>7 DEF Reportable, Alive
  <2>2. /\ FlagSuggestions(c) /\ pc[c] = "flag_suggestions" /\ s \in marked[c]
        /\ suggestion'[s].deleted = Flag(c)
    BY <1>3, <2>1, SuggestionFlagged
  <2>3. Restores(c) /\ OfRun(c) /\ req[c].run \in Runs
    BY <2>1, <2>2, FlaggersAre DEF Flagging
  <2>4. Run(c).suggestion = s /\ Run(c) # NoRow
    BY <2>2, <2>3 DEF ShapeInv, Shape, Looking
  <2>5. req[c].run = r
    BY <1>2, <1>3, <1>4, <2>3, <2>4 DEF OwnSuggestion, Run
  <2>6. pc'[c] = ToObservations(held[c])
    BY <2>2, <2>3 DEF FlagSuggestions, Goto, OfRun
  <2>7. WillLook(c, r)'
    BY <1>5, <2>3, <2>5, <2>6 DEF WillLook, Updates, Restores, Is, Looking, ToObservations
  <2>8. req[c].deleted # TRUE
    BY <2>3 DEF Restores
  <2> QED BY <1>5, <2>7, <2>8
<1>8. CASE run'[r] # run[r] /\ ~Reportable(run[r])
  <2>1. CASE \/ FlagRun(c) /\ run'[r] = [run[r] EXCEPT !.deleted = Flag(c)]
             \/ FlagRuns(c) /\ run'[r] = [run[r] EXCEPT !.deleted = TRUE]
    <3>1. run'[r].state = run[r].state /\ run'[r].observation = run[r].observation
      BY <1>4, <2>1 DEF RunRow
    <3>2. suggestion' = suggestion
      BY <2>1 DEF FlagRun, FlagRuns
    <3> QED BY <1>1, <1>3, <1>8, <3>1, <3>2 DEF Reportable, Alive
  <2>2. CASE NameObservation(c) /\ run'[r] = [run[r] EXCEPT !.observation = held[c].observation]
    <3>1. held[c].observation # None
      BY <2>2 DEF NameObservation, At, ShapeInv, Shape
    <3> QED BY <1>1, <1>4, <2>2, <3>1 DEF RunRow
  <2>3. CASE Write(c) /\ r = req[c].run
    <3>1. pc[c] = "write" /\ pc'[c] = "examine" /\ suggestion' = suggestion
      BY <2>3 DEF Write, At, Goto
    <3>2. Is(c, "update") /\ req[c].state # None
      BY <3>1, NullAssumption DEF ShapeInv, Shape, Is
    <3>3. WillLook(c, r)'
      BY <1>5, <2>3, <3>1, <3>2 DEF WillLook, Updates, Is, Looking
    <3>4. ASSUME req[c].deleted = TRUE PROVE FALSE
      <4>1. run[r].deleted /\ Deletes(c)
        BY <2>3, <3>1, <3>2, <3>4 DEF Calm, ReportsInUse, Run, Deletes, Is
      <4>2. ~suggestion[s].deleted
        BY <1>1, <1>3, <3>1 DEF Alive
      <4>3. PICK e \in Calls : Halfway(e, r) \/ (FlagsAll(e) /\ pc[e] = "flag_suggestions")
        BY <1>2, <1>3, <1>4, <4>1, <4>2 DEF Matches, SuggestionMatches
      <4>4. pc[e] \in Flagging /\ e # c
        BY <3>1, <4>3 DEF Halfway, Flagging
      <4>5. Active(e) /\ (Deletes(e) \/ Restores(e))
        BY <4>4, FlaggersAre
      <4> QED BY <1>5, <3>2, <4>1, <4>4, <4>5, Apart
    <3> QED BY <1>5, <3>3, <3>4
  <2> QED BY <1>2, <1>8, <2>1, <2>2, <2>3, RunWritten
<1> QED BY <1>6, <1>7, <1>8

(* While nothing disturbs, every step leaves the calls calm and the runs   *)
(* matched.                                                                *)
LEMMA TogetherStep ==
  ASSUME Ground, TogetherInv, [Next]_vars
  PROVE  TogetherInv'
<1> SUFFICES ASSUME ~Disturbed'
             PROVE  (\A c \in Calls : Calm(c)') /\ (\A r \in Runs : Matches(r)')
  BY DEF TogetherInv
<1>1. Base /\ TypeOK
  BY DEF Ground, Base
<1>2. ~Disturbed
  BY <1>1, DisturbedStays
<1>3. (\A c \in Calls : Calm(c)) /\ (\A r \in Runs : Matches(r))
  BY <1>2 DEF TogetherInv
<1>4. ASSUME NEW c \in Calls, Step(c)
      PROVE  (\A d \in Calls : Calm(d)') /\ (\A r \in Runs : Matches(r)')
  <2>1. Calm(c)'
    BY <1>2, <1>3, <1>4, CalmSelf
  <2>2. \A d \in Calls : d # c => Calm(d)'
    BY <1>2, <1>3, <1>4, CalmOthers
  <2>3. ASSUME NEW r \in Runs, run'[r] # NoRow
        PROVE  SuggestionMatches(r)' /\ ObservationMatches(r)' /\ IsLookedAt(r)'
    BY <1>2, <1>3, <1>4, <2>3, SuggestionMatchStep, ObservationMatchStep, LookedAtStep
  <2> QED BY <2>1, <2>2, <2>3 DEF Matches
<1>5. ASSUME NEW c \in Calls, Arrive(c)
      PROVE  (\A d \in Calls : Calm(d)') /\ (\A r \in Runs : Matches(r)')
  <2>1. pc[c] = "idle" /\ UNCHANGED tables /\ \A d \in Calls \ {c} : SameLocals(d)
    BY <1>1, <1>5, Arrivals
  <2>2. Calm(c)'
    BY <1>1, <1>5, CalmArrives
  <2>3. \A d \in Calls : d # c => Calm(d)'
    BY <1>3, <2>1, CalmStays
  <2>4. \A r \in Runs : Matches(r)'
    BY <1>3, <2>1, MatchesStays
  <2> QED BY <2>2, <2>3, <2>4
<1>6. ASSUME NEW c \in Calls PROVE ~Crash(c)
  BY <1>1 DEF Crash, Goto, Disturbed, TypeOK
<1>7. CASE UNCHANGED vars
  <2>1. UNCHANGED tables /\ \A d \in Calls : SameLocals(d)
    BY <1>7 DEF vars, locals, SameLocals
  <2>2. \A d \in Calls : Calm(d)'
    BY <1>3, <2>1, CalmStays
  <2>3. \A r \in Runs : Matches(r)'
    BY <1>3, <2>1, MatchesStays
  <2> QED BY <2>2, <2>3
<1> QED BY <1>4, <1>5, <1>6, <1>7 DEF Next

(* The invariants that this stands on.                                     *)
LEMMA GroundStep == Ground /\ [Next]_vars => Ground'
BY BaseStep, CopyStep, OwnStep, CourseStep, OwnObservationStep, AimsStep DEF Ground, Base

(* They hold at the start.                                                 *)
LEMMA TogetherInit == Init => Ground /\ TogetherInv
<1> SUFFICES ASSUME Init PROVE Ground /\ TogetherInv
  OBVIOUS
<1>1. PICK t \in InitialStates :
        run = t.run /\ suggestion = t.suggestion /\ observation = t.observation
  BY DEF Init
<1>2. \A c \in Calls : pc[c] = "idle" /\ held[c] = NoRow
  BY DEF Init
<1>3. Base /\ CopyInv /\ OwnSuggestion
  BY BaseInit, CopyInit, InitReport
<1>4. CourseInv /\ AimsInv
  BY DEF Init, CourseInv, Course, Creating, FlagsAll, Is, AimsInv, Aims, Flagger, Flagging
<1>5. OwnObservation
  <2>1. \A o \in Observations, r \in Runs : Names(r, o) => observation[o] # NoRow
    BY <1>1, StartAssumption, NullAssumption DEF Names
  <2>2. \A o \in Observations, r, s \in Runs : (Names(r, o) /\ Names(s, o)) => r = s
    BY <1>1, TogetherAssumption, NullAssumption DEF Names
  <2> QED BY <1>2, <2>1, <2>2 DEF OwnObservation, Carries
<1>6. \A c \in Calls : Calm(c)
  BY <1>2 DEF Calm, FlagsInTurn, Flagger, Flagging, ReportsInUse, Reporting, SweepsInTurn, Sweeping,
     InsertsInUse, CopiesInUse
<1>7. ASSUME NEW r \in Runs, run[r] # NoRow
      PROVE  SuggestionMatches(r) /\ ObservationMatches(r) /\ IsLookedAt(r)
  <2>1. SuggestionMatches(r)
    BY <1>1, <1>7, TogetherAssumption DEF SuggestionMatches
  <2>2. ObservationMatches(r)
    BY <1>1, <1>7, TogetherAssumption DEF ObservationMatches
  <2>3. ~Reportable(run[r])
    BY <1>1, <1>7, StartAssumption DEF Reportable
  <2> QED BY <2>1, <2>2, <2>3 DEF IsLookedAt
<1> QED BY <1>3, <1>4, <1>5, <1>6, <1>7 DEF Ground, TogetherInv, Matches

(* A run, its suggestion and its observation are deleted together: their   *)
(* flags agree whenever no call is under way, unless a row was deleted on  *)
(* its own, a process died, or a deletion met a call that restores,        *)
(* creates or writes back rows.                                            *)
THEOREM RunsDeletedTogether == Spec => []DeletedTogether
<1> DEFINE IInv == Ground /\ TogetherInv
<1>1. Init => IInv
  BY TogetherInit
<1>2. IInv /\ [Next]_vars => IInv'
  BY GroundStep, TogetherStep
<1>3. IInv => DeletedTogether
  <2>1. SUFFICES ASSUME IInv, ~Disturbed, \A c \in Calls : ~Active(c), NEW r \in Runs, run[r] # NoRow
                 PROVE  /\ run[r].suggestion # None
                             => suggestion[run[r].suggestion].deleted = run[r].deleted
                        /\ run[r].observation # None
                             => observation[run[r].observation].deleted = run[r].deleted
    BY DEF DeletedTogether
  <2>2. SuggestionMatches(r) /\ ObservationMatches(r)
    BY <2>1 DEF TogetherInv, Matches
  <2>3. ASSUME NEW c \in Calls
        PROVE  ~Halfway(c, r) /\ pc[c] \notin Sweeping
    BY <2>1 DEF Active, Ended, Halfway, Sweeping
  <2> QED BY <2>2, <2>3 DEF SuggestionMatches, ObservationMatches, Sweeping
<1> QED BY <1>1, <1>2, <1>3, PTL DEF Spec
=============================================================================

----------------------------- MODULE UploadProofs -----------------------------
(***************************************************************************)
(* Theorems about Upload for every number of runs, length of the source    *)
(* and window, checked by TLAPS.  The argument is IInv: one lemma for each *)
(* kind of step, and in it one step for each conjunct.                     *)
(***************************************************************************)
EXTENDS Upload, SequenceTheorems, TLAPS

Calls == [run : Nat, step : Steps, done : BOOLEAN, lost : BOOLEAN,
          size : 0 .. MaxLen, sent : 0 .. MaxLen, failed : BOOLEAN,
          cmd : {"none", "sent", "ok", "bad"}]

Items == {"header", "data", "zero", "eof"}

Answers == {"ok", "error"}

Receivers == [step : {"hello", "header", "data", "status", "end", "gone"},
              got : Nat, good : BOOLEAN, answers : Seq(Answers), wire : Seq(Items)]

\* The conjuncts of TypeOK with the two records named.
LEMMA Types ==
  TypeOK <=>
    /\ call \in Calls
    /\ open \subseteq Parts /\ cleanup \subseteq Parts
    /\ late \subseteq Runs \X {"dialing", "open"}
    /\ scp \in Receivers
    /\ orphans \subseteq Commands \X Runs
    /\ tmp \in [Runs -> {NoFile} \cup Nat]
    /\ dest \in [by : {0} \cup Runs, len : Nat, dir : BOOLEAN]
    /\ inside \in [Runs -> {NoFile} \cup Nat]
    /\ ends \in [Runs -> NoFile .. MaxLen]
    /\ moved \subseteq Runs /\ refused \subseteq Runs /\ result \in [Runs -> {"", "ok", "failed"}]
BY DEF TypeOK, Calls, Receivers, Items, Answers

\* A call that is not over is one of a run.
LEMMA TheRun ==
  ASSUME TypeOK, CallOfARun
  PROVE  /\ call.run \in Nat /\ call.run <= MaxRuns
         /\ (~At("over") \/ call.failed) => call.run \in Runs
<1>1. call.run \in Nat
  <2>1. call \in Calls
    BY Types
  <2> QED
    BY <2>1 DEF Calls
<1>2. call.run <= MaxRuns /\ (call.run = 0 => At("over") /\ ~call.failed)
  BY DEF CallOfARun
<1> QED
  BY <1>1, <1>2, BoundAssumption DEF Runs

\* A new record of a call that has sent nothing.
LEMMA NewCall ==
  ASSUME NEW run \in Nat, NEW step \in Steps, NEW done \in BOOLEAN, NEW lost \in BOOLEAN,
         NEW size \in 0 .. MaxLen, NEW failed \in BOOLEAN
  PROVE  [run |-> run, step |-> step, done |-> done, lost |-> lost,
          size |-> size, sent |-> 0, cmd |-> "none", failed |-> failed] \in Calls
<1>1. 0 \in 0 .. MaxLen
  BY BoundAssumption
<1> QED
  BY <1>1 DEF Calls

----------------------------------------------------------------------------
(* What happens to a call from outside. *)

\* A dial that nobody waits for, and the keepalives.
Beside ==
    \/ \E n \in Runs : LateDial(n) \/ LateClose(n)
    \/ startKeepalives \/ UNCHANGED vars

LEMMA BesideIInv ==
  ASSUME IInv, Beside
  PROVE  IInv'
<1> USE DEF IInv
<1>1. UNCHANGED <<call, cleanup, ends, result, scp, orphans, tmp, dest, inside, moved, refused>>
  <2>1. CASE \E n \in Runs : LateDial(n) \/ LateClose(n)
    BY <2>1 DEF LateDial, LateClose, remote, files
  <2>2. CASE startKeepalives
    BY <2>2 DEF startKeepalives, remote, files
  <2>3. CASE UNCHANGED vars
    BY <2>3 DEF vars
  <2> QED
    BY <2>1, <2>2, <2>3 DEF Beside
<1>2. TypeOK'
  <2>1. late' \subseteq Runs \X {"dialing", "open"}
    <3>0. late \subseteq Runs \X {"dialing", "open"}
      BY Types
    <3>1. CASE \E n \in Runs : LateDial(n) \/ LateClose(n)
      BY <3>0, <3>1 DEF LateDial, LateClose
    <3>2. CASE late' = late
      BY <3>0, <3>2
    <3> QED
      BY <3>1, <3>2 DEF Beside, startKeepalives, vars
  <2>2. open' \subseteq open
    BY DEF TypeOK, Beside, LateDial, LateClose, startKeepalives, vars, Closing,
           closeAll
  <2> QED
    BY <1>1, <2>1, <2>2 DEF TypeOK
<1>3. OpenIsKnown'
  <2>1. open' \subseteq open
    BY DEF Beside, LateDial, LateClose, startKeepalives, vars, Closing, closeAll
  <2> QED
    BY <1>1, <2>1 DEF OpenIsKnown, InHand, At
<1>4. CallOfARun' /\ OrphansAreCutOff' /\ NothingEarly' /\ InStep'
  BY <1>1 DEF CallOfARun, OrphansAreCutOff, NothingEarly, InStep, At
<1>5. /\ WrittenIsReceived' /\ SizeIsEnd' /\ MovedIsWhole' /\ TellsTruth'
      /\ PublishedIsWhole' /\ ResultIsTrue'
  BY <1>1 DEF WrittenIsReceived, SizeIsEnd, MovedIsWhole, TellsTruth, PublishedIsWhole,
              ResultIsTrue, Arrived, At
<1> QED
  BY <1>2, <1>3, <1>4, <1>5

\* The time is up, or the connection breaks: the call is cut off.
CutOff == Cancel \/ Break

LEMMA CutOffIInv ==
  ASSUME IInv, CutOff
  PROVE  IInv'
<1> USE DEF IInv
<1>1. /\ UNCHANGED <<open, cleanup, late, ends, result>>
      /\ UNCHANGED <<scp, orphans, tmp, dest, inside, moved, refused>>
      /\ ~At("over")
  BY DEF CutOff, Cancel, Break, local, remote, files, At, UploadSteps
<1>2. /\ call' \in Calls
      /\ call'.run = call.run /\ call'.step = call.step /\ call'.size = call.size
      /\ call'.sent = call.sent /\ call'.cmd = call.cmd /\ call'.failed = call.failed
      /\ (call.done => call'.done) /\ (call.lost => call'.lost)
      /\ call'.done \/ call'.lost
  <2>1. call \in Calls
    BY Types
  <2>2. CASE Cancel
    BY <2>1, <2>2 DEF Cancel, Calls
  <2>3. CASE Break
    BY <2>1, <2>3 DEF Break, Calls
  <2> QED
    BY <2>2, <2>3 DEF CutOff
<1> HIDE DEF IInv
<1>3. TypeOK'
  <2>1. TypeOK
    BY DEF IInv
  <2> QED
    BY <1>1, <1>2, <2>1 DEF TypeOK, Calls
<1> USE DEF IInv
<1>4. CallOfARun' /\ OrphansAreCutOff' /\ NothingEarly' /\ InStep'
  BY <1>1, <1>2 DEF CallOfARun, OrphansAreCutOff, NothingEarly, InStep, At
<1>5. OpenIsKnown' /\ WrittenIsReceived' /\ SizeIsEnd' /\ MovedIsWhole'
  BY <1>1, <1>2
     DEF OpenIsKnown, InHand, WrittenIsReceived, SizeIsEnd, MovedIsWhole, At
<1>6. TellsTruth' /\ PublishedIsWhole' /\ ResultIsTrue'
  BY <1>1, <1>2 DEF TellsTruth, PublishedIsWhole, ResultIsTrue, Arrived, At
<1> QED
  BY <1>3, <1>4, <1>5, <1>6

----------------------------------------------------------------------------
(* Commands. *)

\* What mv makes of the file of run n, whatever the destination names.
Published(n) == dest'.by = n /\ dest'.len = tmp[n] /\ tmp[n] # NoFile /\ ~dest.dir

PutInside(n) == inside'[n] = tmp[n] /\ tmp[n] # NoFile /\ dest.dir

\* What may have changed when a command has been executed, or has failed.
Executed(c, n) ==
    /\ tmp' \in [Runs -> {NoFile} \cup Nat] /\ inside' \in [Runs -> {NoFile} \cup Nat]
    /\ dest' \in [by : {0} \cup Runs, len : Nat, dir : BOOLEAN] /\ dest'.dir = dest.dir
    /\ moved' \subseteq Runs /\ moved \subseteq moved'
    /\ \A m \in Runs : /\ tmp'[m] \in {tmp[m], NoFile}
                       /\ m # n => /\ tmp'[m] = tmp[m] /\ inside'[m] = inside[m]
                                   /\ m \in moved' <=> m \in moved
    /\ dest' = dest \/ (c = "mv" /\ Published(n))
    /\ inside' = inside \/ (c = "mv" /\ PutInside(n))
    /\ \A m \in Runs : Arrived(m) => Arrived(m)'
    /\ c # "mv" => moved' = moved /\ inside' = inside

\* What the command is there for.
Effect(c, n) == (c = "mv" => Arrived(n)') /\ (c = "rm" => tmp'[n] = NoFile)

\* A command changes the files of its own run only, and only mv publishes.
LEMMA ExecutesFacts ==
  ASSUME TypeOK, NEW c \in Commands, NEW n \in Runs,
         Executes(c, n) \/ UNCHANGED <<tmp, dest, inside, moved>>
  PROVE  Executed(c, n) /\ (Executes(c, n) => Effect(c, n))
<1>1. /\ tmp \in [Runs -> {NoFile} \cup Nat] /\ inside \in [Runs -> {NoFile} \cup Nat]
      /\ dest \in [by : {0} \cup Runs, len : Nat, dir : BOOLEAN] /\ moved \subseteq Runs
  BY Types
<1>2. CASE UNCHANGED <<tmp, dest, inside, moved>> /\ (c = "mkdir" \/ ~Executes(c, n))
  BY <1>1, <1>2 DEF Executed, Effect, Published, PutInside, Arrived
<1>3. CASE c = "rm" /\ tmp' = [tmp EXCEPT ![n] = NoFile] /\ UNCHANGED <<dest, inside, moved>>
  BY <1>1, <1>3 DEF Executed, Effect, Published, PutInside, Arrived
<1>4. CASE /\ c = "mv" /\ tmp[n] # NoFile /\ tmp' = [tmp EXCEPT ![n] = NoFile]
           /\ Executes(c, n)
  <2>1. tmp[n] \in Nat
    BY <1>1, <1>4
  <2>2. CASE /\ ~dest.dir /\ dest' = [by |-> n, len |-> tmp[n], dir |-> FALSE]
             /\ moved' = moved \cup {n} /\ UNCHANGED inside
    BY <1>1, <1>4, <2>1, <2>2 DEF Executed, Effect, Published, PutInside, Arrived
  <2>3. CASE /\ dest.dir /\ inside' = [inside EXCEPT ![n] = tmp[n]]
             /\ UNCHANGED <<dest, moved>>
    BY <1>1, <1>4, <2>1, <2>3 DEF Executed, Effect, Published, PutInside, Arrived
  <2> QED
    BY <1>4, <2>2, <2>3 DEF Executes
<1> QED
  BY <1>2, <1>3, <1>4 DEF Executes

\* What Upload makes of the end of a command.
LEMMA ResultFacts ==
  ASSUME TypeOK, NEW ok \in BOOLEAN, Result(ok)
  PROVE  /\ call' \in Calls
         /\ call'.run = call.run /\ call'.done = call.done /\ call'.lost = call.lost
         /\ call'.size = call.size /\ call'.sent = call.sent /\ call'.cmd = "none"
         /\ call'.failed = (call.failed \/ ~ok)
         /\ call'.step = CASE At("mkdir") /\ ok -> "session"
                           [] At("mv") /\ ~ok /\ ~call.done -> "rm"
                           [] OTHER -> "close"
<1> DEFINE next == CASE At("mkdir") /\ ok -> "session"
                     [] At("mv") /\ ~ok /\ ~call.done -> "rm"
                     [] OTHER -> "close"
<1>1. call \in Calls /\ next \in Steps
  <2>1. next \in {"session", "rm", "close"}
    OBVIOUS
  <2> QED
    BY <2>1, Types DEF Steps, UploadSteps
<1>2. call' = [call EXCEPT !.cmd = "none", !.step = next, !.failed = @ \/ ~ok]
  BY DEF Result
<1> HIDE DEF next
<1>3. call' \in Calls /\ call'.step = next
  BY <1>1, <1>2 DEF Calls
<1> QED
  BY <1>1, <1>2, <1>3 DEF Calls, next

LEMMA SendIInv ==
  ASSUME IInv, Send
  PROVE  IInv'
<1> USE DEF IInv
<1>1. /\ UNCHANGED <<open, cleanup, late, ends, result>>
      /\ UNCHANGED <<scp, orphans, tmp, dest, inside, moved, refused>>
      /\ call.step \in Commands /\ call.cmd = "none"
  BY DEF Send, local, remote, files
<1>2. /\ call' \in Calls
      /\ call'.run = call.run /\ call'.step = call.step /\ call'.size = call.size
      /\ call'.sent = call.sent /\ call'.failed = call.failed
      /\ call'.done = call.done /\ call'.lost = call.lost
      /\ call'.cmd = IF call.lost THEN "bad" ELSE "sent"
  <2>1. call \in Calls
    BY Types
  <2> QED
    BY <2>1 DEF Send, Calls
<1>3. TypeOK'
  BY <1>1, <1>2 DEF TypeOK, Calls
<1>4. CallOfARun' /\ OrphansAreCutOff' /\ NothingEarly' /\ InStep'
  BY <1>1, <1>2 DEF CallOfARun, OrphansAreCutOff, NothingEarly, InStep, At
<1>5. OpenIsKnown' /\ WrittenIsReceived' /\ SizeIsEnd' /\ MovedIsWhole'
  BY <1>1, <1>2
     DEF OpenIsKnown, InHand, WrittenIsReceived, SizeIsEnd, MovedIsWhole, At
<1>6. TellsTruth' /\ PublishedIsWhole' /\ ResultIsTrue'
  BY <1>1, <1>2 DEF TellsTruth, PublishedIsWhole, ResultIsTrue, Arrived, At
<1> QED
  BY <1>3, <1>4, <1>5, <1>6

LEMMA ExecuteIInv ==
  ASSUME IInv, Execute
  PROVE  IInv'
<1> USE DEF IInv
<1>1. /\ UNCHANGED <<open, cleanup, late, ends, result, scp, orphans>>
      /\ call.step \in Commands /\ call.cmd = "sent" /\ call.run \in Runs
      /\ call.step \notin Sending
  BY TheRun DEF Execute, local, CallOfARun, Commands, At, Sending
<1>2. /\ call' \in Calls
      /\ call'.run = call.run /\ call'.step = call.step /\ call'.size = call.size
      /\ call'.sent = call.sent /\ call'.failed = call.failed
      /\ call'.done = call.done /\ call'.lost = call.lost
      /\ \/ call'.cmd = "ok" /\ Executes(call.step, call.run) /\ refused' = refused
         \/ /\ call'.cmd = "bad" /\ UNCHANGED <<tmp, dest, inside, moved>>
            /\ refused' = IF At("rm") THEN refused \cup {call.run} ELSE refused
  <2>1. call \in Calls
    BY Types
  <2> QED
    BY <2>1 DEF Execute, Calls, At
<1>3. Executed(call.step, call.run) /\ (call'.cmd = "ok" => Effect(call.step, call.run))
  BY <1>1, <1>2, ExecutesFacts
<1>4. TypeOK'
  <2>1. refused' \subseteq Runs
    <3>1. refused \subseteq Runs
      BY Types
    <3>2. refused' \subseteq refused \cup {call.run}
      BY <1>2
    <3> HIDE DEF IInv
    <3> QED
      BY <1>1, <3>1, <3>2
  <2> QED
    BY <1>1, <1>2, <1>3, <2>1 DEF TypeOK, Calls, Executed
<1>5. CallOfARun' /\ OrphansAreCutOff' /\ OpenIsKnown' /\ InStep'
  BY <1>1, <1>2 DEF CallOfARun, OrphansAreCutOff, OpenIsKnown, InHand, InStep, At
<1>6. NothingEarly'
  <2> SUFFICES ASSUME NEW n \in Runs,
                      n > call.run \/ (n = call.run /\ call.step \notin Ending \cup {"mv"})
               PROVE  n \notin moved' /\ dest'.by # n /\ inside'[n] = NoFile /\ tmp'[n] = NoFile
    BY <1>1, <1>2 DEF NothingEarly, At, Ending
  <2>1. n \notin moved /\ dest.by # n /\ inside[n] = NoFile /\ tmp[n] = NoFile
    BY <1>1 DEF NothingEarly
  <2>2. n # call.run \/ ~At("mv")
    BY TheRun DEF At
  <2> QED
    BY <1>3, <2>1, <2>2 DEF Executed, Published, At
<1>7. WrittenIsReceived' /\ SizeIsEnd' /\ MovedIsWhole'
  BY <1>1, <1>2, <1>3 DEF WrittenIsReceived, SizeIsEnd, MovedIsWhole, Executed, At
<1>8. TellsTruth'
  <2>1. At("mv") => ~Arrived(call.run)
    BY <1>1 DEF TellsTruth
  <2>2. call.step # "close" /\ (At("mkdir") \/ At("mv") \/ At("rm"))
    BY <1>1 DEF Commands, At
  <2>3. At("mv") => (Arrived(call.run)' <=> call'.cmd = "ok")
    <3>1. call'.cmd = "bad" => (Arrived(call.run)' <=> Arrived(call.run))
      BY <1>1, <1>2 DEF Arrived
    <3> QED
      BY <1>2, <1>3, <2>1, <3>1 DEF Effect, At
  <2>4. ASSUME At("rm"), call.failed, ~call.done, ~call.lost
        PROVE  ~Arrived(call.run)' /\ (tmp'[call.run] = NoFile \/ call.run \in refused')
    <3>1. ~Arrived(call.run)
      BY <2>4 DEF TellsTruth, Ending, At
    <3>2. moved' = moved /\ inside' = inside /\ dest'.dir = dest.dir
      BY <1>3, <2>4 DEF Executed, At
    <3>3. ~Arrived(call.run)'
      BY <1>2, <3>1, <3>2 DEF Arrived
    <3> QED
      BY <1>2, <1>3, <2>4, <3>3 DEF Effect, At
  <2> QED
    BY <1>2, <2>2, <2>3, <2>4 DEF TellsTruth, At, Ending
<1>9. PublishedIsWhole'
  <2>1. dest'.by # 0 => dest'.len = ends'[dest'.by]
    <3>1. CASE dest' = dest
      BY <1>1, <3>1 DEF PublishedIsWhole
    <3>2. CASE At("mv") /\ Published(call.run)
      BY <1>1, <3>2 DEF MovedIsWhole, Published
    <3> QED
      BY <1>3, <3>1, <3>2 DEF Executed, At
  <2>2. \A n \in Runs : inside'[n] \in {NoFile, ends'[n]}
    <3>1. CASE inside' = inside
      BY <1>1, <3>1 DEF PublishedIsWhole
    <3>2. CASE At("mv") /\ PutInside(call.run)
      BY <1>1, <1>3, <3>2 DEF MovedIsWhole, PutInside, PublishedIsWhole, Executed
    <3> QED
      BY <1>3, <3>1, <3>2 DEF Executed, At
  <2> QED
    BY <2>1, <2>2 DEF PublishedIsWhole
<1>10. ResultIsTrue'
  BY <1>1, <1>2, <1>3 DEF ResultIsTrue, Executed, At, Commands
<1> QED
  BY <1>4, <1>5, <1>6, <1>7, <1>8, <1>9, <1>10

\* The end of a command: the caller goes on, whether there is a reply or not.
LEMMA EndOfCommandIInv ==
  ASSUME IInv, Reply \/ GiveUp
  PROVE  IInv'
<1> USE DEF IInv
<1>1. /\ UNCHANGED <<open, cleanup, late, ends, result>>
      /\ UNCHANGED <<scp, tmp, dest, inside, moved, refused>>
      /\ call.cmd # "none" /\ call.step \in Commands /\ call.run \in Runs
      /\ call.step \notin Sending
  BY TheRun DEF Reply, GiveUp, local, remote, files, CallOfARun, Commands, At, Sending
<1>2. PICK ok \in BOOLEAN :
        /\ Result(ok)
        /\ ok => call.cmd = "ok"
        /\ ~ok => call.cmd = "bad" \/ call.done \/ call.lost
        /\ orphans' = orphans
             \/ (~ok /\ (call.done \/ call.lost)
                 /\ orphans' = orphans \cup {<<call.step, call.run>>})
  <2>1. CASE Reply
    BY <2>1 DEF Reply, local, remote, files
  <2>2. CASE GiveUp
    BY <2>2 DEF GiveUp
  <2> QED
    BY <2>1, <2>2
<1>3. /\ call' \in Calls
      /\ call'.run = call.run /\ call'.done = call.done /\ call'.lost = call.lost
      /\ call'.size = call.size /\ call'.sent = call.sent /\ call'.cmd = "none"
      /\ call'.failed = (call.failed \/ ~ok)
      /\ call'.step = CASE At("mkdir") /\ ok -> "session"
                        [] At("mv") /\ ~ok /\ ~call.done -> "rm"
                        [] OTHER -> "close"
  BY <1>2, ResultFacts
<1>4. /\ At("mkdir") \/ At("mv") \/ At("rm")
      /\ call'.step = "session" => At("mkdir") /\ ok
      /\ call'.step = "rm" => At("mv") /\ ~ok /\ ~call.done
      /\ call'.step \in {"session", "rm", "close"}
      /\ call'.step = "close" => (At("mkdir") => ~ok) /\ (At("mv") => ok \/ call.done)
  BY <1>1, <1>3 DEF Commands, At
<1>5. TypeOK'
  <2>1. orphans' \subseteq Commands \X Runs
    <3>1. orphans \subseteq Commands \X Runs /\ <<call.step, call.run>> \in Commands \X Runs
      BY <1>1, Types
    <3> QED
      BY <1>2, <3>1
  <2> QED
    BY <1>1, <1>3, <2>1 DEF TypeOK, Calls
<1>6. CallOfARun' /\ OpenIsKnown' /\ InStep'
  BY <1>1, <1>3, <1>4
     DEF CallOfARun, OpenIsKnown, InHand, InStep, At, NewSteps, UploadSteps, Sending, Commands
<1>7. OrphansAreCutOff'
  BY <1>1, <1>2, <1>3, <1>4 DEF OrphansAreCutOff, Ending, At
<1>8. NothingEarly'
  BY <1>1, <1>3, <1>4 DEF NothingEarly, Ending, Sending, At
<1>9. WrittenIsReceived' /\ SizeIsEnd'
  BY <1>1, <1>3, <1>4 DEF WrittenIsReceived, SizeIsEnd, Sending, At
<1>10. MovedIsWhole'
  BY <1>1, <1>2, <1>3, <1>4 DEF MovedIsWhole, At
<1>11. TellsTruth'
  <2>1. Arrived(call.run)' <=> Arrived(call.run)
    BY <1>1, <1>3 DEF Arrived
  <2>2. CASE At("mkdir")
    <3>1. ~Arrived(call.run) /\ tmp[call.run] = NoFile
      BY <1>1, <2>2 DEF NothingEarly, Arrived, Ending, Sending, At
    <3>2. call'.step = "close" => call'.failed
      BY <1>3, <1>4, <2>2
    <3> QED
      BY <1>1, <1>3, <1>4, <2>1, <2>2, <3>1, <3>2 DEF TellsTruth, At
  <2>3. CASE At("mv")
    <3>1. Arrived(call.run) <=> call.cmd = "ok"
      BY <2>3 DEF TellsTruth
    <3>2. ok => Arrived(call.run) /\ call'.failed = FALSE
      BY <1>2, <1>3, <2>3, <3>1 DEF CallOfARun, UploadSteps, At
    <3>3. ~ok /\ ~call.done /\ ~call.lost => ~Arrived(call.run) /\ call'.step = "rm"
      BY <1>2, <1>3, <2>3, <3>1 DEF At
    <3>4. ~ok => call'.failed
      BY <1>3
    <3> QED
      BY <1>1, <1>3, <1>4, <2>1, <2>3, <3>2, <3>3, <3>4 DEF TellsTruth, At
  <2>4. CASE At("rm")
    <3>1. call'.step = "close" /\ call'.failed /\ call.failed
      BY <1>3, <2>4 DEF CallOfARun, At
    <3>2. ~call.done /\ ~call.lost =>
            ~Arrived(call.run) /\ (tmp[call.run] = NoFile \/ call.run \in refused)
      <4>1. ~call.done /\ ~call.lost => call.cmd \in {"ok", "bad"}
        BY <1>2
      <4> QED
        BY <1>1, <2>4, <3>1, <4>1 DEF TellsTruth, Ending, At
    <3> QED
      BY <1>1, <1>3, <2>1, <3>1, <3>2 DEF TellsTruth, At
  <2> QED
    BY <1>4, <2>2, <2>3, <2>4
<1>12. PublishedIsWhole' /\ ResultIsTrue'
  BY <1>1, <1>3, <1>4 DEF PublishedIsWhole, ResultIsTrue, Arrived, At
<1> QED
  BY <1>5, <1>6, <1>7, <1>8, <1>9, <1>10, <1>11, <1>12

\* A command nobody waits for acts on the files of a run that was cut off.
LEMMA OrphanIInv ==
  ASSUME IInv, NEW c \in Commands, NEW n \in Runs, Orphan(c, n)
  PROVE  IInv'
<1> USE DEF IInv
<1>1. /\ UNCHANGED <<call, open, cleanup, late, ends, result, scp, refused>>
      /\ <<c, n>> \in orphans /\ orphans' = orphans \ {<<c, n>>}
      /\ Executes(c, n) \/ UNCHANGED <<tmp, dest, inside, moved>>
  BY DEF Orphan, local
<1>2. Executed(c, n)
  BY <1>1, ExecutesFacts
<1>3. \/ n < call.run
      \/ n = call.run /\ call.step \in Ending /\ (call.done \/ call.lost)
  BY <1>1 DEF OrphansAreCutOff
<1>4. call.run \in Nat /\ n \in Nat
  BY TheRun DEF Runs
<1>5. TypeOK'
  BY <1>1, <1>2 DEF TypeOK, Executed
<1>6. CallOfARun' /\ OrphansAreCutOff' /\ OpenIsKnown' /\ InStep' /\ SizeIsEnd'
  BY <1>1 DEF CallOfARun, OrphansAreCutOff, OpenIsKnown, InHand, InStep, SizeIsEnd, At
<1>7. NothingEarly'
  BY <1>1, <1>2, <1>3, <1>4 DEF NothingEarly, Executed, Published, PutInside, At
<1>8. WrittenIsReceived'
  BY <1>1, <1>2, <1>3, <1>4, TheRun DEF WrittenIsReceived, Sending, Ending, Executed, At
<1>9. MovedIsWhole'
  BY <1>1, <1>2 DEF MovedIsWhole, Executed, At
<1>10. n # call.run => (Arrived(call.run)' <=> Arrived(call.run))
  <2>1. call.run \in Runs \/ call.run = 0
    BY <1>4, TheRun DEF Runs
  <2> QED
    BY <1>1, <1>2, <1>4, <2>1, <1>3, TheRun DEF Arrived, Executed, Runs
<1>11. TellsTruth'
  BY <1>1, <1>2, <1>3, <1>4, <1>10, TheRun DEF TellsTruth, Ending, Executed, At
<1>12. PublishedIsWhole'
  <2>1. dest'.by # 0 => dest'.len = ends'[dest'.by]
    BY <1>1, <1>2 DEF PublishedIsWhole, MovedIsWhole, Executed, Published
  <2>2. \A m \in Runs : inside'[m] \in {NoFile, ends'[m]}
    BY <1>1, <1>2 DEF PublishedIsWhole, MovedIsWhole, Executed, PutInside
  <2> QED
    BY <2>1, <2>2 DEF PublishedIsWhole
<1>13. ResultIsTrue'
  BY <1>1, <1>2, <1>3, <1>4, <1>10, TheRun DEF ResultIsTrue, Ending, Executed, At
<1> QED
  BY <1>5, <1>6, <1>7, <1>8, <1>9, <1>11, <1>12, <1>13

----------------------------------------------------------------------------
(* Connecting, and the end of a call. *)

LEMMA BeginIInv ==
  ASSUME IInv, Begin
  PROVE  IInv'
<1> USE DEF IInv
<1>1. /\ UNCHANGED <<open, cleanup, late, ends, result, scp,
                     orphans, tmp, dest, inside, moved, refused>>
      /\ At("over") /\ call.run < MaxRuns
  BY DEF Begin, local, remote, files
<1>2. call.run \in Nat /\ MaxRuns \in Nat
  BY TheRun, BoundAssumption
<1>3. /\ call' \in Calls
      /\ call'.run = call.run + 1 /\ call'.step = "targetConfig"
      /\ call'.cmd = "none" /\ call'.failed = FALSE
  <2>1. PICK length \in 0 .. MaxLen :
          call' = [NoCall EXCEPT !.run = call.run + 1, !.step = "targetConfig",
                                 !.size = length]
    BY DEF Begin
  <2>2. 0 \in 0 .. MaxLen /\ "targetConfig" \in Steps
    BY BoundAssumption DEF Steps, NewSteps
  <2>3. call' = [run |-> call.run + 1, step |-> "targetConfig",
                 done |-> FALSE, lost |-> FALSE, size |-> length, sent |-> 0,
                 cmd |-> "none", failed |-> FALSE]
    BY <2>1 DEF NoCall
  <2>4. call' \in Calls
    <3>1. call.run + 1 \in Nat /\ "targetConfig" \in Steps /\ FALSE \in BOOLEAN
      BY <1>2, <2>2
    <3> HIDE DEF IInv
    <3> QED
      BY <2>3, <3>1, NewCall, Zenon
  <2>5. /\ call'.run = call.run + 1 /\ call'.step = "targetConfig"
        /\ call'.cmd = "none" /\ call'.failed = FALSE
    BY <2>3
  <2> QED
    BY <2>1, <2>4, <2>5
<1>4. TypeOK'
  BY <1>1, <1>3 DEF TypeOK, Calls
<1>5. CallOfARun'
  BY <1>1, <1>2, <1>3 DEF CallOfARun, At
<1>6. OpenIsKnown'
  BY <1>1, <1>3 DEF OpenIsKnown, InHand, At, UploadSteps
<1>7. OrphansAreCutOff'
  <2> SUFFICES ASSUME NEW o \in orphans PROVE o[2] < call.run + 1
    BY <1>1, <1>3 DEF OrphansAreCutOff
  <2>1. o[2] < call.run \/ o[2] = call.run
    BY DEF OrphansAreCutOff
  <2>2. o[2] \in Nat
    <3>1. orphans \subseteq Commands \X Runs
      BY Types
    <3> QED
      BY <3>1 DEF Runs
  <2> QED
    BY <1>2, <2>1, <2>2
<1>8. NothingEarly'
  <2> SUFFICES ASSUME NEW n \in Runs, n > call.run + 1 \/ n = call.run + 1
               PROVE  n \notin moved /\ dest.by # n /\ inside[n] = NoFile /\ tmp[n] = NoFile
    BY <1>1, <1>3 DEF NothingEarly, At
  <2>1. n > call.run
    BY <1>2 DEF Runs
  <2> QED
    BY <2>1 DEF NothingEarly
<1>9. InStep' /\ WrittenIsReceived' /\ SizeIsEnd'
  BY <1>1, <1>3 DEF InStep, WrittenIsReceived, SizeIsEnd, Sending, At
<1>10. MovedIsWhole'
  BY <1>1, <1>3 DEF MovedIsWhole, At
<1>11. TellsTruth' /\ PublishedIsWhole' /\ ResultIsTrue'
  BY <1>1, <1>3 DEF TellsTruth, PublishedIsWhole, ResultIsTrue, Arrived, Ending, At
<1> QED
  BY <1>4, <1>5, <1>6, <1>7, <1>8, <1>9, <1>10, <1>11

\* A call returns with everything closed.
LEMMA ReturnIInv ==
  ASSUME IInv, NEW outcome \in {"ok", "failed"}, Return(outcome),
         call.step \in NewSteps \cup {"close"},
         outcome = "ok" => At("close") /\ ~call.failed,
         outcome = "failed" /\ At("close") => call.failed,
         open' = {}, late' \subseteq Runs \X {"dialing", "open"},
         UNCHANGED <<ends, scp, orphans, tmp, dest, inside, moved, refused>>
  PROVE  IInv'
<1> USE DEF IInv
<1>1. call.run \in Runs /\ call.step # "over" /\ call.step \notin Sending
  BY TheRun DEF At, NewSteps, Sending
<1>2. /\ call' \in Calls
      /\ call'.run = call.run /\ call'.step = "over" /\ call'.cmd = "none"
      /\ call'.done = call.done /\ call'.lost = call.lost
      /\ call'.failed = (outcome = "failed")
  <2>1. call \in Calls
    BY Types
  <2>0. 0 \in 0 .. MaxLen
    BY BoundAssumption
  <2>2. call' = [run |-> call.run, step |-> "over",
                 done |-> call.done, lost |-> call.lost, size |-> 0, sent |-> 0,
                 cmd |-> "none", failed |-> outcome = "failed"]
    BY DEF Return, NoCall
  <2>3. "over" \in Steps
    BY DEF Steps
  <2>4. call' \in Calls
    <3>1. call.run \in Nat /\ call.done \in BOOLEAN /\ call.lost \in BOOLEAN
      BY <2>1 DEF Calls
    <3>2. (outcome = "failed") \in BOOLEAN
      OBVIOUS
    <3> QED
      BY <2>0, <2>2, <2>3, <3>1, <3>2, NewCall, Zenon
  <2>5. /\ call'.run = call.run /\ call'.step = "over" /\ call'.cmd = "none"
        /\ call'.done = call.done /\ call'.lost = call.lost
        /\ call'.failed = (outcome = "failed")
    BY <2>2
  <2> QED
    BY <2>4, <2>5
<1>3. /\ cleanup' = {} /\ result' = [result EXCEPT ![call.run] = outcome]
      /\ result' \in [Runs -> {"", "ok", "failed"}]
  BY Types DEF Return
<1>4. TypeOK'
  BY <1>1, <1>2, <1>3 DEF TypeOK, Calls
<1>5. CallOfARun' /\ OpenIsKnown'
  <2>1. call.run # 0
    BY <1>1 DEF Runs
  <2> QED
    BY <1>2, <1>3, <2>1
       DEF CallOfARun, OpenIsKnown, At, NewSteps, UploadSteps, Commands
<1>6. OrphansAreCutOff'
  BY <1>2 DEF OrphansAreCutOff, Ending
<1>7. NothingEarly' /\ MovedIsWhole'
  BY <1>2 DEF NothingEarly, MovedIsWhole, Ending, At
<1>8. InStep' /\ WrittenIsReceived' /\ SizeIsEnd'
  BY <1>1, <1>2 DEF InStep, WrittenIsReceived, SizeIsEnd, Sending, At
<1>9. call'.failed /\ ~call.done /\ ~call.lost =>
        ~Arrived(call.run) /\ (tmp[call.run] = NoFile \/ call.run \in refused)
  <2>1. CASE call.step \in NewSteps
    BY <1>1, <2>1 DEF NothingEarly, Arrived, NewSteps, Ending, Sending
  <2>2. CASE At("close")
    BY <1>2, <2>2 DEF TellsTruth, Ending, At
  <2> QED
    BY <2>1, <2>2 DEF At
<1>0. \A n \in Runs : Arrived(n)' <=> Arrived(n)
  BY DEF Arrived
<1>10. TellsTruth'
  <2>1. call.failed \/ Arrived(call.run) \/ call.step \in NewSteps
    BY DEF TellsTruth, At
  <2> QED
    BY <1>0, <1>1, <1>2, <1>9, <2>1 DEF TellsTruth, At
<1>11. PublishedIsWhole'
  BY DEF PublishedIsWhole
<1>12. ResultIsTrue'
  <2>1. outcome = "ok" => Arrived(call.run)
    BY DEF TellsTruth
  <2>2. \A n \in Runs : result'[n] = "ok" => Arrived(n)
    BY <1>3, <2>1, Types DEF ResultIsTrue
  <2> QED
    BY <1>0, <1>1, <1>2, <1>9, <2>2 DEF ResultIsTrue, At
<1> QED
  BY <1>4, <1>5, <1>6, <1>7, <1>8, <1>10, <1>11, <1>12

\* A step of New fails: what it holds is closed with the rest.
LEMMA RefusedIInv ==
  ASSUME IInv, NEW also, call.step \in NewSteps, Refused(also), InHand \subseteq also
  PROVE  IInv'
<1>1. UNCHANGED <<late, ends, scp, orphans, tmp, dest, inside, moved, refused>>
  BY DEF Refused, ConnectKeeps, remote, files
<1>2. open' = {}
  BY DEF IInv, Refused, closeAll, OpenIsKnown
<1>3. late' \subseteq Runs \X {"dialing", "open"}
  BY <1>1, Types DEF IInv
<1>4. Return("failed") /\ ~At("close")
  BY DEF Refused, NewSteps, At
<1> QED
  BY <1>1, <1>2, <1>3, <1>4, ReturnIInv

\* A step of New succeeds: what it holds is known, or in its hands.
LEMMA OpenedIInv ==
  ASSUME IInv, NEW parts \in SUBSET Parts, NEW kept \in SUBSET Parts,
         NEW next \in NewSteps \cup {"check"},
         call.step \in NewSteps, Opened(parts, kept, next),
         InHand \cup parts \subseteq kept \cup InHand'
  PROVE  IInv'
<1> USE DEF IInv
<1>1. /\ UNCHANGED <<late, ends, scp,
                     orphans, tmp, dest, inside, moved, refused, result>>
      /\ open' = open \cup parts /\ cleanup' = cleanup \cup kept
  BY DEF Opened, ConnectKeeps, remote, files
<1>2. /\ call' \in Calls
      /\ call'.run = call.run /\ call'.step = next /\ call'.cmd = call.cmd
      /\ call'.done = call.done /\ call'.lost = call.lost /\ call'.failed = call.failed
  <2>1. call \in Calls /\ next \in Steps
    BY Types DEF Steps, UploadSteps
  <2> QED
    BY <2>1 DEF Opened, To, Calls
<1>3. /\ call.step \notin Sending \cup Ending \cup {"mv"}
      /\ next \notin Sending \cup Ending \cup {"mv"}
      /\ call.cmd = "none" /\ ~call.failed /\ call.run # 0
  BY DEF CallOfARun, NewSteps, Sending, Ending, Commands, At
<1>4. TypeOK'
  BY <1>1, <1>2 DEF TypeOK, Calls
<1>5. CallOfARun' /\ OpenIsKnown'
  BY <1>1, <1>2, <1>3 DEF CallOfARun, OpenIsKnown, At, NewSteps, Ending
<1>6. OrphansAreCutOff' /\ NothingEarly'
  BY <1>1, <1>2, <1>3 DEF OrphansAreCutOff, NothingEarly
<1>7. InStep' /\ WrittenIsReceived' /\ SizeIsEnd' /\ MovedIsWhole'
  BY <1>1, <1>2, <1>3
     DEF InStep, WrittenIsReceived, SizeIsEnd, MovedIsWhole, Sending, At
<1>8. TellsTruth' /\ PublishedIsWhole' /\ ResultIsTrue'
  BY <1>1, <1>2, <1>3 DEF TellsTruth, PublishedIsWhole, ResultIsTrue, Arrived, Ending, At
<1> QED
  BY <1>4, <1>5, <1>6, <1>7, <1>8

LEMMA NewIInv ==
  ASSUME IInv, New
  PROVE  IInv'
<1>1. CASE TargetConfig
  <2>1. CASE Refused({})
    BY <1>1, <2>1, RefusedIInv DEF TargetConfig, InHand, At, NewSteps, UploadSteps
  <2>2. CASE \E agent \in SUBSET {"agent"}, next \in {"jumpConfig", "dial"} :
               Opened(agent, agent, next)
    <3>1. PICK agent \in SUBSET {"agent"}, next \in {"jumpConfig", "dial"} :
            Opened(agent, agent, next)
      BY <2>2
    <3>2. InHand = {} /\ call.step \in NewSteps
      BY <1>1 DEF TargetConfig, InHand, At, NewSteps, UploadSteps
    <3> QED
      BY <3>1, <3>2, OpenedIInv DEF Parts, NewSteps
  <2> QED
    BY <1>1, <2>1, <2>2 DEF TargetConfig
<1>2. CASE JumpConfig
  <2>1. InHand = {} /\ call.step \in NewSteps
    BY <1>2 DEF JumpConfig, InHand, At, NewSteps, UploadSteps
  <2>2. CASE Refused({})
    BY <2>1, <2>2, RefusedIInv
  <2>3. ASSUME NEW agent \in SUBSET {"jumpAgent"}, Opened(agent, agent, "jumpDial")
        PROVE  IInv'
    BY <2>1, <2>3, OpenedIInv DEF Parts, NewSteps
  <2> QED
    BY <1>2, <2>2, <2>3 DEF JumpConfig
<1>3. CASE JumpDial
  <2>1. InHand = {} /\ call.step \in NewSteps
    BY <1>3 DEF JumpDial, InHand, At, NewSteps, UploadSteps
  <2>2. CASE Refused({})
    BY <2>1, <2>2, RefusedIInv
  <2>3. CASE Opened({"jump"}, {}, "jumpHandshake")
    <3>1. InHand' = {"jump"}
      BY <2>3, Types DEF IInv, Opened, To, InHand, At, Calls
    <3> QED
      BY <2>1, <2>3, <3>1, OpenedIInv DEF Parts, NewSteps
  <2> QED
    BY <1>3, <2>2, <2>3 DEF JumpDial
<1>4. CASE JumpHandshake
  <2>1. InHand = {"jump"} /\ call.step \in NewSteps
    BY <1>4 DEF JumpHandshake, InHand, At, NewSteps
  <2>2. CASE Refused({"jump"})
    BY <2>1, <2>2, RefusedIInv
  <2>3. CASE Opened({}, {"jump"}, "channel")
    BY <2>1, <2>3, OpenedIInv DEF Parts, NewSteps
  <2> QED
    BY <1>4, <2>2, <2>3 DEF JumpHandshake
<1>5. ASSUME At("dial") \/ At("channel"), Refused({}) \/ Opened({"conn"}, {}, "handshake")
      PROVE  IInv'
  <2>1. InHand = {} /\ call.step \in NewSteps
    BY <1>5 DEF InHand, At, NewSteps, UploadSteps
  <2>2. CASE Refused({})
    BY <2>1, <2>2, RefusedIInv
  <2>3. CASE Opened({"conn"}, {}, "handshake")
    <3>1. InHand' = {"conn"}
      BY <2>3, Types DEF IInv, Opened, To, InHand, At, Calls
    <3> QED
      BY <2>1, <2>3, <3>1, OpenedIInv DEF Parts, NewSteps
  <2> QED
    BY <1>5, <2>2, <2>3
<1>6. CASE dialTCP
  BY <1>5, <1>6 DEF dialTCP
<1>7. CASE dialSSHChannel
  <2>1. CASE /\ call.done /\ late' = late \cup {<<call.run, "dialing">>}
             /\ closeAll(cleanup) /\ Return("failed")
             /\ UNCHANGED ends /\ UNCHANGED remote
    <3>1. At("channel") /\ call.step \in NewSteps /\ ~At("close") /\ InHand = {}
      BY <1>7 DEF dialSSHChannel, InHand, At, NewSteps, UploadSteps
    <3>2. open' = {}
      BY <2>1, <3>1 DEF IInv, closeAll, OpenIsKnown
    <3>3. late' \subseteq Runs \X {"dialing", "open"}
      <4>1. call.run \in Runs
        BY <3>1, TheRun DEF IInv, At
      <4>2. late \subseteq Runs \X {"dialing", "open"}
        BY Types DEF IInv
      <4> QED
        BY <2>1, <4>1, <4>2
    <3>4. UNCHANGED <<ends, scp, orphans, tmp, dest, inside, moved, refused>>
      BY <2>1 DEF remote, files
    <3> QED
      BY <2>1, <3>1, <3>2, <3>3, <3>4, ReturnIInv
  <2> QED
    BY <1>5, <1>7, <2>1 DEF dialSSHChannel
<1>8. CASE Handshake
  <2>1. InHand = {"conn"} /\ call.step \in NewSteps
    BY <1>8 DEF Handshake, InHand, At, NewSteps
  <2>2. CASE Refused({"conn"})
    BY <2>1, <2>2, RefusedIInv
  <2>3. CASE Opened({}, {}, "check")
    <3>1. InHand' = {"conn"}
      BY <2>3, Types DEF IInv, Opened, To, InHand, At, Calls, UploadSteps
    <3> QED
      BY <2>1, <2>3, <3>1, OpenedIInv DEF Parts, NewSteps
  <2> QED
    BY <1>8, <2>2, <2>3 DEF Handshake
<1> QED
  BY <1>1, <1>2, <1>3, <1>4, <1>6, <1>7, <1>8 DEF New

LEMMA CloseIInv ==
  ASSUME IInv, Close
  PROVE  IInv'
<1>1. /\ At("close") /\ UNCHANGED <<late, ends, scp,
                                    orphans, tmp, dest, inside, moved, refused>>
      /\ Return(IF call.failed THEN "failed" ELSE "ok")
  BY DEF Close, remote, files
<1>2. open' = {}
  BY <1>1 DEF IInv, Close, Closing, closeAll, OpenIsKnown, InHand, At
<1>3. late' \subseteq Runs \X {"dialing", "open"}
  BY <1>1, Types DEF IInv
<1>4. CASE call.failed
  BY <1>1, <1>2, <1>3, <1>4, ReturnIInv DEF At
<1>5. CASE ~call.failed
  BY <1>1, <1>2, <1>3, <1>5, ReturnIInv DEF At
<1> QED
  BY <1>4, <1>5

----------------------------------------------------------------------------
(* uploadSCP. *)

\* What all its steps leave alone, whether they succeed or fail.
LEMMA FailsIInv ==
  ASSUME IInv, Fails, call.step \in Sending \cup {"session"}
  PROVE  IInv'
<1> USE DEF IInv
<1>1. /\ UNCHANGED <<open, cleanup, late, ends, result,
                     orphans, dest, inside, moved, refused>>
      /\ scp' = NoReceiver
      /\ call.run \in Runs /\ call.cmd = "none" /\ call.step \notin Ending \cup {"mv"}
  BY TheRun DEF Fails, local, CallOfARun, Commands, Sending, Ending, At
<1>2. /\ call' \in Calls
      /\ call'.run = call.run /\ call'.cmd = "none" /\ call'.failed
      /\ call'.done = call.done /\ call'.lost = call.lost
      /\ call'.step = IF call.done THEN "close" ELSE "rm"
      /\ call'.step \in {"close", "rm"}
  <2>1. call \in Calls
    BY Types
  <2> QED
    BY <1>1, <2>1 DEF Fails, Calls, Steps
<1>3. PICK n \in Leavings : tmp' = [tmp EXCEPT ![call.run] = n]
  BY DEF Fails
<1>4. n \in {NoFile} \cup Nat
  <2>1. tmp[call.run] \in {NoFile} \cup Nat
    BY <1>1 DEF TypeOK
  <2>2. scp \in Receivers
    BY Types
  <2>3. scp.got \in Nat /\ Len(scp.wire) \in Nat
    BY <2>2, LenProperties DEF Receivers
  <2> QED
    BY <2>1, <2>3 DEF Leavings
<1>5. TypeOK'
  <2>1. scp' \in Receivers
    BY <1>1, EmptySeq DEF NoReceiver, Receivers
  <2>2. tmp' \in [Runs -> {NoFile} \cup Nat]
    BY <1>3, <1>4 DEF TypeOK
  <2> QED
    BY <1>1, <1>2, <2>1, <2>2 DEF TypeOK, Calls, Receivers, Items, Answers
<1>6. CallOfARun' /\ OpenIsKnown'
  BY <1>1, <1>2
     DEF CallOfARun, OpenIsKnown, InHand, At, NewSteps, UploadSteps, Sending
<1>7. OrphansAreCutOff'
  BY <1>1, <1>2 DEF OrphansAreCutOff, Ending
<1>8. NothingEarly'
  <2>1. \A m \in Runs : m > call.run => tmp'[m] = tmp[m]
    <3>1. tmp \in [Runs -> {NoFile} \cup Nat]
      BY Types
    <3> QED
      BY <1>1, <1>3, <3>1 DEF Runs
  <2> QED
    BY <1>1, <1>2, <2>1 DEF NothingEarly, Ending
<1>9. InStep' /\ WrittenIsReceived' /\ SizeIsEnd'
  BY <1>1, <1>2 DEF InStep, WrittenIsReceived, SizeIsEnd, NoReceiver, Sending, At
<1>10. MovedIsWhole'
  <2>1. \A m \in Runs : <<"mv", m>> \in orphans => tmp'[m] = tmp[m]
    <3>1. tmp \in [Runs -> {NoFile} \cup Nat]
      BY Types
    <3>2. \A m \in Runs : <<"mv", m>> \in orphans => m # call.run
      BY <1>1 DEF OrphansAreCutOff, Runs
    <3> QED
      BY <1>3, <3>1, <3>2
  <2> QED
    BY <1>1, <1>2, <2>1 DEF MovedIsWhole, At
<1>11. ~Arrived(call.run)
  BY <1>1 DEF NothingEarly, Arrived
<1>12. TellsTruth'
  BY <1>1, <1>2, <1>11 DEF TellsTruth, Arrived, At
<1>13. PublishedIsWhole' /\ ResultIsTrue'
  BY <1>1, <1>2 DEF PublishedIsWhole, ResultIsTrue, Arrived, At
<1> QED
  BY <1>5, <1>6, <1>7, <1>8, <1>9, <1>10, <1>12, <1>13

\* Check: the call goes on, or is over before it has sent anything.
LEMMA CheckIInv ==
  ASSUME IInv, Check
  PROVE  IInv'
<1> USE DEF IInv
<1>1. /\ UNCHANGED <<open, cleanup, late, ends, result>>
      /\ UNCHANGED <<scp, orphans, tmp, dest, inside, moved, refused>>
      /\ At("check") /\ call.run \in Runs /\ call.cmd = "none"
  BY TheRun DEF Check, local, remote, files, CallOfARun, Commands, At
<1>2. /\ call' \in Calls
      /\ call'.run = call.run /\ call'.cmd = "none" /\ call'.failed = call.done
      /\ call'.done = call.done /\ call'.lost = call.lost
      /\ call'.step \in {"close", "mkdir", "session"}
      /\ call'.step = "close" <=> call.done
  <2>1. call \in Calls
    BY Types
  <2>2. PICK next \in IF call.done THEN {"close"} ELSE {"mkdir", "session"} :
          call' = [call EXCEPT !.step = next, !.failed = call.done]
    BY DEF Check
  <2>3. next \in {"close", "mkdir", "session"} /\ (next = "close" <=> call.done)
    OBVIOUS
  <2> QED
    BY <1>1, <2>1, <2>2, <2>3 DEF Calls, Steps, UploadSteps
<1>3. TypeOK'
  BY <1>1, <1>2 DEF TypeOK, Calls
<1>4. CallOfARun' /\ OpenIsKnown'
  BY <1>1, <1>2 DEF CallOfARun, OpenIsKnown, InHand, At, NewSteps, UploadSteps
<1>5. OrphansAreCutOff' /\ NothingEarly'
  BY <1>1, <1>2 DEF OrphansAreCutOff, NothingEarly, Ending, Sending, At
<1>6. InStep' /\ WrittenIsReceived' /\ SizeIsEnd' /\ MovedIsWhole'
  BY <1>1, <1>2 DEF InStep, WrittenIsReceived, SizeIsEnd, MovedIsWhole, Sending, At
<1>7. TellsTruth' /\ PublishedIsWhole' /\ ResultIsTrue'
  BY <1>1, <1>2 DEF TellsTruth, PublishedIsWhole, ResultIsTrue, Arrived, Ending, At
<1> QED
  BY <1>3, <1>4, <1>5, <1>6, <1>7

\* A step that sends, hears or reads: the files stay, the receiver and the
\* client move, and what they then are in is what has to be shown.
LEMMA ClientIInv ==
  ASSUME IInv, call.step \in Sending \cup {"session"}, call' \in Calls, scp' \in Receivers,
         call'.step \in Sending \cup {"mv"},
         call'.run = call.run, call'.size = call.size, call'.cmd = call.cmd,
         call'.failed = call.failed, call'.done = call.done, call'.lost = call.lost,
         UNCHANGED <<open, cleanup, late, result,
                     orphans, tmp, dest, inside, moved, refused>>,
         ends' \in [Runs -> NoFile .. MaxLen],
         \A n \in Runs \ {call.run} : ends'[n] = ends[n],
         InStep', WrittenIsReceived', SizeIsEnd',
         At("mv")' => tmp[call.run] = ends'[call.run]
  PROVE  IInv'
<1> USE DEF IInv
<1>1. /\ call.run \in Runs /\ call.cmd = "none" /\ ~call.failed
      /\ call.step \notin Ending \cup {"mv"}
  BY TheRun DEF CallOfARun, Commands, Sending, Ending, UploadSteps, At
<1>2. TypeOK'
  BY DEF TypeOK, Calls, Receivers, Items, Answers
<1>3. CallOfARun' /\ OpenIsKnown'
  BY <1>1 DEF CallOfARun, OpenIsKnown, InHand, At, Sending, UploadSteps
<1>4. OrphansAreCutOff'
  BY <1>1 DEF OrphansAreCutOff
<1>5. NothingEarly'
  BY <1>1 DEF NothingEarly, Ending
<1>6. MovedIsWhole'
  <2>1. \A n \in Runs : <<"mv", n>> \in orphans => n # call.run
    BY <1>1 DEF OrphansAreCutOff, Runs
  <2>2. \A n \in Runs : <<"mv", n>> \in orphans => tmp[n] \in {NoFile, ends[n]}
    BY DEF MovedIsWhole
  <2> QED
    BY <2>1, <2>2 DEF MovedIsWhole, At
<1>7. /\ call.run \notin moved /\ dest.by # call.run /\ inside[call.run] = NoFile
      /\ ~Arrived(call.run)
  BY <1>1 DEF NothingEarly, Arrived
<1>8. TellsTruth'
  BY <1>1, <1>7 DEF TellsTruth, Arrived, At, Sending, Ending
<1>9. PublishedIsWhole'
  BY <1>7, Types DEF PublishedIsWhole
<1>10. ResultIsTrue'
  BY DEF ResultIsTrue, Arrived, At, Sending
<1> QED
  BY <1>2, <1>3, <1>4, <1>5, <1>6, <1>8, <1>9, <1>10

LEMMA ToFacts ==
  ASSUME TypeOK, NEW step \in Steps, To(step)
  PROVE  /\ call' \in Calls /\ call'.step = step
         /\ call'.run = call.run /\ call'.size = call.size /\ call'.cmd = call.cmd
         /\ call'.failed = call.failed /\ call'.done = call.done /\ call'.lost = call.lost
         /\ call'.sent = call.sent
<1>1. call \in Calls
  BY Types
<1> QED
  BY <1>1 DEF To, Calls

LEMMA SessionIInv ==
  ASSUME IInv, Session
  PROVE  IInv'
<1> USE DEF IInv
<1>1. CASE Fails
  BY <1>1, FailsIInv DEF Session, At
<1>2. CASE To("greeting") /\ scp' = [NoReceiver EXCEPT !.step = "hello"] /\ ClientKeeps
  <2>1. UNCHANGED <<open, cleanup, late, ends, result,
                    orphans, tmp, dest, inside, moved, refused>>
    BY <1>2 DEF ClientKeeps, local, files
  <2>2. /\ call' \in Calls /\ call'.step = "greeting"
        /\ call'.run = call.run /\ call'.size = call.size /\ call'.cmd = call.cmd
        /\ call'.failed = call.failed /\ call'.done = call.done /\ call'.lost = call.lost
    BY <1>2, ToFacts DEF Steps, UploadSteps
  <2>3. scp' = [step |-> "hello", got |-> 0, good |-> TRUE, wire |-> <<>>, answers |-> <<>>]
    BY <1>2 DEF NoReceiver
  <2>4. scp' \in Receivers
    BY <2>3, EmptySeq DEF Receivers
  <2>5. InStep' /\ WrittenIsReceived' /\ SizeIsEnd' /\ ~At("mv")'
    BY <2>1, <2>2, <2>3 DEF InStep, WrittenIsReceived, SizeIsEnd, Sending, At
  <2>6. ends' \in [Runs -> NoFile .. MaxLen]
    BY <2>1, Types
  <2>7. call.step \in Sending \cup {"session"} /\ call'.step \in Sending \cup {"mv"}
    BY <2>2 DEF Session, At, Sending
  <2> QED
    BY <2>1, <2>2, <2>4, <2>5, <2>6, <2>7, ClientIInv
<1> QED
  BY <1>1, <1>2 DEF Session

\* Hearing an answer: the first one tells that there is a receiver.
LEMMA HearIInv ==
  ASSUME IInv, NEW from \in {"greeting", "accept", "confirm"}, NEW to \in Sending,
         NEW then \in Seq(Items), readSCPResponse(from, to, then),
         from = "greeting" => to = "header", from = "accept" => to = "copy",
         from = "confirm" => to = "exit"
  PROVE  IInv'
<1> USE DEF IInv
<1>1. call.step = from /\ call.step \in Sending
  BY DEF readSCPResponse, At, Sending
<1>2. CASE Fails
  BY <1>1, <1>2, FailsIInv
<1>3. CASE /\ Heard("ok") /\ To(to)
           /\ scp' = [scp EXCEPT !.answers = Tail(@), !.wire = @ \o then]
           /\ ClientKeeps
  <2>1. UNCHANGED <<open, cleanup, late, ends, result,
                    orphans, tmp, dest, inside, moved, refused>>
    BY <1>3 DEF ClientKeeps, local, files
  <2>2. /\ call' \in Calls /\ call'.step = to
        /\ call'.run = call.run /\ call'.size = call.size /\ call'.cmd = call.cmd
        /\ call'.failed = call.failed /\ call'.done = call.done /\ call'.lost = call.lost
        /\ call'.sent = call.sent
    BY <1>3, ToFacts DEF Steps, UploadSteps, Sending
  <2>3. /\ scp' \in Receivers /\ scp'.step = scp.step
        /\ scp'.got = scp.got /\ scp'.good = scp.good
    <3>1. scp \in Receivers
      BY Types
    <3>2. scp.answers \in Seq(Answers) /\ scp.wire \in Seq(Items) /\ scp.answers # <<>>
      BY <1>3, <3>1 DEF Receivers, Heard
    <3>3. Tail(scp.answers) \in Seq(Answers) /\ scp.wire \o then \in Seq(Items)
      BY <3>2, HeadTailProperties, ConcatProperties
    <3> QED
      BY <1>3, <3>1, <3>3 DEF Receivers
  <2>4. from = "greeting" => scp.step = "header"
    <3>1. Head(<<"error">>) = "error"
      OBVIOUS
    <3> QED
      BY <1>1, <1>3, <3>1 DEF InStep, Heard, At
  <2>5. scp.step # "hello"
    BY <1>3 DEF InStep, Heard
  <2>6. InStep'
    BY <1>1, <2>2, <2>3, <2>5 DEF InStep, Sending, At
  <2>7. WrittenIsReceived'
    BY <1>1, <2>1, <2>2, <2>3, <2>4 DEF WrittenIsReceived, At
  <2>8. SizeIsEnd' /\ ~At("mv")'
    BY <1>1, <2>1, <2>2 DEF SizeIsEnd, Sending, At
  <2>9. ends' \in [Runs -> NoFile .. MaxLen]
    BY <2>1, Types
  <2> QED
    BY <1>1, <2>1, <2>2, <2>3, <2>6, <2>7, <2>8, <2>9, ClientIInv
<1> QED
  BY <1>2, <1>3 DEF readSCPResponse

\* What the client's own steps on the wire do to the receiver's record.
LEMMA SendsFacts ==
  ASSUME TypeOK, NEW item \in Items, scp' = [scp EXCEPT !.wire = Append(@, item)]
  PROVE  /\ scp' \in Receivers /\ scp'.step = scp.step /\ scp'.got = scp.got
         /\ scp'.good = scp.good /\ scp'.answers = scp.answers
<1>1. scp \in Receivers
  BY Types
<1>2. Append(scp.wire, item) \in Seq(Items)
  BY <1>1, AppendProperties DEF Receivers
<1> QED
  BY <1>1, <1>2 DEF Receivers

\* From one sending step, not the first, to another: the receiver's part stays.
LEMMA SendingIInv ==
  ASSUME IInv, call.step \in Sending \ {"greeting"}, call' \in Calls, scp' \in Receivers,
         call'.step \in Sending \ {"greeting"},
         call'.run = call.run, call'.size = call.size, call'.cmd = call.cmd,
         call'.failed = call.failed, call'.done = call.done, call'.lost = call.lost,
         UNCHANGED <<open, cleanup, late, result,
                     orphans, tmp, dest, inside, moved, refused>>,
         ends' \in [Runs -> NoFile .. MaxLen],
         \A n \in Runs \ {call.run} : ends'[n] = ends[n],
         scp'.step = scp.step, scp'.got = scp.got, scp'.good = scp.good,
         SizeIsEnd'
  PROVE  IInv'
<1> USE DEF IInv
<1>1. InStep'
  BY DEF InStep, Sending, At
<1>2. WrittenIsReceived'
  BY DEF WrittenIsReceived
<1>3. ~At("mv")'
  BY DEF Sending, At
<1> QED
  BY <1>1, <1>2, <1>3, ClientIInv

LEMMA WriteIInv ==
  ASSUME IInv,
         \/ Write("header", "header", "accept")
         \/ Finish
  PROVE  IInv'
<1> USE DEF IInv
<1>1. PICK from \in {"header", "zero"}, to \in {"accept", "confirm"} :
        Write(from, from, to) /\ (to = "confirm" => from = "zero")
  BY DEF Finish
<1>2. call.step = from /\ call.step \in Sending \ {"greeting"} /\ from \in Items
  BY <1>1 DEF Write, At, Sending, Items
<1>3. CASE Fails
  BY <1>2, <1>3, FailsIInv
<1>4. CASE To(to) /\ scp' = [scp EXCEPT !.wire = Append(@, from)] /\ ClientKeeps
  <2>1. UNCHANGED <<open, cleanup, late, ends, result,
                    orphans, tmp, dest, inside, moved, refused>>
    BY <1>4 DEF ClientKeeps, local, files
  <2>2. /\ call' \in Calls /\ call'.step = to /\ to \in Sending \ {"greeting"}
        /\ call'.run = call.run /\ call'.size = call.size /\ call'.cmd = call.cmd
        /\ call'.failed = call.failed /\ call'.done = call.done /\ call'.lost = call.lost
        /\ call'.sent = call.sent
    BY <1>4, ToFacts DEF Steps, UploadSteps, Sending
  <2>3. /\ scp' \in Receivers /\ scp'.step = scp.step
        /\ scp'.got = scp.got /\ scp'.good = scp.good
    BY <1>2, <1>4, SendsFacts
  <2>4. SizeIsEnd'
    BY <1>1, <1>2, <2>1, <2>2 DEF SizeIsEnd, At
  <2>5. ends' \in [Runs -> NoFile .. MaxLen]
    BY <2>1, Types
  <2> QED
    BY <1>2, <2>1, <2>2, <2>3, <2>4, <2>5, SendingIInv
<1> QED
  BY <1>1, <1>3, <1>4 DEF Write

\* A round of the loop sends a piece, or finds the end of the source.
LEMMA CopyIInv ==
  ASSUME IInv, copyWithContext
  PROVE  IInv'
<1> USE DEF IInv
<1>1. At("copy") /\ call.step \in Sending \ {"greeting"} /\ call \in Calls
  BY Types DEF copyWithContext, At, Sending
<1>2. CASE Fails
  BY <1>1, <1>2, FailsIInv
<1>3. CASE /\ call.sent < MaxLen
           /\ scp' = [scp EXCEPT !.wire = Append(@, "data")]
           /\ call' = [call EXCEPT !.sent = @ + 1]
           /\ ClientKeeps
  <2>1. UNCHANGED <<open, cleanup, late, ends, result,
                    orphans, tmp, dest, inside, moved, refused>>
    BY <1>3 DEF ClientKeeps, local, files
  <2>2. /\ call' \in Calls /\ call'.step = "copy"
        /\ call'.run = call.run /\ call'.size = call.size /\ call'.cmd = call.cmd
        /\ call'.failed = call.failed /\ call'.done = call.done /\ call'.lost = call.lost
    <3>1. call.sent + 1 \in 0 .. MaxLen
      BY <1>1, <1>3, BoundAssumption DEF Calls
    <3> QED
      BY <1>1, <1>3, <3>1 DEF Calls, At
  <2>3. /\ scp' \in Receivers /\ scp'.step = scp.step
        /\ scp'.got = scp.got /\ scp'.good = scp.good
    BY <1>3, SendsFacts DEF Items
  <2>4. SizeIsEnd' /\ call'.step \in Sending \ {"greeting"}
    BY <2>2 DEF SizeIsEnd, Sending, At
  <2>5. ends' \in [Runs -> NoFile .. MaxLen]
    BY <2>1, Types
  <2> QED
    BY <1>1, <2>1, <2>2, <2>3, <2>4, <2>5, SendingIInv
<1>4. CASE /\ To("size")
           /\ ends' = [ends EXCEPT ![call.run] = call.sent]
           /\ UNCHANGED <<open, cleanup, late, result, remote>>
  <2>1. UNCHANGED <<open, cleanup, late, result, scp,
                    orphans, tmp, dest, inside, moved, refused>>
    BY <1>4 DEF remote, files
  <2>2. /\ call' \in Calls /\ call'.step = "size"
        /\ call'.run = call.run /\ call'.size = call.size /\ call'.cmd = call.cmd
        /\ call'.failed = call.failed /\ call'.done = call.done /\ call'.lost = call.lost
        /\ call'.sent = call.sent
    BY <1>4, ToFacts DEF Steps, UploadSteps
  <2>3. /\ ends' \in [Runs -> NoFile .. MaxLen] /\ ends'[call.run] = call.sent
        /\ \A n \in Runs \ {call.run} : ends'[n] = ends[n]
    <3>1. ends \in [Runs -> NoFile .. MaxLen]
      BY Types
    <3>2. call.sent \in NoFile .. MaxLen
      BY <1>1, BoundAssumption DEF Calls, NoFile
    <3>3. call.run \in Runs
      BY <1>1, TheRun DEF At
    <3> QED
      BY <1>4, <3>1, <3>2, <3>3
  <2>4. SizeIsEnd' /\ call'.step \in Sending \ {"greeting"}
    BY <2>2, <2>3 DEF SizeIsEnd, Sending, At
  <2>5. scp' \in Receivers
    <3>1. scp \in Receivers
      BY Types
    <3> QED
      BY <2>1, <3>1
  <2> QED
    BY <1>1, <2>1, <2>2, <2>3, <2>4, <2>5, SendingIInv
<1> QED
  BY <1>2, <1>3, <1>4 DEF copyWithContext

LEMMA SizeIInv ==
  ASSUME IInv, Size
  PROVE  IInv'
<1> USE DEF IInv
<1>1. At("size") /\ call.step \in Sending \ {"greeting"}
  BY DEF Size, At, Sending
<1>2. CASE Fails
  BY <1>1, <1>2, FailsIInv
<1>3. CASE call.sent = call.size /\ To("zero") /\ UNCHANGED scp /\ ClientKeeps
  <2>1. UNCHANGED <<open, cleanup, late, ends, result,
                    orphans, tmp, dest, inside, moved, refused>>
    BY <1>3 DEF ClientKeeps, local, files
  <2>2. /\ call' \in Calls /\ call'.step = "zero"
        /\ call'.run = call.run /\ call'.size = call.size /\ call'.cmd = call.cmd
        /\ call'.failed = call.failed /\ call'.done = call.done /\ call'.lost = call.lost
    BY <1>3, ToFacts DEF Steps, UploadSteps
  <2>3. SizeIsEnd' /\ call'.step \in Sending \ {"greeting"}
    BY <1>1, <1>3, <2>1, <2>2 DEF SizeIsEnd, Sending, At
  <2>4. ends' \in [Runs -> NoFile .. MaxLen]
    BY <2>1, Types
  <2>5. scp' \in Receivers
    <3>1. scp \in Receivers
      BY Types
    <3> QED
      BY <1>3, <3>1
  <2> QED
    BY <1>1, <1>3, <2>1, <2>2, <2>3, <2>4, <2>5, SendingIInv
<1> QED
  BY <1>2, <1>3 DEF Size

\* A receiver that has ended well has written all that was announced, and the
\* end of the source was where it was announced: the file is whole.
LEMMA ExitIInv ==
  ASSUME IInv, Exit
  PROVE  IInv'
<1> USE DEF IInv
<1>1. At("exit") /\ call.step \in Sending
  BY DEF Exit, At, Sending
<1>2. CASE Fails
  BY <1>1, <1>2, FailsIInv
<1>3. CASE scp.step = "gone" /\ scp.good /\ To("mv") /\ scp' = NoReceiver /\ ClientKeeps
  <2>1. UNCHANGED <<open, cleanup, late, ends, result,
                    orphans, tmp, dest, inside, moved, refused>>
    BY <1>3 DEF ClientKeeps, local, files
  <2>2. /\ call' \in Calls /\ call'.step = "mv"
        /\ call'.run = call.run /\ call'.size = call.size /\ call'.cmd = call.cmd
        /\ call'.failed = call.failed /\ call'.done = call.done /\ call'.lost = call.lost
    BY <1>3, ToFacts DEF Steps, UploadSteps
  <2>3. scp' \in Receivers
    BY <1>3, EmptySeq DEF NoReceiver, Receivers
  <2>4. tmp[call.run] = call.size /\ ends[call.run] = call.size
    BY <1>1, <1>3 DEF WrittenIsReceived, SizeIsEnd, Sending, At
  <2>5. InStep' /\ WrittenIsReceived' /\ SizeIsEnd'
    BY <1>3, <2>1, <2>2, <2>4
       DEF InStep, WrittenIsReceived, SizeIsEnd, NoReceiver, Sending, At
  <2>6. ends' \in [Runs -> NoFile .. MaxLen]
    BY <2>1, Types
  <2> QED
    BY <1>1, <2>1, <2>2, <2>3, <2>4, <2>5, <2>6, ClientIInv
<1> QED
  BY <1>2, <1>3 DEF Exit

LEMMA uploadSCPIInv ==
  ASSUME IInv, uploadSCP
  PROVE  IInv'
<1>1. <<>> \in Seq(Items) /\ <<"eof">> \in Seq(Items)
  BY EmptySeq DEF Items
<1>2. CASE readSCPResponse("greeting", "header", <<>>)
  BY <1>1, <1>2, HearIInv DEF Sending
<1>3. CASE readSCPResponse("accept", "copy", <<>>)
  BY <1>1, <1>3, HearIInv DEF Sending
<1>4. CASE readSCPResponse("confirm", "exit", <<"eof">>)
  BY <1>1, <1>4, HearIInv DEF Sending
<1> QED
  BY <1>2, <1>3, <1>4, SessionIInv, WriteIInv, CopyIInv, SizeIInv, ExitIInv DEF uploadSCP

----------------------------------------------------------------------------
(* The receiver. *)

\* What the receiver writes is the file of the run that sends.
LEMMA ReceivedIInv ==
  ASSUME IInv, call.step \in Sending,
         UNCHANGED <<call, open, cleanup, late, ends, result,
                     orphans, dest, inside, moved, refused>>,
         scp' \in Receivers, tmp' \in [Runs -> {NoFile} \cup Nat],
         \A n \in Runs \ {call.run} : tmp'[n] = tmp[n],
         InStep', WrittenIsReceived'
  PROVE  IInv'
<1> USE DEF IInv
<1>1. call.run \in Runs /\ call.step \notin Ending \cup {"mv"}
  BY TheRun DEF Sending, Ending, At
<1>2. TypeOK'
  BY DEF TypeOK, Receivers, Items, Answers
<1>3. CallOfARun' /\ OpenIsKnown' /\ OrphansAreCutOff' /\ SizeIsEnd'
  BY DEF CallOfARun, OpenIsKnown, InHand, OrphansAreCutOff, SizeIsEnd, At
<1>4. NothingEarly'
  <2>1. \A n \in Runs : n > call.run => n # call.run
    BY <1>1 DEF Runs
  <2> QED
    BY <1>1, <2>1 DEF NothingEarly
<1>5. MovedIsWhole'
  <2>1. \A n \in Runs : <<"mv", n>> \in orphans => n # call.run
    BY <1>1 DEF OrphansAreCutOff, Runs
  <2> QED
    BY <1>1, <2>1 DEF MovedIsWhole, At
<1>6. TellsTruth' /\ PublishedIsWhole' /\ ResultIsTrue'
  BY <1>1 DEF TellsTruth, PublishedIsWhole, ResultIsTrue, Arrived, Ending, At
<1> QED
  BY <1>2, <1>3, <1>4, <1>5, <1>6

\* The receiver takes from a wire that is not empty, so not at the greeting.
LEMMA MeetsFacts ==
  ASSUME IInv, NEW step \in {"header", "data", "status", "end"}, NEW items, Meets(step, items)
  PROVE  /\ scp.step = step /\ call.step \in Sending \ {"greeting"}
         /\ Tail(scp.wire) \in Seq(Items)
         /\ \A answer \in Answers : Append(scp.answers, answer) \in Seq(Answers)
<1> USE DEF IInv
<1>1. scp \in Receivers
  BY Types
<1>2. scp.step = step /\ scp.wire # <<>>
  BY DEF Meets
<1>3. call.step \in Sending \ {"greeting"}
  BY <1>2 DEF InStep, At
<1>4. Tail(scp.wire) \in Seq(Items)
  BY <1>1, <1>2, HeadTailProperties DEF Receivers
<1>5. \A answer \in Answers : Append(scp.answers, answer) \in Seq(Answers)
  BY <1>1, AppendProperties DEF Receivers
<1> QED
  BY <1>2, <1>3, <1>4, <1>5

\* An item that is answered: with an error, or with the file complete.
LEMMA GivesIInv ==
  ASSUME IInv, NEW step \in {"header", "data", "status", "end"}, NEW items,
         Meets(step, items), NEW answer \in Answers, NEW to \in {"end", "gone"},
         Gives(answer, to), UNCHANGED <<call, local>>,
         answer = "ok" => step = "status"
  PROVE  IInv'
<1>1. /\ scp.step = step /\ call.step \in Sending \ {"greeting"}
      /\ Tail(scp.wire) \in Seq(Items) /\ Append(scp.answers, answer) \in Seq(Answers)
  BY MeetsFacts
<1>2. scp \in Receivers /\ tmp \in [Runs -> {NoFile} \cup Nat]
  BY Types DEF IInv
<1>3. UNCHANGED <<call, open, cleanup, late, ends, result,
                  orphans, tmp, dest, inside, moved, refused>>
  BY DEF Gives, local, files
<1>4. /\ scp' \in Receivers /\ scp'.step = to /\ scp'.got = scp.got
      /\ scp'.good = (scp.good /\ answer = "ok")
  <2>1. scp' = [scp EXCEPT !.step = to, !.wire = Tail(@), !.good = @ /\ answer = "ok",
                           !.answers = Append(@, answer)]
    BY DEF Gives
  <2> DEFINE good == scp.good /\ answer = "ok"
  <2>2. good \in BOOLEAN
    OBVIOUS
  <2> HIDE DEF good
  <2>3. scp' = [scp EXCEPT !.step = to, !.wire = Tail(@), !.good = good,
                           !.answers = Append(@, answer)]
    BY <2>1 DEF good
  <2>4. scp' \in Receivers /\ scp'.step = to /\ scp'.got = scp.got /\ scp'.good = good
    BY <1>1, <1>2, <2>2, <2>3 DEF Receivers
  <2> QED
    BY <2>4 DEF good
<1>5. InStep'
  BY <1>1, <1>3, <1>4 DEF InStep, Sending, At
<1>6. WrittenIsReceived'
  BY <1>1, <1>3, <1>4 DEF IInv, WrittenIsReceived
<1> QED
  BY <1>1, <1>2, <1>3, <1>4, <1>5, <1>6, ReceivedIInv

LEMMA ReceiveHeaderIInv ==
  ASSUME IInv, ReceiveHeader, UNCHANGED <<call, local>>
  PROVE  IInv'
<1>1. Meets("header", {"header"})
  BY DEF ReceiveHeader
<1>2. CASE Gives("error", "gone")
  BY <1>1, <1>2, GivesIInv DEF Answers
<1>3. CASE /\ scp' = [scp EXCEPT !.step = AfterData(0), !.wire = Tail(@),
                                 !.answers = Append(@, "ok")]
           /\ uploadTemporaryPath(0)
           /\ UNCHANGED <<orphans, inside, moved, refused>>
  <2>1. /\ scp.step = "header" /\ call.step \in Sending \ {"greeting"}
        /\ Tail(scp.wire) \in Seq(Items) /\ Append(scp.answers, "ok") \in Seq(Answers)
    BY <1>1, MeetsFacts DEF Answers
  <2>2. /\ scp \in Receivers /\ tmp \in [Runs -> {NoFile} \cup Nat] /\ call.run \in Runs
        /\ scp.got = 0
    BY <2>1, Types, TheRun DEF IInv, InStep, Sending, At
  <2>3. UNCHANGED <<call, open, cleanup, late, ends, result,
                    orphans, dest, inside, moved, refused>>
    BY <1>3 DEF uploadTemporaryPath, local
  <2>4. /\ tmp' \in [Runs -> {NoFile} \cup Nat] /\ tmp'[call.run] = 0
        /\ \A n \in Runs \ {call.run} : tmp'[n] = tmp[n]
    BY <1>3, <2>2 DEF uploadTemporaryPath
  <2>5. /\ scp' \in Receivers /\ scp'.got = 0
        /\ scp'.step = IF call.size = 0 THEN "status" ELSE "data"
    BY <1>3, <2>1, <2>2 DEF AfterData, Receivers
  <2>6. InStep' /\ WrittenIsReceived'
    BY <2>1, <2>3, <2>4, <2>5 DEF InStep, WrittenIsReceived, Sending, At
  <2> QED
    BY <2>1, <2>3, <2>4, <2>5, <2>6, ReceivedIInv
<1> QED
  BY <1>2, <1>3 DEF ReceiveHeader

LEMMA ReceiveDataIInv ==
  ASSUME IInv, ReceiveData, UNCHANGED <<call, local>>
  PROVE  IInv'
<1>1. Meets("data", {"data", "zero"})
  BY DEF ReceiveData
<1>2. PICK good \in {scp.good, FALSE} :
        /\ scp' = [scp EXCEPT !.step = AfterData(scp.got + 1), !.wire = Tail(@),
                              !.got = @ + 1, !.good = good]
        /\ IF good THEN uploadTemporaryPath(scp.got + 1) ELSE UNCHANGED <<tmp, dest>>
  BY DEF ReceiveData
<1>3. /\ scp.step = "data" /\ call.step \in Sending \ {"greeting"}
      /\ Tail(scp.wire) \in Seq(Items)
  BY <1>1, MeetsFacts
<1>4. scp \in Receivers /\ tmp \in [Runs -> {NoFile} \cup Nat] /\ call.run \in Runs
  BY <1>3, Types, TheRun DEF IInv, Sending, At
<1>5. good \in BOOLEAN /\ scp.got + 1 \in Nat /\ scp.got + 1 # 0
  <2>1. scp.got \in Nat /\ scp.good \in BOOLEAN
    BY <1>4 DEF Receivers
  <2>2. good \in BOOLEAN
    BY <2>1, Zenon
  <2> QED
    BY <2>1, <2>2
<1>6. UNCHANGED <<call, open, cleanup, late, ends, result,
                  orphans, dest, inside, moved, refused>>
  BY <1>2 DEF ReceiveData, uploadTemporaryPath, local
<1>7. /\ tmp' \in [Runs -> {NoFile} \cup Nat]
      /\ good => tmp'[call.run] = scp.got + 1
      /\ \A n \in Runs \ {call.run} : tmp'[n] = tmp[n]
  BY <1>2, <1>4, <1>5 DEF uploadTemporaryPath
<1>8. /\ scp' \in Receivers /\ scp'.got = scp.got + 1 /\ scp'.good = good
      /\ scp'.step = IF scp.got + 1 = call.size THEN "status" ELSE "data"
  BY <1>2, <1>3, <1>4, <1>5 DEF AfterData, Receivers
<1>9. InStep' /\ WrittenIsReceived'
  BY <1>3, <1>6, <1>7, <1>8 DEF InStep, WrittenIsReceived, Sending, At
<1> QED
  BY <1>3, <1>6, <1>7, <1>8, <1>9, ReceivedIInv

LEMMA ReceiveStatusIInv ==
  ASSUME IInv, ReceiveStatus, UNCHANGED <<call, local>>
  PROVE  IInv'
<1>1. CASE Meets("status", {"zero", "data"}) /\ Gives(IF scp.good THEN "ok" ELSE "error", "end")
  <2>1. (IF scp.good THEN "ok" ELSE "error") \in Answers
    BY DEF Answers
  <2> QED
    BY <1>1, <2>1, GivesIInv
<1>2. CASE Meets("status", {"data"}) /\ Gives("error", "gone")
  BY <1>2, GivesIInv DEF Answers
<1> QED
  BY <1>1, <1>2 DEF ReceiveStatus

LEMMA ReceiveEndIInv ==
  ASSUME IInv, ReceiveEnd, UNCHANGED <<call, local>>
  PROVE  IInv'
<1>1. CASE /\ Meets("end", {"eof"})
           /\ scp' = [scp EXCEPT !.step = "gone", !.wire = Tail(@)] /\ UNCHANGED files
  <2>1. /\ scp.step = "end" /\ call.step \in Sending \ {"greeting"}
        /\ Tail(scp.wire) \in Seq(Items)
    BY <1>1, MeetsFacts
  <2>2. scp \in Receivers /\ tmp \in [Runs -> {NoFile} \cup Nat]
    BY Types DEF IInv
  <2>3. UNCHANGED <<call, open, cleanup, late, ends, result,
                    orphans, tmp, dest, inside, moved, refused>>
    BY <1>1 DEF local, files
  <2>4. /\ scp' \in Receivers /\ scp'.step = "gone"
        /\ scp'.got = scp.got /\ scp'.good = scp.good
    BY <1>1, <2>1, <2>2 DEF Receivers
  <2>5. InStep' /\ WrittenIsReceived'
    BY <2>1, <2>3, <2>4 DEF IInv, InStep, WrittenIsReceived, Sending, At
  <2> QED
    BY <2>1, <2>2, <2>3, <2>4, <2>5, ReceivedIInv
<1>2. CASE Meets("end", {"zero", "data"}) /\ Gives("error", "gone")
  BY <1>2, GivesIInv DEF Answers
<1> QED
  BY <1>1, <1>2 DEF ReceiveEnd

\* The greeting of the receiver, or its refusal.
LEMMA GreetingIInv ==
  ASSUME IInv, scp.step = "hello", Says("ok", "header") \/ Says("error", "gone"),
         UNCHANGED <<call, local>>
  PROVE  IInv'
<1> USE DEF IInv
<1>1. At("greeting") /\ scp.answers = <<>> /\ scp.wire = <<>> /\ scp.got = 0
  BY DEF InStep
<1>2. scp \in Receivers /\ tmp \in [Runs -> {NoFile} \cup Nat]
  BY Types
<1>3. UNCHANGED <<call, open, cleanup, late, ends, result,
                  orphans, tmp, dest, inside, moved, refused>>
  BY DEF Says, local, files
<1>4. PICK answer \in Answers, step \in {"header", "gone"} :
        /\ scp' = [scp EXCEPT !.step = step, !.answers = Append(@, answer)]
        /\ step = "gone" => answer = "error"
  BY DEF Says, Answers
<1>5. Append(<<>>, answer) = <<answer>> /\ <<answer>> \in Seq(Answers)
  OBVIOUS
<1>6. /\ scp' \in Receivers /\ scp'.step = step /\ scp'.got = 0 /\ scp'.wire = <<>>
      /\ scp'.answers = <<answer>>
  BY <1>1, <1>2, <1>4, <1>5 DEF Receivers
<1>7. InStep' /\ WrittenIsReceived'
  BY <1>1, <1>3, <1>4, <1>6 DEF InStep, WrittenIsReceived, Sending, At
<1> QED
  BY <1>1, <1>2, <1>3, <1>6, <1>7, ReceivedIInv DEF Sending, At

LEMMA ReceiverIInv ==
  ASSUME IInv, Receiver
  PROVE  IInv'
BY GreetingIInv, ReceiveHeaderIInv, ReceiveDataIInv, ReceiveStatusIInv, ReceiveEndIInv
   DEF Receiver

----------------------------------------------------------------------------
(* Every behaviour. *)

LEMMA InitIInv ==
  ASSUME Init
  PROVE  IInv
<1>1. /\ call = [run |-> 0, step |-> "over", done |-> FALSE, lost |-> FALSE,
                 size |-> 0, sent |-> 0, cmd |-> "none", failed |-> FALSE]
      /\ open = {} /\ cleanup = {} /\ late = {} /\ orphans = {}
      /\ scp = [step |-> "gone", got |-> 0, good |-> TRUE, wire |-> <<>>, answers |-> <<>>]
      /\ tmp = [n \in Runs |-> NoFile] /\ inside = [n \in Runs |-> NoFile]
      /\ dest \in [by : {0}, len : {0}, dir : BOOLEAN] /\ dest.by = 0
      /\ ends = [n \in Runs |-> NoFile] /\ moved = {} /\ refused = {}
      /\ result = [n \in Runs |-> ""]
  BY DEF Init, NoCall, NoReceiver
<1>2. TypeOK
  <2>1. 0 \in 0 .. MaxLen /\ NoFile \in NoFile .. MaxLen
    BY BoundAssumption DEF NoFile
  <2>2. "over" \in Steps
    BY DEF Steps
  <2>3. call \in Calls
    BY <1>1, <2>1, <2>2, NewCall
  <2>4. scp \in Receivers
    BY <1>1, EmptySeq DEF Receivers
  <2>5. late \subseteq Runs \X {"dialing", "open"} /\ orphans \subseteq Commands \X Runs
    BY <1>1
  <2>6. /\ open \subseteq Parts /\ cleanup \subseteq Parts
        /\ tmp \in [Runs -> {NoFile} \cup Nat] /\ inside \in [Runs -> {NoFile} \cup Nat]
        /\ ends \in [Runs -> NoFile .. MaxLen]
        /\ moved \subseteq Runs /\ refused \subseteq Runs
        /\ result \in [Runs -> {"", "ok", "failed"}]
    BY <1>1, <2>1
  <2>7. dest \in [by : {0} \cup Runs, len : Nat, dir : BOOLEAN]
    <3>1. dest \in [by : {0}, len : {0}, dir : BOOLEAN]
      BY <1>1
    <3> HIDE DEF Init
    <3>2. {0} \subseteq {0} \cup Runs /\ {0} \subseteq Nat
      OBVIOUS
    <3> QED
      BY <3>1, <3>2
  <2> QED
    BY <2>3, <2>4, <2>5, <2>6, <2>7, Types, Zenon
<1>3. call.run <= MaxRuns /\ \A n \in Runs : n > call.run /\ n # 0
  <2>1. call.run = 0
    BY <1>1
  <2> QED
    BY <2>1, BoundAssumption DEF Runs
<1>4. CallOfARun /\ OpenIsKnown /\ OrphansAreCutOff
  BY <1>1, <1>3 DEF CallOfARun, OpenIsKnown, OrphansAreCutOff, NewSteps, UploadSteps, At
<1>5. NothingEarly /\ MovedIsWhole
  BY <1>1, <1>3 DEF NothingEarly, MovedIsWhole, At
<1>6. InStep /\ WrittenIsReceived /\ SizeIsEnd /\ TellsTruth
  BY <1>1 DEF InStep, WrittenIsReceived, SizeIsEnd, TellsTruth, Arrived, Sending, Ending, At
<1>7. PublishedIsWhole /\ ResultIsTrue
  BY <1>1 DEF PublishedIsWhole, ResultIsTrue, Arrived
<1> QED
  BY <1>2, <1>4, <1>5, <1>6, <1>7 DEF IInv

LEMMA RunIInv ==
  ASSUME IInv, Run
  PROVE  IInv'
BY SendIInv, ExecuteIInv, EndOfCommandIInv DEF Run

LEMMA StepIInv ==
  ASSUME IInv, Step
  PROVE  IInv'
BY NewIInv, CheckIInv, RunIInv, uploadSCPIInv, ReceiverIInv, CloseIInv DEF Step

LEMMA NextIInv ==
  ASSUME IInv, [Next]_vars
  PROVE  IInv'
<1>1. CASE Begin
  BY <1>1, BeginIInv
<1>2. CASE Step
  BY <1>2, StepIInv
<1>3. CASE Late \/ startKeepalives \/ UNCHANGED vars
  BY <1>3, BesideIInv DEF Beside, Late
<1>4. CASE Cancel \/ Break
  BY <1>4, CutOffIInv DEF CutOff
<1>5. CASE \E command \in Commands, n \in Runs : Orphan(command, n)
  BY <1>5, OrphanIInv
<1> QED
  BY <1>1, <1>2, <1>3, <1>4, <1>5 DEF Next

\* The inductive invariant holds in every reachable state.
THEOREM Invariance == Spec => []IInv
BY InitIInv, NextIInv, PTL DEF Spec

\* Every variable keeps its type: the streams hold items of the protocol and
\* nothing else, and the copy sends no more than the longest source.
THEOREM TypeCorrect == Spec => []TypeOK
<1>1. IInv => TypeOK
  BY DEF IInv
<1> QED
  BY <1>1, Invariance, PTL

\* What the upload publishes is as long as its source was at its end, however
\* many runs, cancellations, broken connections, orphaned renames and changes
\* of the source there have been (uploadJobArtifact, uploadSCP).
THEOREM WholeFiles == Spec => []PublishedIsWhole
<1>1. IInv => PublishedIsWhole
  BY DEF IInv
<1> QED
  BY <1>1, Invariance, PTL

\* An upload that returns no error has published its file, or put it into the
\* directory that its destination names; one that fails without having been
\* cut off has published nothing, and left its temporary file only where the
\* server has failed to remove it (Upload, client.go:231-242).
THEOREM TrueResults == Spec => []ResultIsTrue
<1>1. IInv => ResultIsTrue
  BY DEF IInv
<1> QED
  BY <1>1, Invariance, PTL

\* After New has failed, or Close has run, nothing is open: closeAll knows of
\* everything that is, except what the failing step has in its own hands.
THEOREM EverythingIsClosed == Spec => []NothingStaysOpen
<1>1. IInv => NothingStaysOpen
  BY DEF IInv, OpenIsKnown, InHand, NothingStaysOpen, NewSteps, UploadSteps, At
<1> QED
  BY <1>1, Invariance, PTL
=============================================================================

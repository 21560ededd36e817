-------------------------------- MODULE Upload --------------------------------
(***************************************************************************)
(* A job's artifact on its way to a server: connecting, with or without a  *)
(* proxy jump, the SCP transfer to a temporary name, the rename, the       *)
(* clean-up, and closing (ssh/client.go, monitor/jobs.go).  The runs of a  *)
(* job follow one another; what a run has left behind on the server, files *)
(* and commands nobody waits for any more, is there in the next one.       *)
(*                                                                         *)
(* The source is read in pieces and may grow or shrink meanwhile: a read   *)
(* gives one more piece or the end, whatever has been announced.  The      *)
(* server answers every request in the end, or the connection breaks: what *)
(* happens with a server that does neither is in PollingLoop.              *)
(***************************************************************************)
EXTENDS Integers, Sequences, FiniteSets

CONSTANTS
    MaxRuns,   \* bounds for checking: the runs of the job,
    MaxLen,    \*    the pieces of the source,
    Window     \*    and those that are under way

ASSUME BoundAssumption ==
    MaxRuns \in Nat \ {0} /\ MaxLen \in Nat \ {0} /\ Window \in Nat \ {0}

Runs == 1 .. MaxRuns

\* What New opens, in this order.
Parts == {"agent", "jumpAgent", "jump", "conn"}

NewSteps ==
    {"targetConfig", "jumpConfig", "jumpDial", "jumpHandshake", "dial", "channel", "handshake"}

UploadSteps ==
    {"check", "mkdir", "session", "greeting", "header", "accept", "copy", "size",
     "zero", "confirm", "exit", "mv"}

Steps == NewSteps \cup UploadSteps \cup {"rm", "close", "over"}

NoFile == -1

VARIABLES
    call,      \* the call of uploadJobArtifact: its step, its context, its counts
    open,      \* what it has open
    cleanup,   \* what closeAll closes
    late,      \* dials through a jump host that nobody waits for any more
    scp,       \* the receiver on the server, and the two streams of its session
    orphans,   \* commands on the server that nobody waits for any more
    tmp,       \* tmp[n]: the length of the temporary file of run n
    dest,      \* the published file: the run it comes from and its length;
               \*    dir: the destination is the name of a directory
    inside,    \* inside[n]: the length of the file of run n in that directory
    ends,      \* ends[n]: the length at which run n found the end of the source
    moved,     \* the runs that have been published
    refused,   \* the runs whose rm has failed
    result     \* result[n]: "", "ok" or "failed"

vars == <<call, open, cleanup, late, scp, orphans, tmp, dest, inside, ends, moved, refused,
          result>>

local == <<open, cleanup, late, ends, result>>
files == <<orphans, tmp, dest, inside, moved, refused>>
remote == <<scp, files>>

NoCall == [run |-> 0, step |-> "over", done |-> FALSE, lost |-> FALSE, size |-> 0, sent |-> 0,
           cmd |-> "none", failed |-> FALSE]

\* The receiver reads the wire, the client reads the answers.
NoReceiver == [step |-> "gone", got |-> 0, good |-> TRUE, wire |-> <<>>, answers |-> <<>>]

Init ==
    /\ call = NoCall /\ open = {} /\ cleanup = {} /\ late = {}
    /\ scp = NoReceiver /\ orphans = {}
    /\ tmp = [n \in Runs |-> NoFile] /\ inside = [n \in Runs |-> NoFile]
    /\ dest \in [by : {0}, len : {0}, dir : BOOLEAN]
    /\ ends = [n \in Runs |-> NoFile] /\ moved = {} /\ refused = {}
    /\ result = [n \in Runs |-> ""]

At(step) == call.step = step

To(step) == call' = [call EXCEPT !.step = step]

----------------------------------------------------------------------------
(* Connecting.  Any step may fail, and then closes what was opened. *)

Begin ==
    /\ At("over") /\ call.run < MaxRuns
    /\ \E length \in 0 .. MaxLen :
         call' = [NoCall EXCEPT !.run = call.run + 1, !.step = "targetConfig", !.size = length]
    /\ UNCHANGED <<local, remote>>

Return(outcome) ==
    /\ call' = [NoCall EXCEPT !.run = call.run, !.done = call.done, !.lost = call.lost,
                              !.failed = outcome = "failed"]
    /\ cleanup' = {}
    /\ result' = [result EXCEPT ![call.run] = outcome]

ConnectKeeps == UNCHANGED <<late, ends>> /\ UNCHANGED remote

closeAll(closers) == open' = open \ closers

Refused(also) ==
    /\ closeAll(cleanup \cup also) /\ Return("failed")
    /\ ConnectKeeps

Opened(parts, kept, next) ==
    /\ open' = open \cup parts /\ cleanup' = cleanup \cup kept /\ To(next)
    /\ UNCHANGED result /\ ConnectKeeps

\* A failing buildClientConfig closes its own connection to the agent.
TargetConfig ==
    /\ At("targetConfig")
    /\ \/ Refused({})
       \/ \E agent \in SUBSET {"agent"}, next \in {"jumpConfig", "dial"} :
            Opened(agent, agent, next)

JumpConfig ==
    /\ At("jumpConfig")
    /\ \/ Refused({})
       \/ \E agent \in SUBSET {"jumpAgent"} : Opened(agent, agent, "jumpDial")

JumpDial == At("jumpDial") /\ (Refused({}) \/ Opened({"jump"}, {}, "jumpHandshake"))

\* Mutant: the jump host's client is not kept for closeAll.
MutJumpHandshake ==
    At("jumpHandshake") /\ (Refused({"jump"}) \/ Opened({}, {}, "channel"))

JumpHandshake ==
    At("jumpHandshake") /\ (Refused({"jump"}) \/ Opened({}, {"jump"}, "channel"))

dialTCP == At("dial") /\ (Refused({}) \/ Opened({"conn"}, {}, "handshake"))

\* The dial goes on in a goroutine of its own when the context is done.
dialSSHChannel ==
    /\ At("channel")
    /\ \/ Refused({}) \/ Opened({"conn"}, {}, "handshake")
       \/ /\ call.done /\ late' = late \cup {<<call.run, "dialing">>}
          /\ closeAll(cleanup) /\ Return("failed")
          /\ UNCHANGED ends /\ UNCHANGED remote

LateDial(n) ==
    /\ <<n, "dialing">> \in late
    /\ \/ late' = (late \ {<<n, "dialing">>}) \cup {<<n, "open">>}
       \/ late' = late \ {<<n, "dialing">>}
    /\ UNCHANGED <<call, open, cleanup, ends, result>> /\ UNCHANGED remote

LateClose(n) ==
    /\ <<n, "open">> \in late /\ late' = late \ {<<n, "open">>}
    /\ UNCHANGED <<call, open, cleanup, ends, result>> /\ UNCHANGED remote

Handshake == At("handshake") /\ (Refused({"conn"}) \/ Opened({}, {}, "check"))

New ==
    \/ TargetConfig \/ JumpConfig \/ JumpDial \/ JumpHandshake
    \/ dialTCP \/ dialSSHChannel \/ Handshake

----------------------------------------------------------------------------
(* Run: a command is sent, executed, and waited for until the context is   *)
(* done.  Nobody stops a command whose session has been closed.            *)

Commands == {"mkdir", "mv", "rm"}

\* What the command does to the files of run n, when it does anything.  A mv
\* to the name of a directory puts the file into it, under its own name.
Executes(command, n) ==
    \/ command = "mkdir" /\ UNCHANGED <<tmp, dest, inside, moved>>
    \/ /\ command = "rm" /\ tmp' = [tmp EXCEPT ![n] = NoFile]
       /\ UNCHANGED <<dest, inside, moved>>
    \/ /\ command = "mv" /\ tmp[n] # NoFile /\ tmp' = [tmp EXCEPT ![n] = NoFile]
       /\ \/ /\ ~dest.dir /\ dest' = [by |-> n, len |-> tmp[n], dir |-> FALSE]
             /\ moved' = moved \cup {n} /\ UNCHANGED inside
          \/ /\ dest.dir /\ inside' = [inside EXCEPT ![n] = tmp[n]]
             /\ UNCHANGED <<dest, moved>>

Send ==
    /\ call.step \in Commands /\ call.cmd = "none"
    /\ call' = [call EXCEPT !.cmd = IF call.lost THEN "bad" ELSE "sent"]
    /\ UNCHANGED <<local, remote>>

\* The server may refuse the session, and the command may fail.
Execute ==
    /\ call.cmd = "sent"
    /\ \/ /\ Executes(call.step, call.run) /\ call' = [call EXCEPT !.cmd = "ok"]
          /\ UNCHANGED refused
       \/ /\ call' = [call EXCEPT !.cmd = "bad"]
          /\ refused' = IF At("rm") THEN refused \cup {call.run} ELSE refused
          /\ UNCHANGED <<tmp, dest, inside, moved>>
    /\ UNCHANGED <<local, scp, orphans>>

\* What Upload does when the command has succeeded, or not.
Result(ok) ==
    LET next == CASE At("mkdir") /\ ok -> "session"
                  [] At("mv") /\ ~ok /\ ~call.done -> "rm"
                  [] OTHER -> "close"
    IN call' = [call EXCEPT !.cmd = "none", !.step = next, !.failed = @ \/ ~ok]

Reply ==
    /\ call.cmd \in {"ok", "bad"} /\ (call.cmd = "ok" => ~call.lost)
    /\ Result(call.cmd = "ok")
    /\ UNCHANGED <<local, remote>>

\* The context is done, or the connection has broken before the reply.
GiveUp ==
    /\ call.cmd # "none" /\ (call.done \/ call.lost)
    /\ Result(FALSE)
    /\ orphans' = orphans \cup (IF call.cmd = "sent" THEN {<<call.step, call.run>>} ELSE {})
    /\ UNCHANGED <<local, scp, tmp, dest, inside, moved, refused>>

Orphan(command, n) ==
    /\ <<command, n>> \in orphans /\ orphans' = orphans \ {<<command, n>>}
    /\ Executes(command, n) \/ UNCHANGED <<tmp, dest, inside, moved>>
    /\ UNCHANGED <<call, local, scp, refused>>

Run == Send \/ Execute \/ Reply \/ GiveUp

----------------------------------------------------------------------------
(* uploadSCP, the client's side. *)

Check ==
    /\ At("check")
    /\ \E next \in IF call.done THEN {"close"} ELSE {"mkdir", "session"} :
         call' = [call EXCEPT !.step = next, !.failed = call.done]
    /\ UNCHANGED <<local, remote>>

\* What the receiver may still do with what it has been sent.
Leavings ==
    IF scp.step = "gone" \/ scp.wire = <<>> THEN {tmp[call.run]}
    ELSE {tmp[call.run]} \cup scp.got .. scp.got + Len(scp.wire)

\* Mutant: a failed transfer leaves its file.
MutFails ==
    /\ call' = [call EXCEPT !.step = "close", !.failed = TRUE]
    /\ scp' = NoReceiver
    /\ \E n \in Leavings : tmp' = [tmp EXCEPT ![call.run] = n]
    /\ UNCHANGED <<local, orphans, dest, inside, moved, refused>>

\* The session is closed, and the file removed unless the context is done.
Fails ==
    /\ call' = [call EXCEPT !.step = IF call.done THEN "close" ELSE "rm", !.failed = TRUE]
    /\ scp' = NoReceiver
    /\ \E n \in Leavings : tmp' = [tmp EXCEPT ![call.run] = n]
    /\ UNCHANGED <<local, orphans, dest, inside, moved, refused>>

\* The session has ended: the connection broke, the cancellation goroutine
\* closed it, or the receiver has gone.
Ended == call.lost \/ call.done \/ scp.step = "gone"

ClientKeeps == UNCHANGED local /\ UNCHANGED files

Session ==
    /\ At("session")
    /\ \/ Fails
       \/ /\ ~call.lost /\ To("greeting") /\ scp' = [NoReceiver EXCEPT !.step = "hello"]
          /\ ClientKeeps

Heard(answer) == scp.answers # <<>> /\ Head(scp.answers) = answer

readSCPResponse(from, to, then) ==
    /\ At(from)
    /\ \/ Heard("error") /\ Fails
       \/ scp.answers = <<>> /\ Ended /\ Fails
       \/ /\ Heard("ok") /\ To(to)
          /\ scp' = [scp EXCEPT !.answers = Tail(@), !.wire = @ \o then]
          /\ ClientKeeps

\* A write to the session's input: the header is the first.
Write(from, item, to) ==
    /\ At(from)
    /\ \/ Ended /\ Fails
       \/ /\ ~Ended /\ Len(scp.wire) < Window /\ To(to)
          /\ scp' = [scp EXCEPT !.wire = Append(@, item)]
          /\ ClientKeeps

\* Mutant: the loop goes one piece too far.
MutcopyWithContext ==
    /\ At("copy")
    /\ \/ Fails
       \/ /\ call.sent <= MaxLen /\ ~Ended /\ Len(scp.wire) < Window
          /\ scp' = [scp EXCEPT !.wire = Append(@, "data")]
          /\ call' = [call EXCEPT !.sent = @ + 1]
          /\ ClientKeeps
       \/ /\ ~call.done /\ To("size")
          /\ ends' = [ends EXCEPT ![call.run] = call.sent]
          /\ UNCHANGED <<open, cleanup, late, result, remote>>

\* One round of the loop: the file is not readable, or gives a piece or its
\* end.
copyWithContext ==
    /\ At("copy")
    /\ \/ Fails
       \/ /\ call.sent < MaxLen /\ ~Ended /\ Len(scp.wire) < Window
          /\ scp' = [scp EXCEPT !.wire = Append(@, "data")]
          /\ call' = [call EXCEPT !.sent = @ + 1]
          /\ ClientKeeps
       \/ /\ ~call.done /\ To("size")
          /\ ends' = [ends EXCEPT ![call.run] = call.sent]
          /\ UNCHANGED <<open, cleanup, late, result, remote>>

\* Mutant: the source is taken to be as long as it was.
MutSize == At("size") /\ To("zero") /\ UNCHANGED scp /\ ClientKeeps

Size ==
    /\ At("size")
    /\ \/ call.sent # call.size /\ Fails
       \/ call.sent = call.size /\ To("zero") /\ UNCHANGED scp /\ ClientKeeps

\* The zero byte that ends the file.
Finish == Write("zero", "zero", "confirm")

\* session.Wait, and a last look at the context.
Exit ==
    /\ At("exit")
    /\ \/ Ended /\ (call.done \/ call.lost \/ ~scp.good) /\ Fails
       \/ /\ scp.step = "gone" /\ scp.good /\ ~call.done /\ ~call.lost /\ To("mv")
          /\ scp' = NoReceiver /\ ClientKeeps

uploadSCP ==
    \/ Session
    \/ readSCPResponse("greeting", "header", <<>>)
    \/ Write("header", "header", "accept")
    \/ readSCPResponse("accept", "copy", <<>>)
    \/ copyWithContext \/ Size \/ Finish
    \/ readSCPResponse("confirm", "exit", <<"eof">>)
    \/ Exit

----------------------------------------------------------------------------
(* "scp -t" on the server.  The protocol has no frames: what follows the   *)
(* bytes that the header has announced is taken for the status.            *)

Says(answer, step) ==
    /\ scp' = [scp EXCEPT !.step = step, !.answers = Append(@, answer)]
    /\ UNCHANGED files

Gives(answer, step) ==
    /\ scp' = [scp EXCEPT !.step = step, !.wire = Tail(@), !.good = @ /\ answer = "ok",
                          !.answers = Append(@, answer)]
    /\ UNCHANGED files

Meets(step, items) == scp.step = step /\ scp.wire # <<>> /\ Head(scp.wire) \in items

AfterData(got) == IF got = call.size THEN "status" ELSE "data"

\* Mutant: there is no temporary name.
MutuploadTemporaryPath(length) ==
    dest' = [dest EXCEPT !.by = call.run, !.len = length] /\ UNCHANGED tmp

\* The receiver writes to the name it was given.
uploadTemporaryPath(length) ==
    tmp' = [tmp EXCEPT ![call.run] = length] /\ UNCHANGED dest

ReceiveHeader ==
    /\ Meets("header", {"header"})
    /\ \/ Gives("error", "gone")
       \/ /\ scp' = [scp EXCEPT !.step = AfterData(0), !.wire = Tail(@),
                                 !.answers = Append(@, "ok")]
          /\ uploadTemporaryPath(0)
          /\ UNCHANGED <<orphans, inside, moved, refused>>

\* A full disk is reported at the end.
ReceiveData ==
    /\ Meets("data", {"data", "zero"})
    /\ \E good \in {scp.good, FALSE} :
         /\ scp' = [scp EXCEPT !.step = AfterData(scp.got + 1), !.wire = Tail(@),
                               !.got = @ + 1, !.good = good]
         /\ IF good THEN uploadTemporaryPath(scp.got + 1) ELSE UNCHANGED <<tmp, dest>>
    /\ UNCHANGED <<orphans, inside, moved, refused>>

\* A byte of the file may be a zero, too.
ReceiveStatus ==
    \/ Meets("status", {"zero", "data"}) /\ Gives(IF scp.good THEN "ok" ELSE "error", "end")
    \/ Meets("status", {"data"}) /\ Gives("error", "gone")

ReceiveEnd ==
    \/ /\ Meets("end", {"eof"})
       /\ scp' = [scp EXCEPT !.step = "gone", !.wire = Tail(@)] /\ UNCHANGED files
    \/ Meets("end", {"zero", "data"}) /\ Gives("error", "gone")

Receiver ==
    /\ \/ scp.step = "hello" /\ (Says("ok", "header") \/ Says("error", "gone"))
       \/ ReceiveHeader \/ ReceiveData \/ ReceiveStatus \/ ReceiveEnd
    /\ UNCHANGED <<call, local>>

----------------------------------------------------------------------------
(* Closing, and what happens to the call from outside. *)

Closing == closeAll(cleanup \cup {"conn"})

Close ==
    /\ At("close") /\ Closing
    /\ Return(IF call.failed THEN "failed" ELSE "ok")
    /\ UNCHANGED <<late, ends, remote>>

\* The keepalives have failed on a broken connection.
startKeepalives ==
    /\ call.lost /\ "conn" \in open /\ Closing
    /\ UNCHANGED <<call, cleanup, late, ends, result, remote>>

\* The job's time is up, or the monitor stops.
Cancel ==
    /\ ~At("over") /\ ~call.done /\ call' = [call EXCEPT !.done = TRUE]
    /\ UNCHANGED <<local, remote>>

Break ==
    /\ call.step \in UploadSteps \cup {"rm"} /\ ~call.lost
    /\ call' = [call EXCEPT !.lost = TRUE]
    /\ UNCHANGED <<local, remote>>

Step == New \/ Check \/ Run \/ uploadSCP \/ Receiver \/ Close

Late == \E n \in Runs : LateDial(n) \/ LateClose(n)

Next ==
    \/ Begin \/ Step \/ Late \/ startKeepalives
    \/ Cancel \/ Break
    \/ \E command \in Commands, n \in Runs : Orphan(command, n)

\* A call goes on as long as something can happen; so does a late dial.
Spec == Init /\ [][Next]_vars /\ WF_vars(Step) /\ WF_vars(Late)

----------------------------------------------------------------------------
(* Properties. *)

TypeOK ==
    /\ call \in [run : Nat, step : Steps, done : BOOLEAN, lost : BOOLEAN,
                  size : 0 .. MaxLen, sent : 0 .. MaxLen, failed : BOOLEAN,
                  cmd : {"none", "sent", "ok", "bad"}]
    /\ open \subseteq Parts /\ cleanup \subseteq Parts
    /\ late \subseteq Runs \X {"dialing", "open"}
    /\ scp \in [step : {"hello", "header", "data", "status", "end", "gone"},
                got : Nat, good : BOOLEAN, answers : Seq({"ok", "error"}),
                wire : Seq({"header", "data", "zero", "eof"})]
    /\ orphans \subseteq Commands \X Runs
    /\ tmp \in [Runs -> {NoFile} \cup Nat]
    /\ dest \in [by : {0} \cup Runs, len : Nat, dir : BOOLEAN]
    /\ inside \in [Runs -> {NoFile} \cup Nat]
    /\ ends \in [Runs -> NoFile .. MaxLen]
    /\ moved \subseteq Runs /\ refused \subseteq Runs /\ result \in [Runs -> {"", "ok", "failed"}]

\* "Scheduled artifact jobs never leave a truncated published file behind":
\* what is at the destination is as long as the source was when the upload
\* that put it there reached the source's end, and so is every file that an
\* upload has put into a directory of that name.
PublishedIsWhole ==
    /\ dest.by # 0 => dest.len = ends[dest.by]
    /\ \A n \in Runs : inside[n] \in {NoFile, ends[n]}

\* The mv of run n has been executed.
Arrived(n) == IF dest.dir THEN inside[n] # NoFile ELSE n \in moved

\* The result of an upload is true.  A success has been published, or lies
\* inside the directory of that name.  A failure that was not cut off, by its
\* context or a broken connection, has published nothing, and has left
\* nothing behind unless the server failed to remove it, too.
ResultIsTrue ==
    /\ \A n \in Runs : result[n] = "ok" => Arrived(n)
    /\ At("over") /\ call.failed /\ ~call.done /\ ~call.lost =>
         ~Arrived(call.run) /\ (tmp[call.run] = NoFile \/ call.run \in refused)

\* "The caller must call Close when done": and then every connection, those
\* to the agents and to the jump host included, is closed, wherever the
\* connecting or the upload has failed.
NothingStaysOpen == At("over") => open = {}

\* The dial that nobody waited for any more is closed in the end, and the
\* client and the receiver never wait for each other: with nobody to cancel
\* it an upload ends whatever becomes of its source.
UploadEnds == []<>(At("over") /\ late = {})

(***************************************************************************)
(* The inductive invariant: why the properties above hold.  A run that is  *)
(* over may still act through its orphans, so what they may do is bounded  *)
(* as well as what the call itself does.                                   *)
(***************************************************************************)

Sending == {"greeting", "header", "accept", "copy", "size", "zero", "confirm", "exit"}

\* After these steps nothing more of a run's own happens to its length.
Ending == {"rm", "close", "over"}

\* The call belongs to a run, and has failed where it says so.
CallOfARun ==
    /\ call.run <= MaxRuns /\ (call.run = 0 => At("over") /\ ~call.failed)
    /\ call.cmd # "none" => call.step \in Commands
    /\ call.step \in NewSteps \cup UploadSteps => ~call.failed
    /\ At("rm") => call.failed

\* What a step has opened and closeAll does not know of yet.
InHand ==
    IF At("jumpHandshake") THEN {"jump"}
    ELSE IF call.step \in {"handshake", "rm", "close"} \cup UploadSteps THEN {"conn"} ELSE {}

OpenIsKnown == open \subseteq cleanup \cup InHand /\ (At("over") => cleanup = {})

\* A command without a caller belongs to a run that was cut off.
OrphansAreCutOff ==
    \A o \in orphans :
      \/ o[2] < call.run
      \/ o[2] = call.run /\ call.step \in Ending /\ (call.done \/ call.lost)

\* A run publishes nothing before its mv, and one to come leaves no trace.
NothingEarly ==
    \A n \in Runs :
      /\ (n > call.run \/ (n = call.run /\ call.step \notin Ending \cup {"mv"}))
           => n \notin moved /\ dest.by # n /\ inside[n] = NoFile
      /\ (n > call.run \/ (n = call.run /\ call.step \notin Ending \cup Sending \cup {"mv"}))
           => tmp[n] = NoFile

\* There is a receiver only while the client sends, and it is in step with it.
InStep ==
    /\ call.step \notin Sending => scp.step = "gone"
    /\ scp.step \in {"hello", "header"} => scp.got = 0
    /\ scp.step = "hello" => At("greeting") /\ scp.answers = <<>>
    /\ At("greeting") =>
         /\ scp.wire = <<>> /\ scp.step \in {"hello", "header", "gone"}
         /\ scp.step = "gone" => scp.answers = <<"error">>

\* What a receiver without an error has written, and when it may end.
WrittenIsReceived ==
    call.step \in Sending \ {"greeting"} /\ scp.step # "header" /\ scp.good =>
      tmp[call.run] = scp.got /\ (scp.step # "data" => scp.got = call.size)

\* The source has been read to the end that the header announced.
SizeIsEnd ==
    /\ At("size") => ends[call.run] = call.sent
    /\ call.step \in {"zero", "confirm", "exit", "mv"} => ends[call.run] = call.size

\* What may still be renamed is whole.
MovedIsWhole ==
    \A n \in Runs :
      (n = call.run /\ At("mv")) \/ <<"mv", n>> \in orphans => tmp[n] \in {NoFile, ends[n]}

\* What the call has been told, or will be, is what has happened.
TellsTruth ==
    /\ At("mv") => (Arrived(call.run) <=> call.cmd = "ok")
    /\ At("close") => call.failed \/ Arrived(call.run)
    /\ (call.step \in Ending /\ call.failed /\ ~call.done /\ ~call.lost) =>
         /\ ~Arrived(call.run)
         /\ \/ tmp[call.run] = NoFile \/ call.run \in refused
            \/ At("rm") /\ call.cmd \in {"none", "sent"}

IInv ==
    /\ TypeOK /\ CallOfARun /\ OpenIsKnown /\ OrphansAreCutOff /\ NothingEarly
    /\ InStep /\ WrittenIsReceived /\ SizeIsEnd /\ MovedIsWhole /\ TellsTruth
    /\ PublishedIsWhole /\ ResultIsTrue
=============================================================================

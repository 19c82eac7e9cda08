--------------------------- MODULE UploadSession ---------------------------
(***************************************************************************)
(* `zircon publish` and the GUI's publish panel: a dump is packed, sent in *)
(* chunks to a session on the Zdex server and finished into a published    *)
(* dump (zdex/src/Upload.cpp, Client.cpp).  uploads.json remembers the     *)
(* open session of a dump so that a run which stopped is picked up by the  *)
(* next one (Config.cpp); published.txt remembers what went up already     *)
(* (app/Publish.cpp).  Runs of several commands share both files, the temp *)
(* folder and the server.                                                  *)
(*                                                                         *)
(* Content is <<file, version>>: what a file held between two rewrites, or *)
(* <<file, part>> with a part of Torn: what else is read of it while it is *)
(* being written, the beginning of one version, an end of another or       *)
(* nothing.  Path, size and time of last write tell two contents apart, so *)
(* the fingerprint of a file is its content.                               *)
(***************************************************************************)
EXTENDS Integers, FiniteSets

CONSTANTS Runs,         \* publish commands; one that failed may be run again
          Files,        \* dumps on disk
          None,         \* no content, no session
          FileOf,       \* the dump each run publishes
          LabelOf,      \* the label it asks for
          Unchecked,    \* runs that do not look in published.txt: --force, the GUI
          Packed,       \* dumps sent as they are
          StemOf,       \* names the temporary file of a dump
          Rewritten,    \* bound: dumps that are dumped again
          MaxVersion,   \* bound: rewrites of a dump
          Torn,         \* what is read of a dump while it is being written
          SizeOf,       \* length of what is sent for each version and part
          Chunks,       \* chunks of a session, sent in order
          Ids,          \* bound: sessions, in the order the server opens them
          MaxAttempts,  \* kMaxAttempts
          Faults,       \* what may go wrong
          MaxFaults,    \* bound: how often
          OneAtATime,   \* no two runs overlap
          RewriteAnyTime  \* a dump may be rewritten while it is being published

FaultKinds == {"request", "reply", "refuse", "kill", "tear", "cancel", "expire", "chunk"}
Versions == 1 .. MaxVersion
Readings == Versions \cup Torn
Contents == Files \X Readings

ASSUME ConstantsAssumption ==
  /\ None \notin Contents /\ None \notin Ids
  /\ FileOf \in [Runs -> Files]
  /\ DOMAIN LabelOf = Runs
  /\ Unchecked \subseteq Runs
  /\ Packed \subseteq Files
  /\ DOMAIN StemOf = Files
  /\ Rewritten \subseteq Files /\ MaxVersion \in Nat \ {0}
  /\ Torn \cap Versions = {}
  /\ \A v \in Readings : SizeOf[v] \in Nat
  /\ Chunks \subseteq Nat
  /\ Ids \subseteq Nat
  /\ MaxAttempts \in Nat \ {0}
  /\ Faults \subseteq FaultKinds
  /\ MaxFaults \in Nat
  /\ {OneAtATime, RewriteAnyTime} \subseteq BOOLEAN

VARIABLES version,     \* of each dump on disk
          writing,     \* dumps that are being written over
          temp,        \* the packed file of each stem in the temp folder
          records,     \* uploads.json
          remembered,  \* published.txt
          sessions,    \* the server's
          published,   \* dumps on the server
          faults,      \* how much went wrong
          unanswered,  \* history: sessions asked of or finished without an answer
          pc,          \* where each run is
          hash,        \* content it looked up in published.txt
          packs,       \* the runs that send a temporary file
          payload,     \* content it read to send
          finger,      \* fingerprint of its dump
          copy,        \* uploads.json as it read it
          id,          \* its session
          todo,        \* chunks it has to send
          tries,       \* attempts at its request that failed
          verdict      \* what Upload returns

disk   == <<version, writing, temp, records, remembered>>
server == <<sessions, published>>
run    == <<pc, hash, packs, payload, finger, copy, id, todo, tries, verdict>>
ghosts == <<faults, unanswered>>
vars   == <<disk, server, ghosts, run>>

Labels == {LabelOf[r] : r \in Runs}
Stems == {StemOf[f] : f \in Files}
Records == [finger : Contents, id : Ids, size : Nat]
\* `of` is a history field: the content the session was opened for.
Session == [state : {"none", "open", "closed", "finished"}, label : Labels \cup {None},
            of : Contents \cup {None}, chunks : [Chunks -> Contents \cup {None}]]

\* Rewriting uploads.json.
Updating == {"forget", "remember", "close"}
Asking == {"status", "init", "send", "finish", "recheck", "resend", "refinish"}
Stopped == {"failed", "cancelled", "killed"}
Done == {"ok", "already"}
Returned == Stopped \cup Done
States == {"begin", "upload", "compress", "read", "look", "log"} \cup Updating \cup Asking \cup Returned

Nothing == [state |-> "none", label |-> None, of |-> None, chunks |-> [k \in Chunks |-> None]]

Init ==
  /\ version = [f \in Files |-> 1]
  /\ writing = {}
  /\ temp = [s \in Stems |-> None]
  /\ records = {}
  /\ remembered = {}
  /\ sessions = [i \in Ids |-> Nothing]
  /\ published = {}
  /\ faults = 0 /\ unanswered = {}
  /\ pc = [r \in Runs |-> "begin"]
  /\ hash = [r \in Runs |-> None]
  /\ packs = {}
  /\ payload = [r \in Runs |-> None]
  /\ finger = [r \in Runs |-> None]
  /\ copy = [r \in Runs |-> None]
  /\ id = [r \in Runs |-> None]
  /\ todo = [r \in Runs |-> {}]
  /\ tries = [r \in Runs |-> 0]
  /\ verdict = [r \in Runs |-> "none"]

Goto(r, state) == pc' = [pc EXCEPT ![r] = state]
Now(r) == <<FileOf[r], version[FileOf[r]]>>
StemFor(r) == StemOf[FileOf[r]]
Idle(r) == pc[r] \in Returned \cup {"begin"}
Strikes(kind) == kind \in Faults /\ faults < MaxFaults /\ faults' = faults + 1
Fault(kind) == Strikes(kind) /\ UNCHANGED unanswered

\* What a look at a dump finds.  One that takes time is a step of its own all the same:
\* what is whole was read before the dump was written over (WriteJsonFile truncates it and
\* then writes it) or after, and what is not is read while that goes on.
Seen(f) == IF f \in writing THEN {f} \X Torn ELSE {<<f, version[f]>>}

\* The temporary file a run makes, it removes.
Cleanup(r) == temp' = IF r \in packs THEN [temp EXCEPT ![StemFor(r)] = None] ELSE temp
-----------------------------------------------------------------------------
(* Before anything is sent                                                 *)

\* CommandPublish asks published.txt first; the GUI goes straight to Upload.
Begin(r) ==
  /\ pc[r] = "begin"
  /\ OneAtATime => \A s \in Runs \ {r} : Idle(s)
  /\ RewriteAnyTime \/ FileOf[r] \notin writing
  /\ \E content \in IF r \in Unchecked THEN {None} ELSE Seen(FileOf[r]) :
       /\ hash' = [hash EXCEPT ![r] = content]
       /\ Goto(r, IF content \in remembered THEN "already" ELSE "upload")
  /\ UNCHANGED <<disk, server, ghosts, packs, payload, finger, copy, id, todo, tries, verdict>>

\* A dump that is being written may be found too short to be worth compressing.
ChooseWhatToSend(r) ==
  /\ pc[r] = "upload"
  /\ \/ FileOf[r] \in Packed \cup writing /\ Goto(r, "read") /\ packs' = packs \ {r}
     \/ FileOf[r] \notin Packed /\ Goto(r, "compress") /\ packs' = packs \cup {r}
  /\ UNCHANGED <<disk, server, ghosts, hash, payload, finger, copy, id, todo, tries, verdict>>

PackedByOther(r) == \E s \in Runs \ {r} : pc[s] = "compress" /\ StemFor(s) = StemFor(r)

\* GzipFile opens both files for itself alone (fopen_s; see Log.cpp:51): nobody writes the
\* dump from the first byte it reads to the last, nor reads what it makes of it.
Compress(r) ==
  /\ pc[r] = "compress"
  /\ FileOf[r] \notin writing
  /\ temp' = [temp EXCEPT ![StemFor(r)] = Now(r)]
  /\ Goto(r, "read")
  /\ UNCHANGED <<version, writing, records, remembered, server, ghosts,
                 hash, packs, payload, finger, copy, id, todo, tries, verdict>>

\* Nor does it open what somebody else has open for writing.
CannotCompress(r) ==
  /\ pc[r] = "compress"
  /\ FileOf[r] \in writing \/ PackedByOther(r)
  /\ Cleanup(r)
  /\ Goto(r, "failed")
  /\ UNCHANGED <<version, writing, records, remembered, server, ghosts,
                 hash, packs, payload, finger, copy, id, todo, tries, verdict>>

\* None where the file is empty or does not open.
ToSend(r) ==
  IF r \in packs THEN {temp[StemFor(r)]} \cup {c \in {None} : PackedByOther(r)}
  ELSE Seen(FileOf[r]) \cup {c \in {None} : FileOf[r] \in writing}

ReadPayload(r) ==
  /\ pc[r] = "read"
  /\ \E content \in ToSend(r) :
       /\ payload' = [payload EXCEPT ![r] = content]
       /\ Goto(r, IF content = None THEN "failed" ELSE "look")
  /\ UNCHANGED <<disk, server, ghosts, hash, packs, finger, copy, id, todo, tries, verdict>>

SizeFor(r) == SizeOf[payload[r][2]]

\* Mutant: a record is resumed whatever its size.
MayResumeAny(r, record) == TRUE

\* Mutant: compared with the length of the dump, not of what was sent of it.
MayResumeOther(r, record) == record.size > SizeFor(r)

\* The size covers what the fingerprint, taken after the payload was read, does not.
MayResume(r, record) == record.size = SizeFor(r)

\* FingerprintFile looks at the dump once more.
LookForSession(r) ==
  /\ pc[r] = "look"
  /\ \E print \in Seen(FileOf[r]) :
       /\ finger' = [finger EXCEPT ![r] = print]
       /\ \/ /\ \A record \in records : record.finger # print
             /\ Goto(r, "init") /\ UNCHANGED id
          \/ \E record \in records :
               /\ record.finger = print
               /\ IF MayResume(r, record)
                  THEN Goto(r, "status") /\ id' = [id EXCEPT ![r] = record.id]
                  ELSE Goto(r, "forget") /\ UNCHANGED id
  /\ UNCHANGED <<disk, server, ghosts, hash, packs, payload, copy, todo, tries, verdict>>
-----------------------------------------------------------------------------
(* uploads.json is read, changed and written back                          *)

LoadUploads(r) ==
  /\ pc[r] \in Updating /\ copy[r] = None
  /\ copy' = [copy EXCEPT ![r] = records]
  /\ UNCHANGED <<disk, server, ghosts, pc, hash, packs, payload, finger, id, todo, tries, verdict>>

Others(r) == {record \in copy[r] : record.finger # finger[r]}
Record(r) == [finger |-> finger[r], id |-> id[r], size |-> SizeFor(r)]

Stored(r) == copy' = [copy EXCEPT ![r] = None]

\* Mutant: what was published is remembered of every upload that came to its end.
ForgetUploadAndLog(r) ==
  /\ pc[r] \in {"forget", "close"} /\ copy[r] # None
  /\ records' = IF Others(r) # copy[r] THEN Others(r) ELSE records
  /\ Stored(r)
  /\ Goto(r, IF pc[r] = "forget" THEN "init" ELSE "log")
  /\ UNCHANGED <<version, writing, temp, remembered, server, ghosts,
                 hash, packs, payload, finger, id, todo, tries, verdict>>

ForgetUpload(r) ==
  /\ pc[r] \in {"forget", "close"} /\ copy[r] # None
  /\ records' = IF Others(r) # copy[r] THEN Others(r) ELSE records
  /\ Stored(r)
  /\ Goto(r, IF pc[r] = "forget" THEN "init"
             ELSE IF verdict[r] = "failed" THEN "failed" ELSE "log")
  /\ UNCHANGED <<version, writing, temp, remembered, server, ghosts,
                 hash, packs, payload, finger, id, todo, tries, verdict>>

RememberUpload(r) ==
  /\ pc[r] = "remember" /\ copy[r] # None
  /\ records' = Others(r) \cup {Record(r)}
  /\ Stored(r)
  /\ Goto(r, "send")
  /\ UNCHANGED <<version, writing, temp, remembered, server, ghosts,
                 hash, packs, payload, finger, id, todo, tries, verdict>>
-----------------------------------------------------------------------------
(* What a request does to the server                                       *)

Open(r) == sessions[id[r]].state = "open"
Missing(r) == {k \in Chunks : sessions[id[r]].chunks[k] = None}
FirstOf(r) == CHOOSE k \in todo[r] : \A j \in todo[r] : k <= j

NextId(i) == sessions[i].state = "none" /\ \A j \in Ids : j < i => sessions[j].state # "none"

OpenSession(r, i) ==
  /\ NextId(i)
  /\ sessions' = [sessions EXCEPT ![i] = [Nothing EXCEPT !.state = "open", !.label = LabelOf[r],
                                                          !.of = payload[r]]]
  /\ UNCHANGED published

TakeChunk(r) ==
  /\ sessions' = IF Open(r) THEN [sessions EXCEPT ![id[r]].chunks[FirstOf(r)] = payload[r]]
                 ELSE sessions
  /\ UNCHANGED published

Known(chunks) == \E d \in published : d.chunks = chunks

FinishSession(r) ==
  IF Open(r) /\ Missing(r) = {}
  THEN LET s == sessions[id[r]] IN
       /\ sessions' = [sessions EXCEPT ![id[r]].state = "finished"]
       /\ published' = IF Known(s.chunks) THEN published
                       ELSE published \cup {[id |-> id[r], label |-> s.label, chunks |-> s.chunks]}
  ELSE UNCHANGED server

Serve(r) ==
  \/ pc[r] \in {"status", "recheck"} /\ UNCHANGED server
  \/ pc[r] = "init" /\ \E i \in Ids : OpenSession(r, i)
  \/ pc[r] \in {"send", "resend"} /\ todo[r] # {} /\ TakeChunk(r)
  \/ pc[r] \in {"finish", "refinish"} /\ FinishSession(r)
-----------------------------------------------------------------------------
(* Client::Send: attempts that fail are made again                         *)

Pending(r) == pc[r] \in Asking /\ (pc[r] \in {"send", "resend"} => todo[r] # {})

Again(r) == tries[r] < MaxAttempts

LoseRequest(r) ==
  /\ Pending(r) /\ Again(r)
  /\ Fault("request")
  /\ tries' = [tries EXCEPT ![r] = @ + 1]
  /\ UNCHANGED <<disk, server, pc, hash, packs, payload, finger, copy, id, todo, verdict>>

LoseReply(r) ==
  /\ Pending(r) /\ Again(r)
  /\ Fault("reply")
  /\ Serve(r)
  /\ tries' = [tries EXCEPT ![r] = @ + 1]
  /\ UNCHANGED <<disk, pc, hash, packs, payload, finger, copy, id, todo, verdict>>

\* What Upload does about a request that came to nothing.
NoAnswer(r) ==
  /\ tries' = [tries EXCEPT ![r] = 0]
  /\ CASE pc[r] = "status" -> Goto(r, "forget") /\ UNCHANGED <<temp, verdict>>
       [] pc[r] \in {"init", "send", "resend"} ->
            Goto(r, "failed") /\ Cleanup(r) /\ UNCHANGED verdict
       [] pc[r] \in {"finish", "refinish"} ->
            Goto(r, "close") /\ Cleanup(r) /\ verdict' = [verdict EXCEPT ![r] = "failed"]
       [] pc[r] = "recheck" -> Goto(r, "refinish") /\ UNCHANGED <<temp, verdict>>
  /\ unanswered' = IF pc[r] \in {"status", "finish", "refinish"} THEN unanswered \cup {id[r]}
                   ELSE unanswered
  /\ UNCHANGED <<version, writing, records, remembered, server, hash, packs, payload, finger, copy, id, todo>>

GiveUp(r) == Pending(r) /\ ~Again(r) /\ NoAnswer(r) /\ UNCHANGED faults

\* A 401, a quota, an answer that is not JSON.
Refuse(r) == Pending(r) /\ Again(r) /\ Strikes("refuse") /\ NoAnswer(r)
-----------------------------------------------------------------------------
(* The requests that are answered                                          *)

Answered(r) == Again(r) /\ tries' = [tries EXCEPT ![r] = 0]

\* Mutant: a session is resumed whether it is open or not.
StatusAnsweredClosed(r) ==
  /\ pc[r] = "status" /\ Answered(r)
  /\ Goto(r, "send") /\ todo' = [todo EXCEPT ![r] = Missing(r)]
  /\ UNCHANGED <<disk, server, ghosts, hash, packs, payload, finger, copy, id, verdict>>

StatusAnswered(r) ==
  /\ pc[r] = "status" /\ Answered(r)
  /\ IF Open(r) THEN Goto(r, "send") /\ todo' = [todo EXCEPT ![r] = Missing(r)]
     ELSE Goto(r, "forget") /\ UNCHANGED todo
  /\ UNCHANGED <<disk, server, ghosts, hash, packs, payload, finger, copy, id, verdict>>

InitAnswered(r) ==
  /\ pc[r] = "init" /\ Answered(r)
  /\ \E i \in Ids : OpenSession(r, i) /\ id' = [id EXCEPT ![r] = i]
  /\ todo' = [todo EXCEPT ![r] = Chunks]
  /\ Goto(r, "remember")
  /\ UNCHANGED <<disk, ghosts, hash, packs, payload, finger, copy, verdict>>

ChunkAnswered(r) ==
  /\ pc[r] \in {"send", "resend"} /\ todo[r] # {} /\ Answered(r)
  /\ TakeChunk(r)
  /\ IF Open(r)
     THEN todo' = [todo EXCEPT ![r] = @ \ {FirstOf(r)}] /\ UNCHANGED <<pc, temp>>
     ELSE Goto(r, "failed") /\ Cleanup(r) /\ UNCHANGED todo
  /\ UNCHANGED <<version, writing, records, remembered, ghosts, hash, packs, payload, finger, copy, id, verdict>>

AllSent(r) ==
  /\ pc[r] \in {"send", "resend"} /\ todo[r] = {}
  /\ Goto(r, IF pc[r] = "send" THEN "finish" ELSE "refinish")
  /\ UNCHANGED <<disk, server, ghosts, hash, packs, payload, finger, copy, id, todo, tries, verdict>>

\* keep_going: the cancel button.  A compressor that fails leaves the same behind.
Cancel(r) ==
  /\ \/ pc[r] = "compress"
     \/ pc[r] \in {"send", "resend"} /\ todo[r] # {}
  /\ Fault("cancel")
  /\ Cleanup(r)
  /\ Goto(r, "cancelled")
  /\ tries' = [tries EXCEPT ![r] = 0]
  /\ UNCHANGED <<version, writing, records, remembered, server, hash, packs, payload, finger, copy, id, todo, verdict>>

\* Mutant: a session that is no longer open is taken for one that is finished.
ClosingWell(r, outcome) ==
  /\ verdict' = [verdict EXCEPT ![r] = IF outcome = "failed" THEN "duplicate" ELSE outcome]
  /\ Cleanup(r)
  /\ Goto(r, "close")
  /\ UNCHANGED <<version, writing, records, remembered>>

Closing(r, outcome) ==
  /\ verdict' = [verdict EXCEPT ![r] = outcome]
  /\ Cleanup(r)
  /\ Goto(r, "close")
  /\ UNCHANGED <<version, writing, records, remembered>>

\* A session that is finished already is answered as a duplicate or as closed: the
\* client takes either.
FinishAnswered(r) ==
  /\ pc[r] \in {"finish", "refinish"} /\ Answered(r)
  /\ FinishSession(r)
  /\ \/ /\ Open(r) /\ Missing(r) = {}
        /\ Closing(r, IF Known(sessions[id[r]].chunks) THEN "duplicate" ELSE "ok")
     \/ /\ Open(r) /\ Missing(r) # {} /\ pc[r] = "finish"
        /\ Goto(r, "recheck")
        /\ UNCHANGED <<disk, verdict>>
     \/ /\ Open(r) /\ Missing(r) # {} /\ pc[r] = "refinish"
        /\ Closing(r, "failed")
     \/ /\ sessions[id[r]].state = "finished"
        /\ Closing(r, "duplicate")
     \/ /\ ~Open(r)
        /\ Closing(r, "failed")
  /\ UNCHANGED <<ghosts, hash, packs, payload, finger, copy, id, todo>>

RecheckAnswered(r) ==
  /\ pc[r] = "recheck" /\ Answered(r)
  /\ IF Open(r) THEN Goto(r, "resend") /\ todo' = [todo EXCEPT ![r] = Missing(r)]
     ELSE Goto(r, "refinish") /\ UNCHANGED todo
  /\ UNCHANGED <<disk, server, ghosts, hash, packs, payload, finger, copy, id, verdict>>

\* RememberPublished, under the hash taken before the upload.
LogPublished(r) ==
  /\ pc[r] = "log"
  /\ remembered' = remembered \cup ({hash[r]} \ {None})
  /\ Goto(r, "ok")
  /\ UNCHANGED <<version, writing, temp, records, server, ghosts,
                 hash, packs, payload, finger, copy, id, todo, tries, verdict>>
-----------------------------------------------------------------------------
(* Around the runs                                                         *)

\* Killed as it compresses, it leaves a part of the temporary file.
Kill(r) ==
  /\ ~Idle(r)
  /\ Fault("kill")
  /\ Goto(r, "killed")
  /\ \/ UNCHANGED temp
     \/ /\ pc[r] = "compress"
        /\ \E part \in Torn : temp' = [temp EXCEPT ![StemFor(r)] = <<FileOf[r], part>>]
  /\ Stored(r)
  /\ tries' = [tries EXCEPT ![r] = 0]
  /\ UNCHANGED <<version, writing, records, remembered, server,
                 hash, packs, payload, finger, id, todo, verdict>>

\* Killed with uploads.json truncated and not yet written: what is left of it does not
\* parse, which LoadUploads takes for an empty list.
TearUploads(r) ==
  /\ pc[r] \in Updating /\ copy[r] # None
  /\ Fault("tear")
  /\ records' = {}
  /\ Goto(r, "killed")
  /\ Stored(r)
  /\ UNCHANGED <<version, writing, temp, remembered, server, hash, packs, payload, finger, id, todo, tries, verdict>>

\* The same command once more.
Retry(r) ==
  /\ pc[r] \in Stopped
  /\ Goto(r, "begin")
  /\ hash' = [hash EXCEPT ![r] = None]
  /\ packs' = packs \ {r}
  /\ payload' = [payload EXCEPT ![r] = None]
  /\ finger' = [finger EXCEPT ![r] = None]
  /\ id' = [id EXCEPT ![r] = None]
  /\ todo' = [todo EXCEPT ![r] = {}]
  /\ verdict' = [verdict EXCEPT ![r] = "none"]
  /\ UNCHANGED <<disk, server, ghosts, copy, tries>>

\* A game dumped again to the same path: WriteJsonFile shares the file with whoever reads
\* it and takes its time.
BeginRewrite(f) ==
  /\ f \in Rewritten \ writing /\ version[f] < MaxVersion
  /\ RewriteAnyTime \/ \A r \in Runs : FileOf[r] = f => Idle(r)
  /\ writing' = writing \cup {f}
  /\ UNCHANGED <<version, temp, records, remembered, server, ghosts, run>>

EndRewrite(f) ==
  /\ f \in writing
  /\ writing' = writing \ {f}
  /\ version' = [version EXCEPT ![f] = @ + 1]
  /\ UNCHANGED <<temp, records, remembered, server, ghosts, run>>

\* Sessions expire after 24 h.
Expire(i) ==
  /\ sessions[i].state = "open"
  /\ Fault("expire")
  /\ sessions' = [sessions EXCEPT ![i].state = "closed"]
  /\ UNCHANGED <<disk, published, run>>

\* The server turns out not to hold a chunk it took.
LoseChunk(i, k) ==
  /\ sessions[i].state = "open" /\ sessions[i].chunks[k] # None
  /\ Fault("chunk")
  /\ sessions' = [sessions EXCEPT ![i].chunks[k] = None]
  /\ UNCHANGED <<disk, published, run>>

RunStep(r) ==
  \/ Begin(r) \/ ChooseWhatToSend(r) \/ Compress(r) \/ CannotCompress(r)
  \/ ReadPayload(r) \/ LookForSession(r)
  \/ LoadUploads(r) \/ ForgetUpload(r) \/ RememberUpload(r)
  \/ StatusAnswered(r) \/ InitAnswered(r) \/ ChunkAnswered(r) \/ AllSent(r)
  \/ FinishAnswered(r) \/ RecheckAnswered(r) \/ GiveUp(r) \/ LogPublished(r)

Next ==
  \/ \E r \in Runs :
       \/ RunStep(r) \/ Retry(r)
       \/ LoseRequest(r) \/ LoseReply(r) \/ Refuse(r) \/ Cancel(r) \/ Kill(r) \/ TearUploads(r)
  \/ \E f \in Files : BeginRewrite(f) \/ EndRewrite(f)
  \/ \E i \in Ids : Expire(i) \/ \E k \in Chunks : LoseChunk(i, k)

Spec == Init /\ [][Next]_vars

\* A run goes on, the network answers in the end, a dump that is being written gets
\* written, and somebody who was told that publishing failed tries again.
FairSpec == /\ Spec
            /\ \A r \in Runs : WF_vars(RunStep(r)) /\ WF_vars(Retry(r))
            /\ \A f \in Files : WF_vars(EndRewrite(f))
-----------------------------------------------------------------------------
(* Properties                                                              *)

TypeOK ==
  /\ version \in [Files -> Versions]
  /\ writing \subseteq Files /\ \A f \in writing : version[f] + 1 \in Versions
  /\ temp \in [Stems -> Contents \cup {None}]
  /\ records \subseteq Records
  /\ remembered \subseteq Contents
  /\ sessions \in [Ids -> Session]
  /\ published \subseteq [id : Ids, label : Labels, chunks : [Chunks -> Contents]]
  /\ faults \in 0 .. MaxFaults
  /\ unanswered \subseteq Ids
  /\ pc \in [Runs -> States]
  /\ hash \in [Runs -> Contents \cup {None}]
  /\ packs \subseteq Runs
  /\ payload \in [Runs -> Contents \cup {None}]
  /\ finger \in [Runs -> Contents \cup {None}]
  /\ \A r \in Runs : copy[r] # None => copy[r] \subseteq Records
  /\ id \in [Runs -> Ids \cup {None}]
  /\ todo \in [Runs -> SUBSET Chunks]
  /\ tries \in [Runs -> 0 .. MaxAttempts]
  /\ verdict \in [Runs -> {"none", "ok", "duplicate", "failed"}]

Whole(chunks, content) == \A k \in Chunks : chunks[k] = content

\* Two readings of one dump that came to the same length: all that a record, which has a
\* fingerprint and a size, can tell of what was read.
Like(a, b) == a[1] = b[1] /\ SizeOf[a[2]] = SizeOf[b[2]]

AllLike(chunks, content) == \A k \in Chunks : Like(chunks[k], content)

\* Every session holds, of the dump it was opened for, what came to the length it was
\* opened with, and the records and runs that lead to it agree on which that is: what
\* resuming rests on.
SessionsAgree ==
  /\ \A i \in Ids, k \in Chunks : sessions[i].chunks[k] # None =>
       sessions[i].of # None /\ Like(sessions[i].chunks[k], sessions[i].of)
  /\ \A record \in records :
       \E v \in Readings : /\ SizeOf[v] = record.size
                          /\ sessions[record.id].of = <<record.finger[1], v>>
  /\ \A r \in Runs : pc[r] \in Asking \ {"init"} => Like(sessions[id[r]].of, payload[r])

\* What goes up is of one dump and of one length from its first chunk to its last, however
\* the dump is rewritten, torn and read again between two attempts: never the beginning of
\* one version and the end of one of another length (Upload.cpp:126, "start over instead
\* of splicing two of them together").  And no record leads to a session that would
\* make it so.
PublishedWhole ==
  /\ \A d \in published : \E content \in Contents : AllLike(d.chunks, content)
  /\ SessionsAgree

\* Told that publishing worked, the dump on the server is of the file named and of the
\* length that this run read of it, all of it, and under the label asked for unless the
\* server had it already (Upload.cpp:185-250, report.ok).
OkIsPublished ==
  \A r \in Runs : verdict[r] \in {"ok", "duplicate"} =>
    /\ payload[r] # None /\ payload[r][1] = FileOf[r]
    /\ \E d \in published :
         /\ AllLike(d.chunks, payload[r])
         /\ verdict[r] = "ok" => d.id = id[r] /\ d.label = LabelOf[r]

\* published.txt names only dumps that went up: nothing is refused as "already
\* published" that never was (Publish.cpp:513).
RememberedIsPublished ==
  \A content \in remembered : \E d \in published : Whole(d.chunks, content)

\* A dropped connection picks up where it stopped instead of starting over
\* (README.md:879): a session is opened only when no open one holds part of the dump,
\* but for one whose status or finish came to nothing.
StartsOverOnlyIfGone ==
  [][\A r \in Runs : InitAnswered(r) =>
       \A i \in Ids \ unanswered : sessions[i].state = "open" =>
         \A k \in Chunks : sessions[i].chunks[k] # payload[r]]_vars

\* A dump somebody keeps trying to publish is published.
EventuallyPublished == \A r \in Runs : <>(pc[r] \in Done)
=============================================================================

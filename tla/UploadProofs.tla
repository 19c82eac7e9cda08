----------------------------- MODULE UploadProofs ---------------------------
(***************************************************************************)
(* Proofs about UploadSession, for every set of runs, dumps, sessions and  *)
(* chunks, and for as many rewrites and faults as one likes.               *)
(*                                                                         *)
(* A session is opened for one reading of a dump and takes only what came  *)
(* to the same length, so that all there is to show is that whoever comes  *)
(* to a session by way of a record has such a reading to send.  The record *)
(* names it by the fingerprint of its dump and the size of what was sent.  *)
(***************************************************************************)
EXTENDS UploadSession, TLAPS, WellFoundedInduction

\* No dump is written over while it is being published, and nobody is killed in the
\* middle of packing what another run is about to read: what was read of a dump is then
\* what it is, and Like is equality.
Still == ~RewriteAnyTime /\ (OneAtATime \/ "kill" \notin Faults)

Fits(a, b) == Like(a, b) /\ (Still => a = b)

Fill(chunks, content) == \A k \in Chunks : Fits(chunks[k], content)

\* No two dumps are packed into the same temporary file.
StemsApart == \A f, g \in Files : StemOf[f] = StemOf[g] => f = g

\* A dump is published under one label: a session keeps the one it was opened with.
OneLabelEach == \A r, s \in Runs : FileOf[r] = FileOf[s] => LabelOf[r] = LabelOf[s]

\* What a run knows by the time it is somewhere.
HasPayload == {"look", "log"} \cup Updating \cup Asking
HasFinger  == Updating \cup Asking
HasSession == {"remember", "close", "log"} \cup (Asking \ {"init"})

Knows(r) ==
  /\ pc[r] \in HasPayload => payload[r] # None
  /\ pc[r] \in HasFinger => finger[r] # None
  /\ pc[r] \in HasSession => id[r] # None
  /\ verdict[r] # "none" => pc[r] \in {"close", "log"} \cup Returned
  /\ pc[r] = "close" => verdict[r] # "none"
  /\ pc[r] = "log" => verdict[r] \in {"ok", "duplicate"}

\* What a run has read is of its own dump.
OwnDump(r) ==
  /\ payload[r] # None => payload[r][1] = FileOf[r]
  /\ finger[r] # None => finger[r][1] = FileOf[r]

\* A record leads to a session of its dump, opened for what its size says.
Leads(record) ==
  \E v \in Readings : /\ SizeOf[v] = record.size
                      /\ sessions[record.id].of = <<record.finger[1], v>>

CopyLeads(r) == copy[r] # None => \A record \in copy[r] : Leads(record)

Agrees(r) ==
  pc[r] \in HasSession => sessions[id[r]].of # None /\ Fits(sessions[id[r]].of, payload[r])

\* What a run that was told so has published.
OkIsOwn(r) ==
  verdict[r] \in {"ok", "duplicate"} =>
    /\ payload[r] # None
    /\ \E d \in published :
         /\ Fill(d.chunks, payload[r])
         /\ verdict[r] = "ok" =>
              d.id = id[r] /\ \E s \in Runs : d.label = LabelOf[s] /\ FileOf[s] = FileOf[r]

RunKept(r) == Knows(r) /\ OwnDump(r) /\ CopyLeads(r) /\ Agrees(r) /\ OkIsOwn(r)

Published(up, content) == \E d \in up : Fill(d.chunks, content)

\* A session is opened for one content, and holds nothing that does not fit it.
SessionKept(s, up) ==
  /\ s.state = "none" => s = Nothing
  /\ s.state # "none" =>
       s.of \in Contents /\ \E r \in Runs : s.label = LabelOf[r] /\ s.of[1] = FileOf[r]
  /\ s.state = "finished" => Published(up, s.of)
  /\ \A k \in Chunks : s.chunks[k] # None => Fits(s.chunks[k], s.of)

SessionsKept == \A i \in Ids : SessionKept(sessions[i], published)

Dumps == [id : Ids, label : Labels, chunks : [Chunks -> Contents]]

PublishedIsWhole == \A d \in published : \E content \in Contents : Fill(d.chunks, content)

Copies == [Runs -> (SUBSET Records) \cup {None}]

TempKept ==
  /\ temp \in [Stems -> Contents \cup {None}]
  /\ \A f \in Files : temp[StemOf[f]] # None => temp[StemOf[f]][1] = f

DiskKept == TempKept /\ \A record \in records : Leads(record)

UploadInv ==
  /\ TypeOK /\ copy \in Copies
  /\ DiskKept /\ SessionsKept /\ PublishedIsWhole
  /\ \A r \in Runs : RunKept(r)

\* As long as no dump is rewritten under a run, all that the run has of it is what it is.
Fresh(r) ==
  /\ ~Idle(r) => FileOf[r] \notin writing /\ hash[r] \in {None, Now(r)}
  /\ pc[r] = "read" /\ r \in packs => temp[StemFor(r)] \in {None, Now(r)}
  /\ pc[r] \in HasPayload => payload[r] = Now(r)
  /\ pc[r] \in HasFinger => finger[r] = Now(r)

\* A record then leads to a session of the very content it names.
Exact(record) == sessions[record.id].of = record.finger

RecordsExact ==
  /\ \A record \in records : Exact(record)
  /\ \A r \in Runs : copy[r] # None => \A record \in copy[r] : Exact(record)

RunsAreFresh == \A r \in Runs : Fresh(r)

OneRunActive == \A r, s \in Runs : Idle(r) \/ Idle(s) \/ r = s

AtRest == RunsAreFresh /\ RecordsExact /\ (OneAtATime => OneRunActive)

-----------------------------------------------------------------------------
(***************************************************************************)
(* Type correctness, and what a run knows by the time it is somewhere.     *)
(***************************************************************************)

LEMMA Constants ==
  /\ None \notin Contents /\ None \notin Ids
  /\ \A r \in Runs : FileOf[r] \in Files /\ LabelOf[r] \in Labels /\ StemFor(r) \in Stems
  /\ \A f \in Files : StemOf[f] \in Stems
  /\ \A v \in Readings : SizeOf[v] \in Nat
  /\ \A content \in Contents : /\ content[1] \in Files /\ content[2] \in Readings
                               /\ content = <<content[1], content[2]>>
                               /\ SizeOf[content[2]] \in Nat
  /\ MaxAttempts \in Nat /\ MaxFaults \in Nat /\ MaxVersion \in Nat /\ Chunks \subseteq Nat
BY ConstantsAssumption DEF ConstantsAssumption, Labels, Stems, StemFor, Contents

LEMMA FirstIsOne ==
  ASSUME NEW r \in Runs, todo[r] # {}, todo[r] \subseteq Chunks
  PROVE  FirstOf(r) \in todo[r]
<1>1. \E k \in todo[r] : \A j \in todo[r] : k <= j
  <2> DEFINE before == OpToRel(<, Nat)
  <2>1. IsWellFoundedOn(before, Nat)
    BY NatLessThanWellFounded
  <2>2. \A j, k \in Nat : j < k => <<j, k>> \in before
    BY DEF OpToRel
  <2>3. todo[r] \subseteq Nat
    BY Constants
  <2> HIDE DEF before
  <2>4. \E k \in todo[r] : \A j \in todo[r] : <<j, k>> \notin before
    BY <2>1, <2>3, WFMin
  <2>5. PICK k \in todo[r] : \A j \in todo[r] : <<j, k>> \notin before
    BY <2>4
  <2>6. ASSUME NEW j \in todo[r] PROVE k <= j
    <3>1. j \in Nat /\ k \in Nat /\ ~(j < k)
      BY <2>2, <2>3, <2>5
    <3> QED BY <3>1
  <2> QED BY <2>6
<1> QED BY <1>1 DEF FirstOf

LEMMA NothingIsSession == Nothing \in Session
BY DEF Nothing, Session

LEMMA NowIsContent ==
  ASSUME TypeOK, NEW r \in Runs
  PROVE  Now(r) \in Contents /\ Now(r)[1] = FileOf[r]
<1>1. FileOf[r] \in Files /\ version[FileOf[r]] \in Versions
  BY Constants DEF TypeOK
<1> QED BY <1>1 DEF Now, Contents, Readings

LEMMA SeenIsContent ==
  ASSUME TypeOK, NEW r \in Runs, NEW content \in Seen(FileOf[r])
  PROVE  content \in Contents /\ content[1] = FileOf[r]
<1>1. FileOf[r] \in Files /\ version[FileOf[r]] \in Versions
  BY Constants DEF TypeOK
<1> QED BY <1>1 DEF Seen, Contents, Readings

\* Readings that fit one another are exchangeable.
LEMMA Fitting ==
  /\ \A a : Fits(a, a)
  /\ \A a, b : Fits(a, b) => Fits(b, a)
  /\ \A a, b, c : Fits(a, b) /\ Fits(b, c) => Fits(a, c)
BY DEF Fits, Like

LEMMA InitKept == Init => UploadInv
<1> SUFFICES ASSUME Init PROVE UploadInv
  OBVIOUS
<1>1. 1 \in Versions
  BY ConstantsAssumption DEF ConstantsAssumption, Versions
<1>2. TypeOK
  BY <1>1, Constants, NothingIsSession
     DEF Init, TypeOK, States, Returned, Stopped, Done
<1>3. copy \in Copies
  BY DEF Init, Copies
<1>4. \A r \in Runs : RunKept(r)
  BY DEF Init, RunKept, Knows, OwnDump, CopyLeads, Agrees, OkIsOwn, HasPayload, HasFinger,
         HasSession,
         Updating, Asking
<1>5. DiskKept /\ PublishedIsWhole
  BY Constants DEF Init, DiskKept, TempKept, PublishedIsWhole
<1>6. SessionsKept
  BY DEF Init, SessionsKept, SessionKept, Nothing, Fits
<1> QED BY <1>2, <1>3, <1>4, <1>5, <1>6 DEF UploadInv

-----------------------------------------------------------------------------
(***************************************************************************)
(* The server.  What it is sent it keeps under the content the session was *)
(* opened for, and what it publishes it keeps.                             *)
(***************************************************************************)

ServerGoesOn ==
  /\ sessions' \in [Ids -> Session] /\ published' \subseteq Dumps
  /\ published \subseteq published'
  /\ \A i \in Ids : sessions[i].of # None => sessions'[i].of = sessions[i].of
  /\ SessionsKept' /\ PublishedIsWhole'

LEMMA NothingHere ==
  /\ Nothing.state = "none" /\ Nothing.label = None /\ Nothing.of = None
  /\ Nothing.chunks = [k \in Chunks |-> None]
BY DEF Nothing

LEMMA SessionFields ==
  ASSUME NEW s \in Session
  PROVE  /\ s.state \in {"none", "open", "closed", "finished"} /\ s.label \in Labels \cup {None}
         /\ s.of \in Contents \cup {None} /\ s.chunks \in [Chunks -> Contents \cup {None}]
BY DEF Session

\* One session changes: the others stay as they were.
LEMMA OneSession ==
  ASSUME UploadInv, NEW i \in Ids, NEW s \in Session, sessions' = [sessions EXCEPT ![i] = s],
         published' \subseteq Dumps, published \subseteq published', PublishedIsWhole',
         sessions[i].of # None => s.of = sessions[i].of,
         SessionKept(s, published')
  PROVE  ServerGoesOn
<1>1. /\ sessions' \in [Ids -> Session] /\ sessions'[i] = s
      /\ \A j \in Ids \ {i} : sessions'[j] = sessions[j]
  BY DEF UploadInv, TypeOK
<1>2. ASSUME NEW j \in Ids \ {i} PROVE SessionKept(sessions'[j], published')
  <2>1. SessionKept(sessions[j], published)
    BY DEF UploadInv, SessionsKept
  <2>2. Published(published, sessions[j].of) => Published(published', sessions[j].of)
    BY DEF Published
  <2> QED BY <1>1, <2>1, <2>2 DEF SessionKept
<1>3. SessionsKept'
  BY <1>1, <1>2 DEF SessionsKept
<1> QED BY <1>1, <1>3 DEF ServerGoesOn

LEMMA ServerLeftAlone == UploadInv /\ UNCHANGED server => ServerGoesOn
BY DEF UploadInv, TypeOK, server, ServerGoesOn, SessionsKept, PublishedIsWhole, Dumps

LEMMA OpenGoesOn ==
  ASSUME UploadInv, NEW r \in Runs, NEW i \in Ids, payload[r] # None, OpenSession(r, i)
  PROVE  ServerGoesOn /\ sessions[i].of = None /\ sessions'[i].of = payload[r]
<1> DEFINE s == [Nothing EXCEPT !.state = "open", !.label = LabelOf[r], !.of = payload[r]]
<1>1. sessions[i].state = "none" /\ sessions' = [sessions EXCEPT ![i] = s] /\ published' = published
  BY DEF OpenSession, NextId
<1>2. payload[r] \in Contents /\ payload[r][1] = FileOf[r] /\ LabelOf[r] \in Labels
  BY Constants DEF UploadInv, TypeOK, RunKept, OwnDump
<1>3. /\ s.state = "open" /\ s.label = LabelOf[r] /\ s.of = payload[r]
      /\ s.chunks = [k \in Chunks |-> None]
      /\ s \in Session
  BY <1>2 DEF Nothing, Session
<1>4. sessions[i].of = None
  BY <1>1, NothingHere DEF UploadInv, SessionsKept, SessionKept
<1> HIDE DEF s
<1>5. SessionKept(s, published')
  BY <1>2, <1>3 DEF SessionKept
<1>6. published' \subseteq Dumps /\ PublishedIsWhole'
  BY <1>1 DEF UploadInv, TypeOK, Dumps, PublishedIsWhole
<1>7. ServerGoesOn
  BY <1>1, <1>3, <1>4, <1>5, <1>6, OneSession
<1>8. sessions'[i] = s
  BY <1>1 DEF UploadInv, TypeOK
<1> QED BY <1>3, <1>4, <1>7, <1>8

LEMMA ChunkGoesOn ==
  ASSUME UploadInv, NEW r \in Runs, pc[r] \in {"send", "resend"}, todo[r] # {}, TakeChunk(r)
  PROVE  ServerGoesOn
<1>1. id[r] \in Ids /\ payload[r] \in Contents /\ Fits(payload[r], sessions[id[r]].of)
  BY Fitting DEF UploadInv, TypeOK, RunKept, Knows, Agrees, HasSession, HasPayload, Asking
<1>2. FirstOf(r) \in Chunks
  BY FirstIsOne DEF UploadInv, TypeOK
<1>3. CASE ~Open(r)
  BY <1>3, ServerLeftAlone DEF TakeChunk, server
<1>4. CASE Open(r)
  <2> DEFINE old == sessions[id[r]]
             s == [old EXCEPT !.chunks = [old.chunks EXCEPT ![FirstOf(r)] = payload[r]]]
  <2>1. sessions' = [sessions EXCEPT ![id[r]] = s] /\ published' = published
    BY <1>4 DEF TakeChunk
  <2>2. /\ old \in Session /\ old.state = "open" /\ SessionKept(old, published)
    BY <1>1, <1>4 DEF UploadInv, TypeOK, SessionsKept, Open
  <2> HIDE DEF old
  <2>3. s \in Session
    BY <1>1, <1>2, <2>2 DEF Session
  <2>4. /\ s.state = "open" /\ s.of = old.of /\ s.label = old.label
        /\ s.chunks = [old.chunks EXCEPT ![FirstOf(r)] = payload[r]]
    BY <2>2 DEF Session
  <2>5. \A k \in Chunks : s.chunks[k] # None => Fits(s.chunks[k], s.of)
    BY <1>1, <1>2, <2>2, <2>4, SessionFields DEF SessionKept, old
  <2> HIDE DEF s
  <2>6. SessionKept(s, published')
    BY <2>2, <2>4, <2>5 DEF SessionKept
  <2>7. published' \subseteq Dumps /\ PublishedIsWhole'
    BY <2>1 DEF UploadInv, TypeOK, Dumps, PublishedIsWhole
  <2> QED BY <1>1, <2>1, <2>3, <2>4, <2>6, <2>7, OneSession DEF old
<1> QED BY <1>3, <1>4

\* A session that holds every chunk is a whole dump.
LEMMA AllOfIt ==
  ASSUME UploadInv, NEW r \in Runs, pc[r] \in {"finish", "refinish"}, Open(r), Missing(r) = {}
  PROVE  /\ sessions[id[r]].chunks \in [Chunks -> Contents]
         /\ Fill(sessions[id[r]].chunks, payload[r])
         /\ sessions[id[r]].label \in Labels
         /\ \E s \in Runs : sessions[id[r]].label = LabelOf[s] /\ FileOf[s] = FileOf[r]
<1>1. /\ id[r] \in Ids /\ payload[r] \in Contents /\ Fits(sessions[id[r]].of, payload[r])
      /\ payload[r][1] = FileOf[r]
  BY DEF UploadInv, TypeOK, RunKept, Knows, Agrees, OwnDump, HasSession,
         HasPayload, Asking
<1>2. /\ sessions[id[r]] \in Session /\ SessionKept(sessions[id[r]], published)
      /\ sessions[id[r]].state = "open"
  BY <1>1 DEF UploadInv, TypeOK, SessionsKept, Open
<1>3. \A k \in Chunks : /\ sessions[id[r]].chunks[k] # None
                        /\ Fits(sessions[id[r]].chunks[k], payload[r])
  BY <1>1, <1>2, Fitting DEF Missing, SessionKept
<1>4. sessions[id[r]].chunks \in [Chunks -> Contents]
  BY <1>1, <1>2, <1>3, SessionFields
<1>5. sessions[id[r]].of[1] = FileOf[r]
  BY <1>1 DEF Fits, Like
<1> QED BY <1>1, <1>2, <1>3, <1>4, <1>5, Constants DEF Fill, SessionKept

LEMMA FinishGoesOn ==
  ASSUME UploadInv, NEW r \in Runs, pc[r] \in {"finish", "refinish"}, FinishSession(r)
  PROVE  /\ ServerGoesOn
         /\ Open(r) /\ Missing(r) = {} =>
              \/ Known(sessions[id[r]].chunks)
              \/ [id |-> id[r], label |-> sessions[id[r]].label, chunks |-> sessions[id[r]].chunks]
                   \in published'
<1>1. CASE ~(Open(r) /\ Missing(r) = {})
  BY <1>1, ServerLeftAlone DEF FinishSession
<1>2. CASE Open(r) /\ Missing(r) = {}
  <2> DEFINE old == sessions[id[r]]
             s == [old EXCEPT !.state = "finished"]
             dump == [id |-> id[r], label |-> old.label, chunks |-> old.chunks]
  <2>1. /\ sessions' = [sessions EXCEPT ![id[r]] = s]
        /\ published' = IF Known(old.chunks) THEN published ELSE published \cup {dump}
    BY <1>2 DEF FinishSession
  <2>2. /\ old.chunks \in [Chunks -> Contents] /\ Fill(old.chunks, payload[r])
        /\ old.label \in Labels
    BY <1>2, AllOfIt
  <2>3. /\ id[r] \in Ids /\ payload[r] \in Contents /\ Fits(payload[r], old.of)
        /\ old \in Session /\ SessionKept(old, published) /\ old.state = "open"
    BY <1>2, Fitting DEF UploadInv, TypeOK, RunKept, Knows, Agrees, HasSession, HasPayload,
                         Asking, SessionsKept, Open
  <2> HIDE DEF old
  <2>4. /\ s \in Session /\ s.state = "finished" /\ s.of = old.of /\ s.label = old.label
        /\ s.chunks = old.chunks
    BY <2>3 DEF Session
  <2>5. dump \in Dumps /\ dump.chunks = old.chunks /\ dump.id = id[r]
    BY <2>2, <2>3 DEF Dumps
  <2> HIDE DEF s, dump
  <2>6. published' \subseteq Dumps /\ published \subseteq published'
    BY <2>1, <2>5 DEF UploadInv, TypeOK, Dumps
  <2>7. PublishedIsWhole'
    BY <2>1, <2>2, <2>3, <2>5 DEF UploadInv, PublishedIsWhole
  <2>8. Published(published', old.of)
    <3>1. Fill(old.chunks, old.of)
      BY <2>2, <2>3, Fitting DEF Fill
    <3> QED BY <2>1, <2>5, <3>1 DEF Published, Known
  <2>9. SessionKept(s, published')
    BY <2>3, <2>4, <2>8 DEF SessionKept
  <2>10. ServerGoesOn
    BY <2>1, <2>3, <2>4, <2>6, <2>7, <2>9, OneSession DEF old
  <2> QED BY <2>1, <2>10 DEF dump, old
<1> QED BY <1>1, <1>2

LEMMA ExpireGoesOn ==
  ASSUME UploadInv, NEW i \in Ids, Expire(i)
  PROVE  ServerGoesOn
<1> DEFINE old == sessions[i]
           s == [old EXCEPT !.state = "closed"]
<1>1. sessions' = [sessions EXCEPT ![i] = s] /\ published' = published /\ old.state = "open"
  BY DEF Expire
<1>2. old \in Session /\ SessionKept(old, published)
  BY DEF UploadInv, TypeOK, SessionsKept
<1> HIDE DEF old
<1>3. /\ s \in Session /\ s.state = "closed" /\ s.of = old.of /\ s.label = old.label
      /\ s.chunks = old.chunks
  BY <1>2 DEF Session
<1> HIDE DEF s
<1>4. SessionKept(s, published')
  BY <1>1, <1>2, <1>3 DEF SessionKept
<1>5. published' \subseteq Dumps /\ PublishedIsWhole'
  BY <1>1 DEF UploadInv, TypeOK, Dumps, PublishedIsWhole
<1> QED BY <1>1, <1>3, <1>4, <1>5, OneSession DEF old

LEMMA LossGoesOn ==
  ASSUME UploadInv, NEW i \in Ids, NEW k \in Chunks, LoseChunk(i, k)
  PROVE  ServerGoesOn
<1> DEFINE old == sessions[i]
           s == [old EXCEPT !.chunks = [old.chunks EXCEPT ![k] = None]]
<1>1. sessions' = [sessions EXCEPT ![i] = s] /\ published' = published /\ old.state = "open"
  BY DEF LoseChunk
<1>2. old \in Session /\ SessionKept(old, published)
  BY DEF UploadInv, TypeOK, SessionsKept
<1> HIDE DEF old
<1>3. /\ s \in Session /\ s.state = "open" /\ s.of = old.of /\ s.label = old.label
      /\ s.chunks = [old.chunks EXCEPT ![k] = None]
  BY <1>1, <1>2 DEF Session
<1>4. \A j \in Chunks : s.chunks[j] # None => Fits(s.chunks[j], s.of)
  BY <1>2, <1>3, SessionFields DEF SessionKept
<1> HIDE DEF s
<1>5. SessionKept(s, published')
  BY <1>1, <1>2, <1>3, <1>4 DEF SessionKept
<1>6. published' \subseteq Dumps /\ PublishedIsWhole'
  BY <1>1 DEF UploadInv, TypeOK, Dumps, PublishedIsWhole
<1> QED BY <1>1, <1>3, <1>5, <1>6, OneSession DEF old

-----------------------------------------------------------------------------
(***************************************************************************)
(* The runs.                                                               *)
(***************************************************************************)

LEMMA LeadsOn ==
  ASSUME TypeOK, ServerGoesOn, NEW record \in Records, Leads(record)
  PROVE  Leads(record)'
<1>1. PICK v \in Readings : /\ SizeOf[v] = record.size
                            /\ sessions[record.id].of = <<record.finger[1], v>>
  BY DEF Leads
<1>2. record.id \in Ids /\ record.finger \in Contents
  BY DEF Records
<1>3. <<record.finger[1], v>> \in Contents
  BY <1>2, Constants DEF Contents
<1>4. sessions'[record.id].of = sessions[record.id].of
  BY <1>1, <1>2, <1>3, Constants DEF ServerGoesOn
<1> QED BY <1>1, <1>4 DEF Leads

Same(r) ==
  /\ pc'[r] = pc[r] /\ payload'[r] = payload[r] /\ finger'[r] = finger[r]
  /\ copy'[r] = copy[r] /\ id'[r] = id[r] /\ verdict'[r] = verdict[r]

\* A run stays kept wherever it goes with what it has, if it has what it needs there.
LEMMA RunMoves ==
  ASSUME UploadInv, ServerGoesOn, NEW r \in Runs,
         payload'[r] = payload[r], finger'[r] = finger[r], id'[r] = id[r], verdict'[r] = verdict[r],
         copy'[r] \in {None, copy[r]},
         pc'[r] \in HasPayload => payload[r] # None,
         pc'[r] \in HasFinger => finger[r] # None,
         pc'[r] \in HasSession => pc[r] \in HasSession,
         verdict[r] # "none" => pc'[r] \in {"close", "log"} \cup Returned,
         pc'[r] = "close" => verdict[r] # "none",
         pc'[r] = "log" => verdict[r] \in {"ok", "duplicate"}
  PROVE  RunKept(r)'
<1>1. /\ TypeOK /\ copy \in Copies
      /\ Knows(r) /\ OwnDump(r) /\ CopyLeads(r) /\ Agrees(r) /\ OkIsOwn(r)
  BY DEF UploadInv, RunKept
<1>2. Knows(r)'
  BY <1>1 DEF Knows
<1>3. OwnDump(r)'
  BY <1>1 DEF OwnDump
<1>4. CopyLeads(r)'
  <2> SUFFICES ASSUME copy'[r] # None, NEW record \in copy'[r] PROVE Leads(record)'
    BY DEF CopyLeads
  <2>1. record \in copy[r] /\ copy[r] # None /\ record \in Records
    BY <1>1 DEF Copies
  <2> QED BY <1>1, <2>1, LeadsOn DEF CopyLeads
<1>5. Agrees(r)'
  <2> SUFFICES ASSUME pc'[r] \in HasSession
               PROVE  sessions'[id[r]].of # None /\ Fits(sessions'[id[r]].of, payload[r])
    BY DEF Agrees
  <2>1. /\ sessions[id[r]].of # None /\ Fits(sessions[id[r]].of, payload[r])
        /\ id[r] \in Ids
    BY <1>1 DEF Agrees, Knows, TypeOK, HasSession, HasPayload, Asking, Updating
  <2> QED BY <2>1 DEF ServerGoesOn
<1>6. OkIsOwn(r)'
  BY <1>1 DEF OkIsOwn, ServerGoesOn
<1> QED BY <1>2, <1>3, <1>4, <1>5, <1>6 DEF RunKept

LEMMA SameRun ==
  ASSUME UploadInv, ServerGoesOn, NEW r \in Runs, Same(r)
  PROVE  RunKept(r)'
<1>1. Knows(r)
  BY DEF UploadInv, RunKept
<1> QED BY <1>1, RunMoves DEF Same, Knows

\* So of a step of one run only that run is to be looked at.
LEMMA OneRun ==
  ASSUME UploadInv, ServerGoesOn, TypeOK', copy' \in Copies, DiskKept',
         NEW r \in Runs, RunKept(r)', \A s \in Runs \ {r} : Same(s)
  PROVE  UploadInv'
<1>1. \A s \in Runs : RunKept(s)'
  BY SameRun
<1> QED BY <1>1 DEF UploadInv, ServerGoesOn

LEMMA NoRun ==
  ASSUME UploadInv, ServerGoesOn, TypeOK', DiskKept', UNCHANGED run
  PROVE  UploadInv'
<1>1. \A s \in Runs : Same(s)
  BY DEF run, Same
<1>2. \A s \in Runs : RunKept(s)'
  BY <1>1, SameRun
<1>3. copy' \in Copies
  BY DEF UploadInv, Copies, run
<1> QED BY <1>2, <1>3 DEF UploadInv, ServerGoesOn

\* The disk as it was leads where it led.
LEMMA DiskLeftAlone ==
  ASSUME UploadInv, ServerGoesOn, records' \subseteq records, TempKept'
  PROVE  DiskKept'
<1>1. \A record \in records' : record \in Records /\ Leads(record)
  BY DEF UploadInv, DiskKept, TypeOK
<1>2. \A record \in records' : Leads(record)'
  BY <1>1, LeadsOn DEF UploadInv
<1> QED BY <1>2 DEF DiskKept

LEMMA TempLeftAlone ==
  ASSUME UploadInv, temp' = temp
  PROVE  TempKept'
BY DEF UploadInv, DiskKept, TempKept

LEMMA TempCleaned ==
  ASSUME UploadInv, NEW r \in Runs, Cleanup(r)
  PROVE  TempKept'
BY Constants DEF Cleanup, UploadInv, DiskKept, TempKept

LEMMA TempMade ==
  ASSUME StemsApart, UploadInv, NEW r \in Runs, NEW content \in Contents, content[1] = FileOf[r],
         temp' = [temp EXCEPT ![StemFor(r)] = content]
  PROVE  TempKept'
<1>1. temp \in [Stems -> Contents \cup {None}] /\ StemFor(r) \in Stems
  BY Constants DEF UploadInv, TypeOK
<1>2. ASSUME NEW f \in Files, temp'[StemOf[f]] # None PROVE temp'[StemOf[f]][1] = f
  <2>1. CASE StemOf[f] = StemFor(r)
    BY <1>1, <2>1, Constants DEF StemsApart, StemFor
  <2>2. CASE StemOf[f] # StemFor(r)
    BY <1>1, <1>2, <2>2, Constants DEF UploadInv, DiskKept, TempKept
  <2> QED BY <2>1, <2>2
<1> QED BY <1>1, <1>2 DEF TempKept

-----------------------------------------------------------------------------
(***************************************************************************)
(* Each step in turn.                                                      *)
(***************************************************************************)

\* Steps that take a run on with what it has, and leave the server alone but for what a
\* request does to it.
LEMMA GoesOnAs ==
  ASSUME UploadInv, ServerGoesOn, NEW r \in Runs, NEW state \in States, Goto(r, state),
         UNCHANGED <<version, writing, payload, finger, id, verdict>>,
         packs' \subseteq Runs,
         records' \subseteq Records, \A record \in records' : Leads(record),
         remembered' \subseteq Contents,
         hash' \in [Runs -> Contents \cup {None}],
         copy' = copy \/ Stored(r),
         todo' \in [Runs -> SUBSET Chunks], tries' \in [Runs -> 0 .. MaxAttempts],
         faults' \in 0 .. MaxFaults, unanswered' \subseteq Ids,
         TempKept',
         state \in HasPayload => payload[r] # None,
         state \in HasFinger => finger[r] # None,
         state \in HasSession => pc[r] \in HasSession,
         verdict[r] # "none" => state \in {"close", "log"} \cup Returned,
         state = "close" => verdict[r] # "none",
         state = "log" => verdict[r] \in {"ok", "duplicate"}
  PROVE  UploadInv'
<1>1. /\ TypeOK /\ copy \in Copies
  BY DEF UploadInv
<1>2. temp' \in [Stems -> Contents \cup {None}]
  BY DEF TempKept
<1>3. /\ copy' \in Copies /\ copy'[r] \in {None, copy[r]}
      /\ \A s \in Runs \ {r} : copy'[s] = copy[s]
  BY <1>1 DEF Stored, Copies
<1>4. /\ pc' \in [Runs -> States] /\ pc'[r] = state
      /\ \A s \in Runs \ {r} : pc'[s] = pc[s]
  BY <1>1 DEF Goto, TypeOK, States
<1>5. TypeOK'
  <2>1. \A s \in Runs : copy'[s] # None => copy'[s] \subseteq Records
    BY <1>3 DEF Copies
  <2> QED BY <1>1, <1>2, <1>4, <2>1 DEF TypeOK, ServerGoesOn, Dumps
<1>6. DiskKept'
  BY <1>1, LeadsOn DEF DiskKept
<1>7. RunKept(r)'
  BY <1>3, <1>4, RunMoves
<1>8. \A s \in Runs \ {r} : Same(s)
  BY <1>3, <1>4 DEF Same
<1> QED BY <1>3, <1>5, <1>6, <1>7, <1>8, OneRun

LEMMA AsItWas ==
  ASSUME UploadInv
  PROVE  /\ records \subseteq Records /\ \A record \in records : Leads(record)
         /\ remembered \subseteq Contents /\ faults \in 0 .. MaxFaults /\ unanswered \subseteq Ids
         /\ hash \in [Runs -> Contents \cup {None}] /\ todo \in [Runs -> SUBSET Chunks]
         /\ tries \in [Runs -> 0 .. MaxAttempts] /\ packs \subseteq Runs
BY DEF UploadInv, DiskKept, TypeOK

\* Before there is anything to send.
LEMMA BeforeKept ==
  ASSUME StemsApart, UploadInv, NEW r \in Runs,
         Begin(r) \/ ChooseWhatToSend(r) \/ Compress(r) \/ CannotCompress(r)
  PROVE  UploadInv'
<1>1. ServerGoesOn
  BY ServerLeftAlone DEF Begin, ChooseWhatToSend, Compress, CannotCompress
<1>2. /\ TypeOK /\ verdict[r] = "none"
  BY DEF Begin, ChooseWhatToSend, Compress, CannotCompress, UploadInv, RunKept, Knows,
         Returned, Stopped, Done
<1>3. /\ hash' \in [Runs -> Contents \cup {None}]
      /\ packs' \subseteq Runs
  BY <1>2, SeenIsContent DEF Begin, ChooseWhatToSend, Compress, CannotCompress, TypeOK
<1>4. PICK state \in {"already", "upload", "read", "compress", "failed"} : Goto(r, state)
  BY DEF Begin, ChooseWhatToSend, Compress, CannotCompress
<1>5. /\ state \in States \ (HasPayload \cup HasFinger \cup HasSession)
      /\ state # "close" /\ state # "log"
  BY <1>4 DEF States, Returned, Stopped, Done, HasPayload, HasFinger, HasSession, Updating, Asking
<1>6. TempKept'
  <2>1. CASE Begin(r) \/ ChooseWhatToSend(r)
    BY <2>1, TempLeftAlone DEF Begin, ChooseWhatToSend, disk
  <2>2. CASE Compress(r)
    BY <1>2, <2>2, NowIsContent, TempMade DEF Compress
  <2>3. CASE CannotCompress(r)
    BY <2>3, TempCleaned DEF CannotCompress
  <2> QED BY <2>1, <2>2, <2>3
<1>7. UNCHANGED <<version, writing, records, remembered, faults, unanswered, payload, finger,
                  copy, id, todo, tries, verdict>>
  BY DEF Begin, ChooseWhatToSend, Compress, CannotCompress, disk, ghosts
<1>8. /\ records' \subseteq Records /\ \A record \in records' : Leads(record)
      /\ remembered' \subseteq Contents /\ todo' \in [Runs -> SUBSET Chunks]
      /\ tries' \in [Runs -> 0 .. MaxAttempts]
      /\ faults' \in 0 .. MaxFaults /\ unanswered' \subseteq Ids
  BY <1>7, AsItWas
<1> QED BY <1>1, <1>2, <1>3, <1>4, <1>5, <1>6, <1>7, <1>8, GoesOnAs

LEMMA ReadPayloadKept ==
  ASSUME UploadInv, NEW r \in Runs, ReadPayload(r)
  PROVE  UploadInv'
<1>1. ServerGoesOn
  BY ServerLeftAlone DEF ReadPayload
<1>2. /\ TypeOK /\ copy \in Copies /\ RunKept(r) /\ verdict[r] = "none"
  BY DEF UploadInv, ReadPayload, RunKept, Knows, Returned, Stopped, Done
<1>3. PICK content \in ToSend(r) :
        /\ payload' = [payload EXCEPT ![r] = content]
        /\ Goto(r, IF content = None THEN "failed" ELSE "look")
  BY DEF ReadPayload
<1>4. /\ content \in Contents \cup {None}
      /\ content # None => content[1] = FileOf[r]
  <2>1. CASE r \in packs
    BY <1>2, <1>3, <2>1, Constants DEF ToSend, UploadInv, DiskKept, TempKept, TypeOK, StemFor
  <2>2. CASE r \notin packs
    BY <1>2, <1>3, <2>2, SeenIsContent DEF ToSend
  <2> QED BY <2>1, <2>2
<1>5. /\ pc' \in [Runs -> States] /\ \A s \in Runs \ {r} : pc'[s] = pc[s]
      /\ pc'[r] = IF content = None THEN "failed" ELSE "look"
  BY <1>2, <1>3 DEF Goto, TypeOK, States, Returned, Stopped
<1>6. /\ payload' \in [Runs -> Contents \cup {None}] /\ payload'[r] = content
      /\ \A s \in Runs \ {r} : payload'[s] = payload[s]
  BY <1>2, <1>3, <1>4 DEF TypeOK
<1>7. UNCHANGED <<version, writing, temp, records, remembered, sessions, published, faults,
                  unanswered, hash, packs, finger, copy, id, todo, tries, verdict>>
  BY DEF ReadPayload, disk, ghosts, server
<1>8. TypeOK'
  BY <1>2, <1>5, <1>6, <1>7 DEF TypeOK
<1>9. DiskKept'
  BY <1>1, <1>7, DiskLeftAlone, TempLeftAlone
<1>10. RunKept(r)'
  <2>1. Knows(r)'
    BY <1>2, <1>5, <1>6, <1>7 DEF Knows, HasPayload, HasFinger, HasSession, Updating, Asking
  <2>2. OwnDump(r)'
    BY <1>2, <1>4, <1>6, <1>7 DEF RunKept, OwnDump
  <2>3. CopyLeads(r)'
    BY <1>2, <1>7 DEF RunKept, CopyLeads, Leads
  <2>4. Agrees(r)' /\ OkIsOwn(r)'
    BY <1>2, <1>5, <1>7 DEF Agrees, OkIsOwn, HasSession, Asking
  <2> QED BY <2>1, <2>2, <2>3, <2>4 DEF RunKept
<1> QED BY <1>1, <1>5, <1>6, <1>7, <1>8, <1>9, <1>10, OneRun DEF Same, UploadInv

\* A record of the dump, with the size of what was read of it, leads to a session of what
\* came to the same length; and of the very same where it is still.
LEMMA LookForSessionKept ==
  ASSUME Still => AtRest, UploadInv, NEW r \in Runs, LookForSession(r)
  PROVE  UploadInv'
<1>1. ServerGoesOn
  BY ServerLeftAlone DEF LookForSession
<1>2. /\ TypeOK /\ copy \in Copies /\ RunKept(r) /\ verdict[r] = "none" /\ pc[r] = "look"
      /\ payload[r] \in Contents /\ payload[r][1] = FileOf[r]
  BY DEF UploadInv, LookForSession, RunKept, Knows, OwnDump, Returned, Stopped, Done,
         HasPayload, TypeOK
<1>3. PICK print \in Seen(FileOf[r]) :
        /\ finger' = [finger EXCEPT ![r] = print]
        /\ \/ Goto(r, "init") /\ UNCHANGED id
           \/ \E record \in records :
                /\ record.finger = print
                /\ IF MayResume(r, record)
                   THEN Goto(r, "status") /\ id' = [id EXCEPT ![r] = record.id]
                   ELSE Goto(r, "forget") /\ UNCHANGED id
  BY DEF LookForSession
<1>4. print \in Contents /\ print[1] = FileOf[r]
  BY <1>2, SeenIsContent
<1>5. /\ finger' \in [Runs -> Contents \cup {None}] /\ finger'[r] = print
      /\ \A s \in Runs \ {r} : finger'[s] = finger[s]
  BY <1>2, <1>3, <1>4 DEF TypeOK
<1>6. \/ id' = id /\ \E state \in {"init", "forget"} : Goto(r, state)
      \/ \E record \in records : /\ record.finger = print /\ record.size = SizeFor(r)
                                 /\ id' = [id EXCEPT ![r] = record.id] /\ Goto(r, "status")
  BY <1>3 DEF MayResume
<1>7. UNCHANGED <<version, writing, temp, records, remembered, sessions, published, faults,
                  unanswered, hash, packs, payload, copy, todo, tries, verdict>>
  BY DEF LookForSession, disk, ghosts, server
<1>8. DiskKept'
  BY <1>1, <1>7, DiskLeftAlone, TempLeftAlone
<1>9. OwnDump(r)' /\ CopyLeads(r)' /\ OkIsOwn(r)'
  BY <1>2, <1>4, <1>5, <1>7 DEF RunKept, OwnDump, CopyLeads, OkIsOwn, Leads
<1>10. CASE id' = id /\ \E state \in {"init", "forget"} : Goto(r, state)
  <2>1. PICK state \in {"init", "forget"} : Goto(r, state)
    BY <1>10
  <2>2. pc' \in [Runs -> States] /\ pc'[r] = state /\ \A s \in Runs \ {r} : pc'[s] = pc[s]
    BY <1>2, <2>1 DEF Goto, TypeOK, States, Updating, Asking
  <2>3. TypeOK'
    BY <1>2, <1>5, <1>7, <1>10, <2>2 DEF TypeOK
  <2>4. Knows(r)' /\ Agrees(r)'
    BY <1>2, <1>4, <1>5, <1>7, <2>2, Constants DEF Knows, Agrees, HasSession, Asking
  <2> QED BY <1>1, <1>2, <1>5, <1>7, <1>8, <1>9, <1>10, <2>2, <2>3, <2>4, OneRun DEF Same, RunKept
<1>11. ASSUME NEW record \in records, record.finger = print, record.size = SizeFor(r),
              id' = [id EXCEPT ![r] = record.id], Goto(r, "status")
       PROVE  UploadInv'
  <2>1. pc' \in [Runs -> States] /\ pc'[r] = "status" /\ \A s \in Runs \ {r} : pc'[s] = pc[s]
    BY <1>2, <1>11 DEF Goto, TypeOK, States, Asking
  <2>2. record \in Records /\ record.id \in Ids /\ Leads(record)
    BY <1>2 DEF UploadInv, DiskKept, TypeOK, Records
  <2>3. /\ id' \in [Runs -> Ids \cup {None}] /\ id'[r] = record.id
        /\ \A s \in Runs \ {r} : id'[s] = id[s]
    BY <1>2, <1>11, <2>2 DEF TypeOK
  <2>4. TypeOK'
    BY <1>2, <1>5, <1>7, <2>1, <2>3 DEF TypeOK
  <2>5. sessions[record.id].of # None /\ Fits(sessions[record.id].of, payload[r])
    <3>1. PICK v \in Readings : SizeOf[v] = record.size /\ sessions[record.id].of = <<FileOf[r], v>>
      BY <1>4, <1>11, <2>2 DEF Leads
    <3>2. <<FileOf[r], v>> \in Contents
      BY <3>1, Constants DEF Contents
    <3>3. Like(<<FileOf[r], v>>, payload[r])
      BY <1>2, <1>11, <3>1 DEF Like, SizeFor
    <3>4. ASSUME Still PROVE sessions[record.id].of = payload[r]
      <4>1. /\ payload[r] = Now(r) /\ sessions[record.id].of = record.finger
            /\ FileOf[r] \notin writing
        BY <1>2, <3>4 DEF AtRest, RunsAreFresh, Fresh, RecordsExact, Exact, HasPayload, Idle,
                          Returned, Stopped, Done
      <4>2. print = Now(r)
        BY <1>3, <4>1 DEF Seen, Now
      <4> QED BY <1>11, <4>1, <4>2
    <3> QED BY <3>1, <3>2, <3>3, <3>4, Constants DEF Fits
  <2>6. Knows(r)' /\ Agrees(r)'
    BY <1>2, <1>4, <1>5, <1>7, <2>1, <2>2, <2>3, <2>5, Constants DEF Knows, Agrees
  <2> QED BY <1>1, <1>2, <1>5, <1>7, <1>8, <1>9, <2>1, <2>3, <2>4, <2>6, OneRun DEF Same, RunKept
<1> QED BY <1>6, <1>10, <1>11

LEMMA LoadUploadsKept ==
  ASSUME UploadInv, NEW r \in Runs, LoadUploads(r)
  PROVE  UploadInv'
<1>1. ServerGoesOn
  BY ServerLeftAlone DEF LoadUploads
<1>2. TypeOK /\ copy \in Copies /\ RunKept(r)
  BY DEF UploadInv
<1>3. UNCHANGED <<version, writing, temp, records, remembered, sessions, published, faults,
                  unanswered, pc, hash, packs, payload, finger, id, todo, tries, verdict>>
  BY DEF LoadUploads, disk, ghosts, server
<1>4. /\ copy' \in Copies /\ copy'[r] = records /\ \A s \in Runs \ {r} : copy'[s] = copy[s]
  BY <1>2, AsItWas DEF LoadUploads, Copies
<1>5. TypeOK'
  <2>1. \A s \in Runs : copy'[s] # None => copy'[s] \subseteq Records
    BY <1>4 DEF Copies
  <2> QED BY <1>2, <1>3, <2>1 DEF TypeOK
<1>6. DiskKept'
  BY <1>1, <1>3, DiskLeftAlone, TempLeftAlone
<1>7. RunKept(r)'
  <2>1. Knows(r)' /\ OwnDump(r)' /\ Agrees(r)' /\ OkIsOwn(r)'
    BY <1>2, <1>3 DEF RunKept, Knows, OwnDump, Agrees, OkIsOwn
  <2>2. CopyLeads(r)'
    BY <1>3, <1>4, AsItWas DEF CopyLeads, Leads
  <2> QED BY <2>1, <2>2 DEF RunKept
<1> QED BY <1>1, <1>3, <1>4, <1>5, <1>6, <1>7, OneRun DEF Same

LEMMA ForgetUploadKept ==
  ASSUME UploadInv, NEW r \in Runs, ForgetUpload(r)
  PROVE  UploadInv'
<1>1. ServerGoesOn
  BY ServerLeftAlone DEF ForgetUpload
<1>2. /\ TypeOK /\ copy \in Copies /\ Knows(r) /\ CopyLeads(r)
      /\ pc[r] \in {"forget", "close"} /\ copy[r] # None
  BY DEF UploadInv, RunKept, ForgetUpload
<1>3. PICK state \in {"init", "failed", "log"} :
        /\ Goto(r, state)
        /\ state = "init" => pc[r] = "forget"
        /\ state # "init" => pc[r] = "close"
        /\ state = "log" => verdict[r] # "failed"
  BY <1>2 DEF ForgetUpload
<1>4. records' \subseteq Records /\ \A record \in records' : Leads(record)
  <2>1. copy[r] \subseteq Records /\ \A record \in copy[r] : Leads(record)
    BY <1>2 DEF Copies, CopyLeads
  <2>2. records' \subseteq records \cup copy[r]
    BY DEF ForgetUpload, Others
  <2> QED BY <2>1, <2>2, AsItWas
<1>5. verdict[r] \in {"none", "ok", "duplicate", "failed"}
  BY <1>2 DEF TypeOK
<1>6. /\ state \in States
      /\ state \in HasPayload => payload[r] # None
      /\ state \in HasFinger => finger[r] # None
      /\ state \in HasSession => pc[r] \in HasSession
      /\ verdict[r] # "none" => state \in {"close", "log"} \cup Returned
      /\ state # "close"
      /\ state = "log" => verdict[r] \in {"ok", "duplicate"}
  BY <1>2, <1>3, <1>5 DEF Knows, States, HasPayload, HasFinger, HasSession, Updating, Asking,
                     Returned, Stopped, Done
<1> QED BY <1>1, <1>3, <1>4, <1>6, GoesOnAs, AsItWas, TempLeftAlone DEF ForgetUpload, ghosts

\* The record that is written leads to the session that was just opened.
LEMMA RememberUploadKept ==
  ASSUME UploadInv, NEW r \in Runs, RememberUpload(r)
  PROVE  UploadInv'
<1>1. ServerGoesOn
  BY ServerLeftAlone DEF RememberUpload
<1>2. /\ TypeOK /\ copy \in Copies /\ pc[r] = "remember" /\ copy[r] # None
      /\ Knows(r) /\ CopyLeads(r) /\ Agrees(r) /\ OwnDump(r)
  BY DEF UploadInv, RunKept, RememberUpload
<1>3. /\ payload[r] \in Contents /\ finger[r] \in Contents /\ id[r] \in Ids
      /\ payload[r][1] = finger[r][1] /\ verdict[r] = "none"
      /\ sessions[id[r]].of # None /\ Fits(sessions[id[r]].of, payload[r])
  BY <1>2 DEF Knows, Agrees, OwnDump, TypeOK, HasPayload, HasFinger, HasSession, Updating, Asking,
              Returned, Stopped, Done
<1>4. Record(r) \in Records /\ Leads(Record(r))
  <2>1. SizeFor(r) \in Nat
    BY <1>3, Constants DEF SizeFor
  <2>2. /\ Record(r).size = SizeOf[payload[r][2]] /\ Record(r).id = id[r]
        /\ Record(r).finger = finger[r] /\ Record(r) \in Records
    BY <1>3, <2>1 DEF Record, Records, SizeFor
  <2> DEFINE of == sessions[id[r]].of
  <2>3. of \in Contents
    BY <1>2, <1>3, SessionFields DEF TypeOK
  <2>4. /\ of = <<of[1], of[2]>> /\ of[2] \in Readings
        /\ of[1] = payload[r][1] /\ SizeOf[of[2]] = SizeOf[payload[r][2]]
    BY <1>3, <2>3, Constants DEF Fits, Like
  <2>5. /\ SizeOf[of[2]] = Record(r).size
        /\ sessions[Record(r).id].of = <<Record(r).finger[1], of[2]>>
    <3> HIDE DEF of
    <3>1. of[1] = finger[r][1]
      BY <1>3, <2>4
    <3> QED BY <2>2, <2>4, <3>1 DEF of
  <2> QED BY <2>2, <2>4, <2>5 DEF Leads
<1>5. records' \subseteq Records /\ \A record \in records' : Leads(record)
  <2>1. copy[r] \subseteq Records /\ \A record \in copy[r] : Leads(record)
    BY <1>2 DEF Copies, CopyLeads
  <2>2. records' \subseteq copy[r] \cup {Record(r)}
    BY DEF RememberUpload, Others
  <2> QED BY <1>4, <2>1, <2>2
<1>6. /\ "send" \in States /\ "send" \in HasSession /\ pc[r] \in HasSession
      /\ payload[r] # None /\ finger[r] # None
  BY <1>2, <1>3, Constants DEF States, Asking, HasSession
<1> QED BY <1>1, <1>3, <1>5, <1>6, GoesOnAs, AsItWas, TempLeftAlone DEF RememberUpload, ghosts

\* What a run has while it asks the server something.
LEMMA Asks ==
  ASSUME UploadInv, NEW r \in Runs, pc[r] \in Asking
  PROVE  /\ payload[r] # None /\ finger[r] # None /\ verdict[r] = "none"
         /\ pc[r] # "init" => pc[r] \in HasSession
         /\ \A state \in {"failed", "cancelled", "killed", "forget"} : state \in States \ HasSession
         /\ \A state \in Asking \ {"init"} : state \in States \cap HasSession
         /\ "log" \notin Asking /\ "close" \notin Asking
BY DEF UploadInv, RunKept, Knows, HasPayload, HasFinger, HasSession, Asking, Updating, States,
       Returned, Stopped, Done

LEMMA AnsweredKept ==
  ASSUME UploadInv, NEW r \in Runs,
         StatusAnswered(r) \/ RecheckAnswered(r) \/ AllSent(r) \/ ChunkAnswered(r)
  PROVE  UploadInv'
<1>1. pc[r] \in Asking \ {"init"}
  BY DEF StatusAnswered, RecheckAnswered, AllSent, ChunkAnswered, Asking
<1>2. tries' \in [Runs -> 0 .. MaxAttempts]
  BY AsItWas, Constants DEF StatusAnswered, RecheckAnswered, AllSent, ChunkAnswered, Answered
<1>3. todo' \in [Runs -> SUBSET Chunks]
  BY AsItWas DEF StatusAnswered, RecheckAnswered, AllSent, ChunkAnswered, Missing
<1>4. ServerGoesOn
  <2>1. CASE ChunkAnswered(r)
    BY <2>1, ChunkGoesOn DEF ChunkAnswered
  <2>2. CASE StatusAnswered(r) \/ RecheckAnswered(r) \/ AllSent(r)
    BY <2>2, ServerLeftAlone DEF StatusAnswered, RecheckAnswered, AllSent
  <2> QED BY <2>1, <2>2
<1>5. TypeOK
  BY DEF UploadInv
<1>6. \E state \in {"failed", "forget"} \cup (Asking \ {"init"}) : Goto(r, state)
  BY <1>1, <1>5 DEF StatusAnswered, RecheckAnswered, AllSent, ChunkAnswered, Asking, Goto, TypeOK
<1>7. PICK state \in {"failed", "forget"} \cup (Asking \ {"init"}) : Goto(r, state)
  BY <1>6
<1>8. /\ state \in States
      /\ state \in HasSession => pc[r] \in HasSession
      /\ state # "close" /\ state # "log"
  BY <1>1, <1>7, Asks
<1>9. /\ UNCHANGED <<version, writing, records, remembered, faults, unanswered, hash, packs,
                     payload, finger, copy, id, verdict>>
      /\ temp' = temp \/ Cleanup(r)
      /\ packs' = packs
  BY DEF StatusAnswered, RecheckAnswered, AllSent, ChunkAnswered, disk, ghosts
<1>10. TempKept'
  BY <1>9, TempLeftAlone, TempCleaned
<1> QED BY <1>1, <1>2, <1>3, <1>4, <1>7, <1>8, <1>9, <1>10, Asks, AsItWas, GoesOnAs

\* A session that is opened is opened for the run's own payload, and is nobody else's.
LEMMA InitAnsweredKept ==
  ASSUME UploadInv, NEW r \in Runs, InitAnswered(r)
  PROVE  UploadInv'
<1>1. /\ TypeOK /\ copy \in Copies /\ RunKept(r) /\ pc[r] \in Asking /\ pc[r] = "init"
      /\ payload[r] # None /\ finger[r] # None /\ verdict[r] = "none"
  BY Asks DEF UploadInv, InitAnswered, Asking
<1>2. PICK i \in Ids : OpenSession(r, i) /\ id' = [id EXCEPT ![r] = i]
  BY DEF InitAnswered
<1>3. ServerGoesOn /\ sessions'[i].of = payload[r]
  BY <1>1, <1>2, OpenGoesOn
<1>4. /\ id' \in [Runs -> Ids \cup {None}] /\ id'[r] = i
      /\ \A s \in Runs \ {r} : id'[s] = id[s]
  BY <1>1, <1>2 DEF TypeOK
<1>5. /\ pc' \in [Runs -> States] /\ pc'[r] = "remember" /\ \A s \in Runs \ {r} : pc'[s] = pc[s]
  BY <1>1 DEF InitAnswered, Goto, TypeOK, States, Updating
<1>6. /\ UNCHANGED <<version, writing, temp, records, remembered, faults, unanswered, hash,
                     packs, payload, finger, copy, verdict>>
  BY DEF InitAnswered, disk, ghosts
<1>7. TypeOK'
  <2>1. tries' \in [Runs -> 0 .. MaxAttempts] /\ todo' \in [Runs -> SUBSET Chunks]
    BY AsItWas, Constants DEF InitAnswered, Answered
  <2> QED BY <1>1, <1>3, <1>4, <1>5, <1>6, <2>1 DEF TypeOK, ServerGoesOn, Dumps
<1>8. DiskKept'
  BY <1>3, <1>6, DiskLeftAlone, TempLeftAlone
<1>9. RunKept(r)'
  <2>1. Knows(r)' /\ OwnDump(r)' /\ Agrees(r)' /\ OkIsOwn(r)'
    BY <1>1, <1>2, <1>3, <1>4, <1>5, <1>6, Constants, Fitting DEF RunKept, Knows, OwnDump,
                                                                  Agrees, OkIsOwn
  <2>2. CopyLeads(r)'
    BY <1>1, <1>3, <1>6, LeadsOn DEF RunKept, CopyLeads, Copies
  <2> QED BY <2>1, <2>2 DEF RunKept
<1> QED BY <1>1, <1>3, <1>4, <1>5, <1>6, <1>7, <1>8, <1>9, OneRun DEF Same

\* A run is told that it went well of a dump that is there.
LEMMA ClosingKept ==
  ASSUME UploadInv, ServerGoesOn, NEW r \in Runs, pc[r] \in {"finish", "refinish"},
         NEW outcome \in {"ok", "duplicate", "failed"}, Closing(r, outcome),
         UNCHANGED <<hash, packs, payload, finger, copy, id, todo>>,
         tries' \in [Runs -> 0 .. MaxAttempts], faults' \in 0 .. MaxFaults, unanswered' \subseteq Ids,
         outcome # "failed" =>
           \E d \in published' :
             /\ Fill(d.chunks, payload[r])
             /\ outcome = "ok" =>
                  d.id = id[r] /\ \E s \in Runs : d.label = LabelOf[s] /\ FileOf[s] = FileOf[r]
  PROVE  UploadInv'
<1>1. /\ TypeOK /\ copy \in Copies /\ RunKept(r) /\ pc[r] \in Asking \ {"init"}
      /\ payload[r] # None /\ finger[r] # None
  BY Asks DEF UploadInv, Asking
<1>2. UNCHANGED <<version, writing, records, remembered>>
  BY DEF Closing
<1>3. /\ pc' \in [Runs -> States] /\ pc'[r] = "close" /\ \A s \in Runs \ {r} : pc'[s] = pc[s]
  BY <1>1 DEF Closing, Goto, TypeOK, States, Updating
<1>4. /\ verdict' \in [Runs -> {"none", "ok", "duplicate", "failed"}] /\ verdict'[r] = outcome
      /\ \A s \in Runs \ {r} : verdict'[s] = verdict[s]
  BY <1>1 DEF Closing, TypeOK
<1>5. TempKept'
  BY TempCleaned DEF Closing
<1>6. TypeOK'
  BY <1>1, <1>2, <1>3, <1>4, <1>5 DEF TypeOK, ServerGoesOn, Dumps, TempKept
<1>7. DiskKept'
  BY <1>2, <1>5, DiskLeftAlone
<1>8. RunKept(r)'
  <2>1. Knows(r)' /\ OwnDump(r)'
    BY <1>1, <1>3, <1>4, Asks DEF RunKept, Knows, OwnDump, HasPayload, HasFinger, HasSession
  <2>2. CopyLeads(r)'
    BY <1>1, LeadsOn DEF RunKept, CopyLeads, Copies
  <2>3. Agrees(r)'
    <3>1. id[r] \in Ids /\ sessions[id[r]].of # None /\ Fits(sessions[id[r]].of, payload[r])
      BY <1>1, Asks DEF RunKept, Knows, Agrees, TypeOK
    <3> QED BY <1>1, <3>1 DEF Agrees, ServerGoesOn
  <2>4. OkIsOwn(r)'
    BY <1>1, <1>4 DEF OkIsOwn
  <2> QED BY <2>1, <2>2, <2>3, <2>4 DEF RunKept
<1> QED BY <1>1, <1>3, <1>4, <1>6, <1>7, <1>8, OneRun DEF Same

LEMMA FinishAnsweredKept ==
  ASSUME UploadInv, NEW r \in Runs, FinishAnswered(r)
  PROVE  UploadInv'
<1> DEFINE session == sessions[id[r]]
           dump == [id |-> id[r], label |-> session.label, chunks |-> session.chunks]
<1>1. /\ pc[r] \in {"finish", "refinish"} /\ FinishSession(r)
      /\ UNCHANGED <<faults, unanswered, hash, packs, payload, finger, copy, id, todo>>
  BY DEF FinishAnswered, ghosts
<1>2. /\ ServerGoesOn
      /\ Open(r) /\ Missing(r) = {} => Known(session.chunks) \/ dump \in published'
  BY <1>1, FinishGoesOn
<1>3. tries' \in [Runs -> 0 .. MaxAttempts] /\ faults' \in 0 .. MaxFaults /\ unanswered' \subseteq Ids
  BY <1>1, AsItWas, Constants DEF FinishAnswered, Answered
<1>4. /\ TypeOK /\ id[r] \in Ids /\ SessionKept(session, published)
      /\ session.of # None /\ Fits(session.of, payload[r])
      /\ session.state = "finished" => Published(published, session.of)
      /\ published \subseteq published'
  BY <1>1, <1>2, Asks
     DEF UploadInv, TypeOK, RunKept, Knows, Agrees, SessionsKept, SessionKept, Asking, ServerGoesOn
<1>5. CASE Open(r) /\ Missing(r) = {} /\ Closing(r, IF Known(session.chunks) THEN "duplicate" ELSE "ok")
  <2>1. /\ Fill(session.chunks, payload[r])
        /\ \E s \in Runs : session.label = LabelOf[s] /\ FileOf[s] = FileOf[r]
    BY <1>1, <1>5, AllOfIt
  <2>2. CASE Known(session.chunks)
    <3>1. \E d \in published' : Fill(d.chunks, payload[r])
      BY <1>4, <2>1, <2>2 DEF Known
    <3> QED BY <1>1, <1>2, <1>3, <1>5, <2>2, <3>1, ClosingKept
  <2>3. CASE ~Known(session.chunks)
    <3>1. /\ dump \in published' /\ Fill(dump.chunks, payload[r]) /\ dump.id = id[r]
          /\ dump.label = session.label
      BY <1>2, <1>5, <2>1, <2>3
    <3> HIDE DEF dump, session
    <3> QED BY <1>1, <1>2, <1>3, <1>5, <2>1, <2>3, <3>1, ClosingKept
  <2> QED BY <2>2, <2>3
<1>6. CASE session.state = "finished" /\ Closing(r, "duplicate")
  <2>1. \E d \in published' : Fill(d.chunks, payload[r])
    BY <1>4, <1>6, Fitting DEF Published, Fill
  <2> QED BY <1>1, <1>2, <1>3, <1>6, <2>1, ClosingKept
<1>7. CASE Closing(r, "failed")
  BY <1>1, <1>2, <1>3, <1>7, ClosingKept
<1>8. CASE Goto(r, "recheck") /\ UNCHANGED <<disk, verdict>>
  <2>1. "recheck" \in States /\ "recheck" \in HasSession /\ pc[r] \in HasSession
          /\ payload[r] # None /\ finger[r] # None /\ verdict[r] = "none"
    BY <1>1, Asks DEF Asking
  <2>2. UNCHANGED <<version, writing, records, remembered>> /\ TempKept'
    BY <1>8, TempLeftAlone DEF disk
  <2>3. "recheck" # "close" /\ "recheck" # "log"
    OBVIOUS
  <2> QED BY <1>1, <1>2, <1>3, <1>8, <2>1, <2>2, <2>3, AsItWas, GoesOnAs
<1> QED BY <1>5, <1>6, <1>7, <1>8 DEF FinishAnswered

LEMMA NoAnswerKept ==
  ASSUME UploadInv, NEW r \in Runs, NoAnswer(r), Pending(r), faults' \in 0 .. MaxFaults
  PROVE  UploadInv'
<1>1. ServerGoesOn
  BY ServerLeftAlone DEF NoAnswer
<1>2. pc[r] \in Asking /\ TypeOK
  BY DEF Pending, UploadInv
<1>3. tries' \in [Runs -> 0 .. MaxAttempts]
  BY AsItWas, Constants DEF NoAnswer
<1>4. unanswered' \subseteq Ids
  <2>1. pc[r] \in {"status", "finish", "refinish"} => id[r] \in Ids
    BY <1>2, Asks DEF UploadInv, RunKept, Knows, TypeOK
  <2> QED BY <2>1, AsItWas DEF NoAnswer
<1>5. UNCHANGED <<version, writing, records, remembered, hash, packs, payload, finger, copy,
                  id, todo>>
  BY DEF NoAnswer
<1>6. CASE pc[r] \in {"finish", "refinish"}
  <2>1. Closing(r, "failed")
    BY <1>5, <1>6 DEF NoAnswer, Closing
  <2> QED BY <1>1, <1>3, <1>4, <1>5, <1>6, <2>1, ClosingKept
<1>7. CASE pc[r] \notin {"finish", "refinish"}
  <2>1. /\ verdict' = verdict
        /\ TempKept'
        /\ \E state \in {"forget", "failed", "refinish"} :
             Goto(r, state) /\ (state = "refinish" => pc[r] # "init")
    BY <1>2, <1>7, TempLeftAlone, TempCleaned DEF NoAnswer, Asking
  <2>2. PICK state \in {"forget", "failed", "refinish"} :
          Goto(r, state) /\ (state = "refinish" => pc[r] # "init")
    BY <2>1
  <2>3. /\ state \in States /\ state # "close" /\ state # "log"
        /\ state \in HasSession => pc[r] \in HasSession
    BY <1>2, <2>2, Asks DEF Asking
  <2>4. payload[r] # None /\ finger[r] # None /\ verdict[r] = "none"
    BY <1>2, Asks
  <2>5. /\ records' \subseteq Records /\ \A record \in records' : Leads(record)
        /\ remembered' \subseteq Contents
        /\ hash' \in [Runs -> Contents \cup {None}] /\ todo' \in [Runs -> SUBSET Chunks]
        /\ packs' \subseteq Runs
    BY <1>5, AsItWas
  <2>6. /\ UNCHANGED <<version, writing, payload, finger, id, verdict>>
        /\ copy' = copy
        /\ TempKept'
        /\ Goto(r, state)
    <3>1. UNCHANGED <<version, writing, payload, finger, id, verdict>> /\ copy' = copy
      BY <1>5, <2>1
    <3>2. Goto(r, state)
      BY <2>2
    <3> QED BY <2>1, <3>1, <3>2
  <2>7. /\ state \in HasPayload => payload[r] # None
        /\ state \in HasFinger => finger[r] # None
        /\ verdict[r] # "none" => state \in {"close", "log"} \cup Returned
        /\ state = "close" => verdict[r] # "none"
        /\ state = "log" => verdict[r] \in {"ok", "duplicate"}
    BY <2>3, <2>4
  <2>8. state \in States /\ (state \in HasSession => pc[r] \in HasSession)
    BY <2>3
  <2> QED BY <1>1, <1>3, <1>4, <2>5, <2>6, <2>7, <2>8, GoesOnAs
<1> QED BY <1>6, <1>7

LEMMA LogPublishedKept ==
  ASSUME UploadInv, NEW r \in Runs, LogPublished(r)
  PROVE  UploadInv'
<1>1. ServerGoesOn
  BY ServerLeftAlone DEF LogPublished
<1>2. remembered' \subseteq Contents
  BY DEF LogPublished, UploadInv, TypeOK
<1>3. "ok" \in States /\ "ok" \in Returned /\ "ok" \notin HasPayload \cup HasFinger \cup HasSession
  BY DEF States, Returned, Done, HasPayload, HasFinger, HasSession, Updating, Asking
<1> QED BY <1>1, <1>2, <1>3, AsItWas, GoesOnAs, TempLeftAlone DEF LogPublished, ghosts

\* A cancelled run, one that is killed, and one that is killed as it writes uploads.json.
LEMMA StoppedKept ==
  ASSUME StemsApart, UploadInv, NEW r \in Runs, Cancel(r) \/ Kill(r) \/ TearUploads(r)
  PROVE  UploadInv'
<1>1. ServerGoesOn
  BY ServerLeftAlone DEF Cancel, Kill, TearUploads, server
<1>2. PICK state \in {"cancelled", "killed"} : Goto(r, state)
  BY DEF Cancel, Kill, TearUploads
<1>3. /\ state \in States /\ state \in Returned /\ state \notin HasPayload \cup HasFinger \cup HasSession
      /\ state # "close" /\ state # "log"
  BY <1>2 DEF States, Returned, Stopped, HasPayload, HasFinger, HasSession, Updating, Asking
<1>4. tries' \in [Runs -> 0 .. MaxAttempts]
  BY AsItWas, Constants DEF Cancel, Kill, TearUploads
<1>5. faults' \in 0 .. MaxFaults /\ unanswered' \subseteq Ids
  BY AsItWas, Constants DEF Cancel, Kill, TearUploads, Fault, Strikes
<1>6. records' \subseteq Records /\ \A record \in records' : Leads(record)
  BY AsItWas DEF Cancel, Kill, TearUploads, disk
<1>7. /\ UNCHANGED <<version, writing, remembered, hash, packs, payload, finger, id, todo,
                     verdict>>
      /\ packs' = packs
      /\ copy' = copy \/ Stored(r)
  BY DEF Cancel, Kill, TearUploads, disk
<1>8. TempKept'
  <2>1. CASE temp' = temp \/ Cleanup(r)
    BY <2>1, TempLeftAlone, TempCleaned
  <2>2. ASSUME NEW part \in Torn, temp' = [temp EXCEPT ![StemFor(r)] = <<FileOf[r], part>>]
        PROVE  TempKept'
    <3>1. <<FileOf[r], part>> \in Contents
      BY Constants DEF Contents, Readings
    <3> QED BY <2>2, <3>1, TempMade
  <2> QED BY <2>1, <2>2 DEF Cancel, Kill, TearUploads
<1> QED BY <1>1, <1>2, <1>3, <1>4, <1>5, <1>6, <1>7, <1>8, AsItWas, GoesOnAs

\* A request that is lost, or answered to nobody.
LEMMA LostKept ==
  ASSUME UploadInv, NEW r \in Runs, LoseRequest(r) \/ LoseReply(r)
  PROVE  UploadInv'
<1>1. pc[r] \in Asking /\ TypeOK /\ Knows(r) /\ payload[r] # None
  BY Asks DEF UploadInv, RunKept, LoseRequest, LoseReply, Pending
<1>2. ServerGoesOn
  <2>1. CASE LoseRequest(r)
    BY <2>1, ServerLeftAlone DEF LoseRequest
  <2>2. CASE LoseReply(r)
    <3>1. Serve(r)
      BY <2>2 DEF LoseReply
    <3>2. CASE pc[r] \in {"status", "recheck"} /\ UNCHANGED server
      BY <3>2, ServerLeftAlone
    <3>3. CASE pc[r] = "init" /\ \E i \in Ids : OpenSession(r, i)
      BY <1>1, <3>3, OpenGoesOn
    <3>4. CASE pc[r] \in {"send", "resend"} /\ todo[r] # {} /\ TakeChunk(r)
      BY <3>4, ChunkGoesOn
    <3>5. CASE pc[r] \in {"finish", "refinish"} /\ FinishSession(r)
      BY <3>5, FinishGoesOn
    <3> QED BY <3>1, <3>2, <3>3, <3>4, <3>5 DEF Serve
  <2> QED BY <2>1, <2>2
<1>3. /\ UNCHANGED <<version, writing, temp, records, remembered, unanswered, pc, hash, packs,
                     payload, finger, copy, id, todo, verdict>>
      /\ Again(r) /\ tries' = [tries EXCEPT ![r] = @ + 1]
      /\ faults' = faults + 1 /\ faults < MaxFaults
  BY DEF LoseRequest, LoseReply, disk, Fault, Strikes
<1>4. tries' \in [Runs -> 0 .. MaxAttempts]
  <2>1. tries \in [Runs -> 0 .. MaxAttempts] /\ tries[r] < MaxAttempts
    BY <1>3, AsItWas DEF Again
  <2>2. tries[r] + 1 \in 0 .. MaxAttempts
    BY <2>1, Constants
  <2> QED BY <1>3, <2>1, <2>2
<1>5. faults' \in 0 .. MaxFaults /\ unanswered' \subseteq Ids
  BY <1>3, AsItWas, Constants
<1>6. Goto(r, pc[r]) /\ pc[r] \in States
  BY <1>1, <1>3 DEF Goto, TypeOK
<1>7. /\ records' \subseteq Records /\ \A record \in records' : Leads(record)
      /\ remembered' \subseteq Contents
      /\ hash' \in [Runs -> Contents \cup {None}] /\ todo' \in [Runs -> SUBSET Chunks]
  BY <1>3, AsItWas
<1>8. /\ copy' = copy /\ TempKept' /\ packs' \subseteq Runs
      /\ UNCHANGED <<version, writing, payload, finger, id, verdict>>
  BY <1>3, AsItWas, TempLeftAlone
<1>9. /\ pc[r] \in HasPayload => payload[r] # None
      /\ pc[r] \in HasFinger => finger[r] # None
      /\ verdict[r] # "none" => pc[r] \in {"close", "log"} \cup Returned
      /\ pc[r] = "close" => verdict[r] # "none"
      /\ pc[r] = "log" => verdict[r] \in {"ok", "duplicate"}
  BY <1>1 DEF Knows
<1> QED BY <1>2, <1>4, <1>5, <1>6, <1>7, <1>8, <1>9, GoesOnAs

LEMMA RetryKept ==
  ASSUME UploadInv, NEW r \in Runs, Retry(r)
  PROVE  UploadInv'
<1>1. ServerGoesOn
  BY ServerLeftAlone DEF Retry
<1>2. TypeOK /\ copy \in Copies /\ RunKept(r)
  BY DEF UploadInv
<1>3. UNCHANGED <<version, writing, temp, records, remembered, sessions, published, faults,
                  unanswered, copy, tries>>
  BY DEF Retry, disk, server, ghosts
<1>4. /\ pc'[r] = "begin" /\ payload'[r] = None /\ finger'[r] = None /\ id'[r] = None
      /\ verdict'[r] = "none"
      /\ \A s \in Runs \ {r} : Same(s)
  BY <1>2, <1>3 DEF Retry, Goto, TypeOK, Same
<1>5. TypeOK'
  BY <1>2, <1>3 DEF Retry, Goto, TypeOK, States
<1>6. DiskKept'
  BY <1>1, <1>3, DiskLeftAlone, TempLeftAlone
<1>7. RunKept(r)'
  BY <1>2, <1>3, <1>4 DEF RunKept, Knows, OwnDump, CopyLeads, Leads, Agrees, OkIsOwn,
                          HasPayload, HasFinger, HasSession, Updating, Asking
<1> QED BY <1>1, <1>2, <1>3, <1>4, <1>5, <1>6, <1>7, OneRun

LEMMA AroundKept ==
  ASSUME UploadInv,
         \/ \E f \in Files : BeginRewrite(f) \/ EndRewrite(f)
         \/ \E i \in Ids : Expire(i) \/ \E k \in Chunks : LoseChunk(i, k)
  PROVE  UploadInv'
<1>1. TypeOK
  BY DEF UploadInv
<1>2. ASSUME NEW f \in Files, BeginRewrite(f) \/ EndRewrite(f) PROVE UploadInv'
  <2>1. ServerGoesOn
    BY <1>2, ServerLeftAlone DEF BeginRewrite, EndRewrite
  <2>2. UNCHANGED <<temp, records, remembered, sessions, published, faults, unanswered, run>>
    BY <1>2 DEF BeginRewrite, EndRewrite, server, ghosts
  <2>3. /\ version' \in [Files -> Versions]
        /\ writing' \subseteq Files /\ \A g \in writing' : version'[g] + 1 \in Versions
    <3>1. CASE BeginRewrite(f)
      <4>1. version[f] + 1 \in Versions
        BY <1>1, <3>1, Constants DEF BeginRewrite, TypeOK, Versions
      <4> QED BY <1>1, <3>1, <4>1 DEF BeginRewrite, TypeOK
    <3>2. CASE EndRewrite(f)
      BY <1>1, <3>2 DEF EndRewrite, TypeOK
    <3> QED BY <1>2, <3>1, <3>2
  <2>4. TypeOK'
    BY <1>1, <2>2, <2>3 DEF TypeOK, run
  <2>5. DiskKept'
    BY <2>1, <2>2, DiskLeftAlone, TempLeftAlone
  <2> QED BY <2>1, <2>2, <2>4, <2>5, NoRun
<1>3. ASSUME NEW i \in Ids, Expire(i) \/ \E k \in Chunks : LoseChunk(i, k) PROVE UploadInv'
  <2>1. ServerGoesOn
    BY <1>3, ExpireGoesOn, LossGoesOn
  <2>2. /\ UNCHANGED <<version, writing, temp, records, remembered, unanswered, run>>
        /\ faults' = faults + 1 /\ faults < MaxFaults
    BY <1>3 DEF Expire, LoseChunk, disk, Fault, Strikes
  <2>3. faults' \in 0 .. MaxFaults
    BY <2>2, AsItWas, Constants
  <2>4. TypeOK'
    BY <1>1, <2>1, <2>2, <2>3 DEF TypeOK, run, ServerGoesOn, Dumps
  <2>5. DiskKept'
    BY <2>1, <2>2, DiskLeftAlone, TempLeftAlone
  <2> QED BY <2>1, <2>2, <2>4, <2>5, NoRun
<1> QED BY <1>2, <1>3

LEMMA UploadKept ==
  ASSUME Still => AtRest, StemsApart, UploadInv, [Next]_vars
  PROVE  UploadInv'
<1>1. ASSUME NEW r \in Runs, RunStep(r) PROVE UploadInv'
  <2>1. CASE \/ Begin(r) \/ ChooseWhatToSend(r) \/ Compress(r) \/ CannotCompress(r)
             \/ ReadPayload(r) \/ LookForSession(r)
    BY <2>1, BeforeKept, ReadPayloadKept, LookForSessionKept
  <2>2. CASE LoadUploads(r) \/ ForgetUpload(r) \/ RememberUpload(r)
    BY <2>2, LoadUploadsKept, ForgetUploadKept, RememberUploadKept
  <2>3. CASE StatusAnswered(r) \/ RecheckAnswered(r) \/ AllSent(r) \/ ChunkAnswered(r)
    BY <2>3, AnsweredKept
  <2>4. CASE InitAnswered(r) \/ FinishAnswered(r) \/ LogPublished(r)
    BY <2>4, InitAnsweredKept, FinishAnsweredKept, LogPublishedKept
  <2>5. CASE GiveUp(r)
    <3>1. faults' \in 0 .. MaxFaults
      BY <2>5, AsItWas DEF GiveUp
    <3> QED BY <2>5, <3>1, NoAnswerKept DEF GiveUp
  <2> QED BY <1>1, <2>1, <2>2, <2>3, <2>4, <2>5 DEF RunStep
<1>2. ASSUME NEW r \in Runs,
             \/ Retry(r) \/ LoseRequest(r) \/ LoseReply(r) \/ Refuse(r)
             \/ Cancel(r) \/ Kill(r) \/ TearUploads(r)
      PROVE  UploadInv'
  <2>1. CASE Refuse(r)
    <3>1. faults' = faults + 1 /\ faults < MaxFaults
      BY <2>1 DEF Refuse, Strikes
    <3>2. faults' \in 0 .. MaxFaults
      BY <3>1, AsItWas, Constants
    <3> QED BY <2>1, <3>2, NoAnswerKept DEF Refuse
  <2> QED BY <1>2, <2>1, RetryKept, LostKept, StoppedKept
<1>3. CASE UNCHANGED vars
  <2>1. ServerGoesOn
    BY <1>3, ServerLeftAlone DEF vars
  <2>2. TypeOK' /\ UNCHANGED run
    BY <1>3 DEF UploadInv, TypeOK, vars, disk, server, run, ghosts
  <2>3. DiskKept'
    BY <1>3, <2>1, DiskLeftAlone, TempLeftAlone DEF vars, disk
  <2> QED BY <2>1, <2>2, <2>3, NoRun
<1> QED BY <1>1, <1>2, <1>3, AroundKept DEF Next

-----------------------------------------------------------------------------
(***************************************************************************)
(* As long as no dump is rewritten while it is being published.            *)
(***************************************************************************)

\* What a step of a run leaves alone, and what it may bring in: what it sees of its dump.
BringsNow(r) ==
  /\ version' = version /\ writing' = writing
  /\ \A s \in Runs \ {r} : /\ pc'[s] = pc[s] /\ hash'[s] = hash[s] /\ (s \in packs' <=> s \in packs)
                            /\ payload'[s] = payload[s] /\ finger'[s] = finger[s]
  /\ \A s \in Stems :
       \/ temp'[s] \in {None, temp[s]}
       \/ s = StemFor(r) /\ temp'[s] = Now(r)
       \/ s = StemFor(r) /\ ~Idle(r) /\ pc'[r] = "killed" /\ "kill" \in Faults
  /\ pc'[r] \notin Returned \cup {"begin"} =>
       /\ Idle(r) => RewriteAnyTime \/ FileOf[r] \notin writing
       /\ hash'[r] \in {None} \cup Seen(FileOf[r]) \/ (~Idle(r) /\ hash'[r] = hash[r])
  /\ pc'[r] = "read" /\ r \in packs' => temp'[StemFor(r)] = Now(r)
  /\ pc'[r] \in HasPayload =>
       \/ pc[r] \in HasPayload /\ payload'[r] = payload[r]
       \/ pc[r] = "read" /\ payload'[r] \in ToSend(r) /\ payload'[r] # None
  /\ pc'[r] \in HasFinger =>
       \/ pc[r] \in HasFinger /\ finger'[r] = finger[r]
       \/ pc[r] = "look" /\ finger'[r] \in Seen(FileOf[r])

LEMMA FreshStays ==
  ASSUME StemsApart, Still, UploadInv, RunsAreFresh, OneAtATime => OneRunActive,
         NEW r \in Runs, BringsNow(r)
  PROVE  RunsAreFresh'
<1>1. SUFFICES ASSUME NEW s \in Runs PROVE Fresh(s)'
  BY DEF RunsAreFresh
<1>2. Fresh(s) /\ Fresh(r) /\ version' = version /\ writing' = writing /\ StemFor(s) \in Stems
  BY Constants DEF RunsAreFresh, BringsNow
<1>3. Now(s)' = Now(s)
  BY <1>2 DEF Now
<1>4. CASE s = r
  <2>1. Idle(r) \/ FileOf[r] \notin writing
    BY <1>2 DEF Fresh
  <2>2. pc'[r] \notin Returned \cup {"begin"} =>
          FileOf[r] \notin writing /\ hash'[r] \in {None, Now(r)}
    <3>1. FileOf[r] \notin writing => Seen(FileOf[r]) = {Now(r)}
      BY DEF Seen, Now
    <3> QED BY <1>2, <2>1, <3>1 DEF BringsNow, Fresh, Still
  <2>3. ~Idle(r) => Seen(FileOf[r]) = {Now(r)}
    BY <2>1 DEF Seen, Now
  <2>4. pc'[r] \in HasPayload => payload'[r] = Now(r)
    <3>1. pc[r] = "read" => ~Idle(r)
      BY DEF Idle, Returned, Stopped, Done
    <3> QED BY <1>2, <2>1, <2>3, <3>1 DEF BringsNow, Fresh, ToSend
  <2>5. pc'[r] \in HasFinger => finger'[r] = Now(r)
    <3>1. pc[r] = "look" => ~Idle(r)
      BY DEF Idle, Returned, Stopped, Done
    <3> QED BY <1>2, <2>3, <3>1 DEF BringsNow, Fresh
  <2> QED BY <1>2, <1>3, <1>4, <2>2, <2>4, <2>5 DEF BringsNow, Fresh, Idle
<1>5. CASE s # r
  <2>1. /\ pc'[s] = pc[s] /\ hash'[s] = hash[s] /\ (s \in packs' <=> s \in packs)
        /\ payload'[s] = payload[s] /\ finger'[s] = finger[s]
    BY <1>5 DEF BringsNow
  <2>2. StemFor(s) = StemFor(r) => Now(s) = Now(r)
    BY Constants DEF StemsApart, StemFor, Now
  <2>3. \/ temp'[StemFor(s)] \in {None, temp[StemFor(s)], Now(s)}
        \/ ~Idle(r) /\ "kill" \in Faults
    BY <1>2, <2>2 DEF BringsNow
  <2>4. ~Idle(r) /\ "kill" \in Faults => Idle(s)
    BY <1>5 DEF Still, OneRunActive
  <2>5. Idle(s) => pc[s] # "read"
    BY DEF Idle, Returned, Stopped, Done
  <2> QED BY <1>2, <1>3, <2>1, <2>3, <2>4, <2>5 DEF Fresh, Idle
<1> QED BY <1>4, <1>5

LEMMA CleanupBrings ==
  ASSUME UploadInv, NEW r \in Runs, temp' = temp \/ Cleanup(r)
  PROVE  \A s \in Stems : temp'[s] \in {None, temp[s]}
BY Constants DEF Cleanup, UploadInv, TypeOK

LEMMA StepBringsNow ==
  ASSUME UploadInv, NEW r \in Runs,
         \/ RunStep(r) \/ Retry(r)
         \/ LoseRequest(r) \/ LoseReply(r) \/ Refuse(r) \/ Cancel(r) \/ Kill(r) \/ TearUploads(r)
  PROVE  BringsNow(r)
<1> USE DEF BringsNow, Goto, Idle, Returned, Stopped, Done, HasPayload, HasFinger, Updating, Asking
<1>0. /\ pc \in [Runs -> States] /\ hash \in [Runs -> Contents \cup {None}]
      /\ payload \in [Runs -> Contents \cup {None}] /\ finger \in [Runs -> Contents \cup {None}]
      /\ temp \in [Stems -> Contents \cup {None}] /\ StemFor(r) \in Stems
  BY Constants DEF UploadInv, TypeOK
<1>1. CASE Begin(r) \/ ChooseWhatToSend(r)
  BY <1>0, <1>1 DEF Begin, ChooseWhatToSend, disk
<1>2. CASE Compress(r) \/ CannotCompress(r)
  BY <1>0, <1>2, CleanupBrings DEF Compress, CannotCompress
<1>3. CASE ReadPayload(r)
  BY <1>0, <1>3 DEF ReadPayload, disk
<1>4. CASE LookForSession(r)
  BY <1>0, <1>4 DEF LookForSession, disk
<1>5. CASE LoadUploads(r) \/ ForgetUpload(r) \/ RememberUpload(r)
  BY <1>0, <1>5 DEF LoadUploads, ForgetUpload, RememberUpload, disk
<1>6. CASE StatusAnswered(r) \/ RecheckAnswered(r) \/ AllSent(r)
  BY <1>0, <1>6 DEF StatusAnswered, RecheckAnswered, AllSent, disk
<1>7. CASE InitAnswered(r)
  BY <1>0, <1>7 DEF InitAnswered, disk
<1>8. CASE ChunkAnswered(r)
  <2>1. temp' = temp \/ Cleanup(r)
    BY <1>8 DEF ChunkAnswered
  <2> QED BY <1>0, <1>8, <2>1, CleanupBrings DEF ChunkAnswered
<1>9. CASE FinishAnswered(r)
  <2>1. temp' = temp \/ Cleanup(r)
    BY <1>9 DEF FinishAnswered, Closing, disk
  <2> QED BY <1>0, <1>9, <2>1, CleanupBrings DEF FinishAnswered, Closing, disk
<1>10. CASE GiveUp(r) \/ Refuse(r)
  <2>1. pc[r] \in Asking /\ NoAnswer(r)
    BY <1>10 DEF GiveUp, Refuse, Pending
  <2>2. temp' = temp \/ Cleanup(r)
    BY <2>1 DEF NoAnswer
  <2>3. /\ UNCHANGED <<version, writing, hash, packs, payload, finger>>
        /\ \E state \in {"forget", "failed", "close", "refinish"} : Goto(r, state)
    BY <2>1 DEF NoAnswer
  <2> QED BY <1>0, <2>1, <2>2, <2>3, CleanupBrings
<1>11. CASE LogPublished(r)
  BY <1>0, <1>11 DEF LogPublished
<1>12. CASE Retry(r)
  BY <1>0, <1>12 DEF Retry, disk
<1>13. CASE LoseRequest(r) \/ LoseReply(r)
  BY <1>0, <1>13 DEF LoseRequest, LoseReply, Pending, disk
<1>14. CASE Cancel(r)
  BY <1>0, <1>14, CleanupBrings DEF Cancel
<1>15. CASE Kill(r)
  <2>1. "kill" \in Faults /\ ~Idle(r) /\ pc'[r] = "killed"
    BY <1>0, <1>15 DEF Kill, Fault, Strikes
  <2>2. \A s \in Stems \ {StemFor(r)} : temp'[s] = temp[s]
    BY <1>0, <1>15 DEF Kill
  <2>3. \A s \in Stems : temp'[s] \in {None, temp[s]} \/ s = StemFor(r)
    BY <2>2
  <2>4. UNCHANGED <<version, writing, hash, packs, payload, finger>>
    BY <1>15 DEF Kill
  <2>5. \A s \in Runs \ {r} : pc'[s] = pc[s]
    BY <1>0, <1>15 DEF Kill
  <2> QED BY <2>1, <2>3, <2>4, <2>5
<1>16. CASE TearUploads(r)
  BY <1>0, <1>16 DEF TearUploads
<1> QED BY <1>1, <1>2, <1>3, <1>4, <1>5, <1>6, <1>7, <1>8, <1>9, <1>10, <1>11, <1>12, <1>13,
           <1>14, <1>15, <1>16 DEF RunStep

LEMMA FreshKept ==
  ASSUME StemsApart, Still, UploadInv, RunsAreFresh, OneAtATime => OneRunActive, [Next]_vars
  PROVE  RunsAreFresh'
<1>1. ASSUME NEW f \in Files, BeginRewrite(f) \/ EndRewrite(f) PROVE RunsAreFresh'
  <2>1. SUFFICES ASSUME NEW s \in Runs PROVE Fresh(s)'
    BY DEF RunsAreFresh
  <2>2. UNCHANGED <<pc, hash, packs, payload, finger, temp>> /\ Fresh(s)
    BY <1>1 DEF BeginRewrite, EndRewrite, run, RunsAreFresh
  <2>3. CASE FileOf[s] = f
    <3>1. Idle(s)
      BY <1>1, <2>2, <2>3 DEF BeginRewrite, EndRewrite, Fresh, Still
    <3>2. pc[s] # "read" /\ pc[s] \notin HasPayload /\ pc[s] \notin HasFinger
      BY <3>1 DEF Idle, Returned, Stopped, Done, HasPayload, HasFinger, Updating, Asking
    <3> QED BY <2>2, <3>1, <3>2 DEF Fresh, Idle
  <2>4. CASE FileOf[s] # f
    <3>1. /\ version'[FileOf[s]] = version[FileOf[s]]
          /\ FileOf[s] \in writing' <=> FileOf[s] \in writing
      BY <1>1, <2>4, Constants DEF BeginRewrite, EndRewrite, UploadInv, TypeOK
    <3>2. Now(s)' = Now(s)
      BY <3>1 DEF Now
    <3> QED BY <2>2, <3>1, <3>2 DEF Fresh, Idle
  <2> QED BY <2>3, <2>4
<1>2. CASE UNCHANGED <<version, writing, temp, pc, hash, packs, payload, finger>>
  BY <1>2 DEF RunsAreFresh, Fresh, Idle, Now
<1>3. ASSUME NEW i \in Ids, Expire(i) \/ \E k \in Chunks : LoseChunk(i, k) PROVE RunsAreFresh'
  BY <1>2, <1>3 DEF Expire, LoseChunk, disk, run
<1>4. CASE UNCHANGED vars
  BY <1>2, <1>4 DEF vars, disk, run
<1> QED BY <1>1, <1>3, <1>4, StepBringsNow, FreshStays DEF Next

\* And with one run at a time there is one.
LEMMA OneRunStays ==
  ASSUME OneAtATime, UploadInv, OneRunActive, [Next]_vars
  PROVE  OneRunActive'
<1>1. ASSUME NEW r \in Runs, BringsNow(r), ~Idle(r) PROVE OneRunActive'
  BY <1>1 DEF BringsNow, OneRunActive, Idle
<1>2. ASSUME NEW r \in Runs, BringsNow(r), \A s \in Runs \ {r} : Idle(s) PROVE OneRunActive'
  BY <1>2 DEF BringsNow, OneRunActive, Idle
<1>3. ASSUME NEW r \in Runs, BringsNow(r), pc'[r] = "begin" PROVE OneRunActive'
  BY <1>3 DEF BringsNow, OneRunActive, Idle
<1>4. ASSUME NEW r \in Runs, Begin(r) PROVE \A s \in Runs \ {r} : Idle(s)
  BY <1>4 DEF Begin
<1>5. ASSUME NEW r \in Runs, Retry(r) PROVE pc'[r] = "begin"
  BY <1>5 DEF Retry, Goto, UploadInv, TypeOK
<1>6. ASSUME NEW r \in Runs, RunStep(r), ~Begin(r) PROVE ~Idle(r)
  BY <1>6
     DEF RunStep, ChooseWhatToSend, Compress, CannotCompress, ReadPayload, LookForSession,
         LoadUploads, ForgetUpload,
         RememberUpload, StatusAnswered, InitAnswered, ChunkAnswered, AllSent, FinishAnswered,
         RecheckAnswered, GiveUp, Pending, LogPublished, Idle, Returned, Stopped, Done, Updating,
         Asking
<1>7. ASSUME NEW r \in Runs,
             LoseRequest(r) \/ LoseReply(r) \/ Refuse(r) \/ Cancel(r) \/ Kill(r) \/ TearUploads(r)
      PROVE  ~Idle(r)
  BY <1>7
     DEF LoseRequest, LoseReply, Refuse, Cancel, Kill, TearUploads, Pending, Idle, Returned,
         Stopped, Done, Updating, Asking
<1>8. pc' = pc => OneRunActive'
  BY DEF OneRunActive, Idle
<1>9. \/ \E f \in Files : BeginRewrite(f) \/ EndRewrite(f)
      \/ \E i \in Ids : Expire(i) \/ \E k \in Chunks : LoseChunk(i, k)
      \/ UNCHANGED vars
      => pc' = pc
  BY DEF BeginRewrite, EndRewrite, Expire, LoseChunk, vars, run
<1> QED BY <1>1, <1>2, <1>3, <1>4, <1>5, <1>6, <1>7, <1>8, <1>9, StepBringsNow DEF Next

\* Every step leaves the server with what it published and with the sessions it opened.
LEMMA ServerKept ==
  ASSUME UploadInv, [Next]_vars
  PROVE  ServerGoesOn
<1> USE DEF server
<1>1. ASSUME NEW r \in Runs, LoseReply(r) PROVE ServerGoesOn
  <2>1. Serve(r)
    BY <1>1 DEF LoseReply
  <2>2. pc[r] \in Asking => payload[r] # None
    BY Asks
  <2>3. pc[r] \in {"status", "recheck"} /\ UNCHANGED server => ServerGoesOn
    BY ServerLeftAlone
  <2>4. pc[r] = "init" /\ (\E i \in Ids : OpenSession(r, i)) => ServerGoesOn
    BY <2>2, OpenGoesOn DEF Asking
  <2>5. pc[r] \in {"send", "resend"} /\ todo[r] # {} /\ TakeChunk(r) => ServerGoesOn
    BY ChunkGoesOn
  <2>6. pc[r] \in {"finish", "refinish"} /\ FinishSession(r) => ServerGoesOn
    BY FinishGoesOn
  <2> QED BY <2>1, <2>3, <2>4, <2>5, <2>6 DEF Serve
<1>2. ASSUME NEW r \in Runs, InitAnswered(r) PROVE ServerGoesOn
  <2>1. payload[r] # None
    BY <1>2, Asks DEF InitAnswered, Asking
  <2> QED BY <1>2, <2>1, OpenGoesOn DEF InitAnswered
<1>3. ASSUME NEW r \in Runs, ChunkAnswered(r) PROVE ServerGoesOn
  BY <1>3, ChunkGoesOn DEF ChunkAnswered
<1>4. ASSUME NEW r \in Runs, FinishAnswered(r) PROVE ServerGoesOn
  BY <1>4, FinishGoesOn DEF FinishAnswered
<1>5. ASSUME NEW i \in Ids, Expire(i) \/ \E k \in Chunks : LoseChunk(i, k) PROVE ServerGoesOn
  BY <1>5, ExpireGoesOn, LossGoesOn
<1>6. ASSUME NEW r \in Runs, RunStep(r), ~InitAnswered(r), ~ChunkAnswered(r), ~FinishAnswered(r)
      PROVE  UNCHANGED server
  BY <1>6
     DEF RunStep, Begin, ChooseWhatToSend, Compress, CannotCompress, Cleanup, ReadPayload,
         LookForSession, LoadUploads, ForgetUpload,
         RememberUpload, StatusAnswered, AllSent, RecheckAnswered, GiveUp, NoAnswer, LogPublished
<1>7. ASSUME NEW r \in Runs,
             Retry(r) \/ LoseRequest(r) \/ Refuse(r) \/ Cancel(r) \/ Kill(r) \/ TearUploads(r)
      PROVE  UNCHANGED server
  BY <1>7 DEF Retry, LoseRequest, Refuse, NoAnswer, Cancel, Kill, TearUploads
<1>8. (\E f \in Files : BeginRewrite(f) \/ EndRewrite(f)) \/ UNCHANGED vars => UNCHANGED server
  BY DEF BeginRewrite, EndRewrite, vars
<1> QED BY <1>1, <1>2, <1>3, <1>4, <1>5, <1>6, <1>7, <1>8, ServerLeftAlone DEF Next

\* Records come from uploads.json, but for the one that is written of a new session.
LEMMA RecordsFrom ==
  ASSUME UploadInv, [Next]_vars
  PROVE  /\ \A record \in records' :
              \/ record \in records
              \/ \E r \in Runs : copy[r] # None /\ record \in copy[r]
              \/ \E r \in Runs : pc[r] = "remember" /\ record = Record(r)
         /\ \A r \in Runs : copy'[r] \in {None, copy[r], records}
<1> USE DEF disk, run, Stored
<1>0. copy \in Copies
  BY DEF UploadInv
<1>1. ASSUME NEW r \in Runs, ForgetUpload(r) \/ RememberUpload(r) \/ LoadUploads(r)
      PROVE  /\ \A record \in records' :
                  \/ record \in records
                  \/ copy[r] # None /\ record \in copy[r]
                  \/ pc[r] = "remember" /\ record = Record(r)
             /\ \A s \in Runs : copy'[s] \in {None, copy[s], records}
  BY <1>0, <1>1 DEF ForgetUpload, RememberUpload, LoadUploads, Others, Copies
<1>2. ASSUME NEW r \in Runs, Kill(r) \/ TearUploads(r)
      PROVE  records' \subseteq records /\ \A s \in Runs : copy'[s] \in {None, copy[s], records}
  BY <1>0, <1>2 DEF Kill, TearUploads, Copies
<1>3. ASSUME NEW r \in Runs, RunStep(r), ~ForgetUpload(r), ~RememberUpload(r), ~LoadUploads(r)
      PROVE  UNCHANGED <<records, copy>>
  BY <1>3
     DEF RunStep, Begin, ChooseWhatToSend, Compress, CannotCompress, Cleanup, ReadPayload,
         LookForSession, StatusAnswered, InitAnswered,
         ChunkAnswered, AllSent, FinishAnswered, Closing, RecheckAnswered, GiveUp, NoAnswer,
         LogPublished
<1>4. ASSUME NEW r \in Runs, Retry(r) \/ LoseRequest(r) \/ LoseReply(r) \/ Refuse(r) \/ Cancel(r)
      PROVE  UNCHANGED <<records, copy>>
  BY <1>4 DEF Retry, LoseRequest, LoseReply, Refuse, NoAnswer, Cancel
<1>5. \/ \E f \in Files : BeginRewrite(f) \/ EndRewrite(f)
      \/ \E i \in Ids : Expire(i) \/ \E k \in Chunks : LoseChunk(i, k)
      \/ UNCHANGED vars
      => UNCHANGED <<records, copy>>
  BY DEF BeginRewrite, EndRewrite, Expire, LoseChunk, vars
<1> QED BY <1>1, <1>2, <1>3, <1>4, <1>5 DEF Next

LEMMA ExactKept ==
  ASSUME Still, UploadInv, AtRest, [Next]_vars
  PROVE  RecordsExact'
<1>1. ServerGoesOn
  BY ServerKept
<1>2. ASSUME NEW record \in Records, Exact(record) PROVE Exact(record)'
  BY <1>1, <1>2, Constants DEF Exact, Records, ServerGoesOn
<1>3. ASSUME NEW r \in Runs, pc[r] = "remember" PROVE Record(r) \in Records /\ Exact(Record(r))
  <2>1. payload[r] \in Contents /\ id[r] \in Ids /\ payload[r] = Now(r) /\ finger[r] = Now(r)
    BY <1>3 DEF UploadInv, TypeOK, RunKept, Knows, AtRest, RunsAreFresh, Fresh, HasPayload,
                HasFinger,
                HasSession, Updating
  <2>2. sessions[id[r]].of = payload[r] /\ SizeFor(r) \in Nat
    BY <1>3, <2>1, Constants DEF UploadInv, RunKept, Agrees, Fits, HasSession, SizeFor
  <2> QED BY <2>1, <2>2 DEF Record, Records, Exact
<1>4. /\ records \subseteq Records /\ \A record \in records : Exact(record)
      /\ \A r \in Runs : copy[r] # None =>
           copy[r] \subseteq Records /\ \A record \in copy[r] : Exact(record)
  BY DEF UploadInv, TypeOK, AtRest, RecordsExact
<1>5. \A record \in records' : Exact(record)'
  BY <1>2, <1>3, <1>4, RecordsFrom
<1>6. ASSUME NEW r \in Runs, copy'[r] # None, NEW record \in copy'[r] PROVE Exact(record)'
  BY <1>2, <1>4, <1>6, RecordsFrom
<1> QED BY <1>5, <1>6 DEF RecordsExact

-----------------------------------------------------------------------------
(***************************************************************************)
(* What publishing promises.                                               *)
(***************************************************************************)

LEMMA UploadInvariant ==
  ASSUME StemsApart
  PROVE  Spec => [](UploadInv /\ (Still => AtRest))
<1>1. Init => AtRest
  <2> SUFFICES ASSUME Init PROVE AtRest
    OBVIOUS
  <2>1. ASSUME NEW r \in Runs PROVE Fresh(r) /\ copy[r] = None /\ Idle(r)
    BY DEF Init, Fresh, Idle, HasPayload, HasFinger, Updating, Asking
  <2>2. records = {}
    BY DEF Init
  <2> QED BY <2>1, <2>2 DEF AtRest, RunsAreFresh, RecordsExact, OneRunActive
<1>2. /\ UploadInv /\ (Still => AtRest)
      /\ [Next]_vars
      => UploadInv' /\ (Still => AtRest')
  <2> SUFFICES ASSUME UploadInv, Still => AtRest, [Next]_vars
               PROVE  UploadInv' /\ (Still => AtRest')
    OBVIOUS
  <2>1. UploadInv'
    BY UploadKept
  <2>2. ASSUME Still PROVE AtRest'
    BY <2>2, FreshKept, ExactKept, OneRunStays DEF AtRest
  <2> QED BY <2>1, <2>2
<1>3. (Still => AtRest)' <=> (Still => AtRest')
  OBVIOUS
<1> QED BY <1>1, <1>2, <1>3, InitKept, PTL DEF Spec

\* Every run, record and session stays one that the program can make sense of: whoever
\* asks something of the server has a session there and something to send to it.
THEOREM UploadTyped ==
  ASSUME StemsApart
  PROVE  Spec => []TypeOK
<1>1. UploadInv => TypeOK
  BY DEF UploadInv
<1> QED BY <1>1, UploadInvariant, PTL

\* What goes up is of one dump and one length from its first chunk to its last, and nothing
\* that leads to a session of it would have it otherwise, whoever writes over which dump
\* while it is read, packed, looked at or sent: Upload resumes by fingerprint and size, and
\* the size is what holds a session together.
THEOREM PublishedIsOneDump ==
  ASSUME StemsApart
  PROVE  Spec => []PublishedWhole
<1>1. ASSUME UploadInv PROVE PublishedWhole
  <2>1. ASSUME NEW i \in Ids, NEW k \in Chunks, sessions[i].chunks[k] # None
        PROVE  sessions[i].of # None /\ Like(sessions[i].chunks[k], sessions[i].of)
    <3>1. SessionKept(sessions[i], published)
      BY <1>1 DEF UploadInv, SessionsKept
    <3>2. sessions[i].state # "none"
      BY <2>1, <3>1, NothingHere DEF SessionKept
    <3> QED BY <2>1, <3>1, <3>2, Constants DEF SessionKept, Fits
  <2>2. \A record \in records : Leads(record)
    BY <1>1 DEF UploadInv, DiskKept
  <2>3. \A r \in Runs : pc[r] \in Asking \ {"init"} => Like(sessions[id[r]].of, payload[r])
    BY <1>1 DEF UploadInv, RunKept, Agrees, HasSession, Fits
  <2>4. SessionsAgree
    BY <2>1, <2>2, <2>3 DEF SessionsAgree, Leads
  <2>5. \A d \in published : \E content \in Contents : AllLike(d.chunks, content)
    BY <1>1 DEF UploadInv, PublishedIsWhole, Fill, AllLike, Fits
  <2> QED BY <2>4, <2>5 DEF PublishedWhole
<1> QED BY <1>1, UploadInvariant, PTL

\* A run that is told that publishing worked has on the server what is of its own dump and
\* of the length it read, and under the label it asked for (Upload, report.ok).
THEOREM OkTellsTruth ==
  ASSUME StemsApart, OneLabelEach
  PROVE  Spec => []OkIsPublished
<1>1. ASSUME UploadInv PROVE OkIsPublished
  <2> SUFFICES ASSUME NEW r \in Runs, verdict[r] \in {"ok", "duplicate"}
               PROVE  /\ payload[r] # None /\ payload[r][1] = FileOf[r]
                      /\ \E d \in published :
                           /\ AllLike(d.chunks, payload[r])
                           /\ verdict[r] = "ok" => d.id = id[r] /\ d.label = LabelOf[r]
    BY DEF OkIsPublished
  <2>1. /\ payload[r] # None /\ payload[r][1] = FileOf[r]
        /\ OkIsOwn(r)
    BY <1>1 DEF UploadInv, RunKept, OwnDump, OkIsOwn
  <2>2. PICK d \in published :
          /\ Fill(d.chunks, payload[r])
          /\ verdict[r] = "ok" =>
               d.id = id[r] /\ \E s \in Runs : d.label = LabelOf[s] /\ FileOf[s] = FileOf[r]
    BY <2>1 DEF OkIsOwn
  <2>3. verdict[r] = "ok" => d.id = id[r] /\ d.label = LabelOf[r]
    BY <2>2 DEF OneLabelEach
  <2>4. AllLike(d.chunks, payload[r])
    BY <2>2 DEF Fill, AllLike, Fits
  <2> QED BY <2>1, <2>3, <2>4
<1> QED BY <1>1, UploadInvariant, PTL

\* Only a run that was told so adds to the log.
LEMMA OnlyToldIsLogged ==
  ASSUME [Next]_vars
  PROVE  remembered' = remembered \/ \E r \in Runs : LogPublished(r)
<1> USE DEF disk
<1>1. ASSUME NEW r \in Runs, RunStep(r), ~LogPublished(r) PROVE remembered' = remembered
  BY <1>1
     DEF RunStep, Begin, ChooseWhatToSend, Compress, CannotCompress, Cleanup, ReadPayload,
         LookForSession, LoadUploads, ForgetUpload,
         RememberUpload, StatusAnswered, InitAnswered, ChunkAnswered, AllSent, FinishAnswered,
         Closing, RecheckAnswered, GiveUp, NoAnswer
<1>2. ASSUME NEW r \in Runs,
             \/ Retry(r) \/ LoseRequest(r) \/ LoseReply(r) \/ Refuse(r)
             \/ Cancel(r) \/ Kill(r) \/ TearUploads(r)
      PROVE  remembered' = remembered
  BY <1>2 DEF Retry, LoseRequest, LoseReply, Refuse, NoAnswer, Cancel, Kill, TearUploads
<1>3. \/ \E f \in Files : BeginRewrite(f) \/ EndRewrite(f)
      \/ \E i \in Ids : Expire(i) \/ \E k \in Chunks : LoseChunk(i, k)
      \/ UNCHANGED vars
      => remembered' = remembered
  BY DEF BeginRewrite, EndRewrite, Expire, LoseChunk, vars
<1> QED BY <1>1, <1>2, <1>3 DEF Next

LEMMA LogKept ==
  ASSUME Still, UploadInv, RunsAreFresh, RememberedIsPublished, [Next]_vars
  PROVE  RememberedIsPublished'
<1>0. published \subseteq published'
  BY ServerKept DEF ServerGoesOn
<1>1. ASSUME NEW r \in Runs, LogPublished(r) PROVE RememberedIsPublished'
  <2>1. pc[r] = "log" /\ remembered' = remembered \cup ({hash[r]} \ {None})
    BY <1>1 DEF LogPublished
  <2>2. /\ hash[r] \in {None, Now(r)} /\ payload[r] = Now(r)
    BY <2>1 DEF RunsAreFresh, Fresh, Idle, Returned, Stopped, Done, HasPayload
  <2>3. \E d \in published : Whole(d.chunks, payload[r])
    BY <2>1 DEF UploadInv, RunKept, Knows, OkIsOwn, Fill, Fits, Whole
  <2> QED BY <1>0, <2>1, <2>2, <2>3 DEF RememberedIsPublished
<1>2. remembered' = remembered => RememberedIsPublished'
  BY <1>0 DEF RememberedIsPublished
<1> QED BY <1>1, <1>2, OnlyToldIsLogged

\* Nothing is turned away as already published that is not on the server
\* (CommandPublish and published.txt): the hash is taken before the payload is read, so
\* that this is so as long as no dump is rewritten while it is being published, and no
\* other run that packs the same dump is killed over the temporary file both use.
THEOREM LogTellsTruth ==
  ASSUME StemsApart, Still
  PROVE  Spec => []RememberedIsPublished
<1>1. Init => RememberedIsPublished
  BY DEF Init, RememberedIsPublished
<1>2. /\ UploadInv /\ AtRest /\ RememberedIsPublished
      /\ [Next]_vars
      => RememberedIsPublished'
  BY LogKept DEF AtRest
<1>3. Spec => [](UploadInv /\ AtRest)
  <2>1. UploadInv /\ (Still => AtRest) => UploadInv /\ AtRest
    OBVIOUS
  <2> QED BY <2>1, UploadInvariant, PTL
<1> QED BY <1>1, <1>2, <1>3, PTL DEF Spec

-----------------------------------------------------------------------------
(***************************************************************************)
(* Starting over.  With one run at a time uploads.json has a record of     *)
(* every open session that holds something, but for those whose status or  *)
(* finish came to nothing: a run that finds none opens a session, and only *)
(* once its session is over does a run take its record out.  That a file   *)
(* torn while it is written loses them all, and a chunk the server lost    *)
(* again makes a finish fail with its session open, are faults of          *)
(* "tear" and "chunk".                                                     *)
(***************************************************************************)

LossesOutside == Faults \cap {"tear", "chunk"} = {}

OneIdEach == \A a, b \in records : a.finger = b.finger => a.id = b.id

\* No session is of use to a run any more once it is one of these.
Over(i) == sessions[i].state \in {"closed", "finished"} \/ i \in unanswered

HoldsSome(i) ==
  sessions[i].state = "open" /\ \E k \in Chunks : sessions[i].chunks[k] # None

SessionsRecorded ==
  \A i \in Ids \ unanswered : HoldsSome(i) =>
    \E record \in records : record.finger = sessions[i].of /\ record.id = i

NotRecorded(r) == \A record \in records : record.finger # finger[r]

IsRecorded(r) == \E record \in records : record.finger = finger[r] /\ record.id = id[r]

KeepsBooks(r) ==
  /\ pc[r] \in {"init", "remember"} => NotRecorded(r)
  /\ pc[r] \in (Asking \ {"init"}) \cup {"forget", "close"} => IsRecorded(r)
  /\ pc[r] \in {"forget", "close"} => Over(id[r])
  /\ copy[r] # None => copy[r] = records /\ pc[r] \in Updating

\* What is missing of its session it still has to send.
SendsAll(r) ==
  /\ pc[r] \in {"remember", "send", "resend"} /\ Open(r) => Missing(r) \subseteq todo[r]
  /\ pc[r] \in {"finish", "recheck", "refinish"} /\ Open(r) => Missing(r) = {}

BooksInv ==
  /\ OneRunActive /\ OneIdEach /\ SessionsRecorded
  /\ \A r \in Runs : KeepsBooks(r) /\ SendsAll(r)

\* What the server does with a session that was opened: one that is over stays so, and
\* one that stays open holds what it held.
SessionsGoOn ==
  /\ unanswered \subseteq unanswered'
  /\ \A i \in Ids :
       /\ sessions[i].state \in {"closed", "finished"} => sessions'[i].state = sessions[i].state
       /\ sessions[i].state # "none" /\ sessions'[i].state = "open" =>
            /\ sessions[i].state = "open"
            /\ \A k \in Chunks : sessions'[i].chunks[k] = None => sessions[i].chunks[k] = None
       /\ HoldsSome(i)' =>
            \/ HoldsSome(i)
            \/ \E r \in Runs : pc[r] \in {"send", "resend"} /\ i = id[r]

LEMMA ServesOn ==
  ASSUME UploadInv, LossesOutside, [Next]_vars
  PROVE  \/ UNCHANGED server
         \/ \E r \in Runs :
              \/ pc[r] = "init" /\ \E i \in Ids : OpenSession(r, i)
              \/ pc[r] \in {"send", "resend"} /\ todo[r] # {} /\ TakeChunk(r)
              \/ FinishSession(r)
         \/ \E i \in Ids : Expire(i)
<1> USE DEF server
<1>1. ASSUME NEW r \in Runs, LoseReply(r) PROVE Serve(r)
  BY <1>1 DEF LoseReply
<1>2. ASSUME NEW r \in Runs, InitAnswered(r) PROVE Serve(r)
  BY <1>2 DEF InitAnswered, Serve
<1>3. ASSUME NEW r \in Runs, ChunkAnswered(r) PROVE Serve(r)
  BY <1>3 DEF ChunkAnswered, Serve
<1>4. ASSUME NEW r \in Runs, FinishAnswered(r) PROVE Serve(r)
  BY <1>4 DEF FinishAnswered, Serve
<1>5. ASSUME NEW i \in Ids, NEW k \in Chunks, LoseChunk(i, k) PROVE FALSE
  BY <1>5 DEF LoseChunk, Fault, Strikes, LossesOutside
<1>6. ASSUME NEW r \in Runs, RunStep(r), ~InitAnswered(r), ~ChunkAnswered(r), ~FinishAnswered(r)
      PROVE  UNCHANGED server
  BY <1>6
     DEF RunStep, Begin, ChooseWhatToSend, Compress, CannotCompress, Cleanup, ReadPayload,
         LookForSession, LoadUploads, ForgetUpload,
         RememberUpload, StatusAnswered, AllSent, RecheckAnswered, GiveUp, NoAnswer, LogPublished
<1>7. ASSUME NEW r \in Runs,
             Retry(r) \/ LoseRequest(r) \/ Refuse(r) \/ Cancel(r) \/ Kill(r) \/ TearUploads(r)
      PROVE  UNCHANGED server
  BY <1>7 DEF Retry, LoseRequest, Refuse, NoAnswer, Cancel, Kill, TearUploads
<1>8. (\E f \in Files : BeginRewrite(f) \/ EndRewrite(f)) \/ UNCHANGED vars => UNCHANGED server
  BY DEF BeginRewrite, EndRewrite, vars
<1> QED BY <1>1, <1>2, <1>3, <1>4, <1>5, <1>6, <1>7, <1>8 DEF Next, Serve

LEMMA UnansweredGrows ==
  ASSUME [Next]_vars
  PROVE  unanswered \subseteq unanswered'
<1> USE DEF ghosts, Fault
<1>1. ASSUME NEW r \in Runs, RunStep(r), ~GiveUp(r) PROVE unanswered' = unanswered
  BY <1>1
     DEF RunStep, Begin, ChooseWhatToSend, Compress, CannotCompress, Cleanup, ReadPayload,
         LookForSession, LoadUploads, ForgetUpload,
         RememberUpload, StatusAnswered, InitAnswered, ChunkAnswered, AllSent, FinishAnswered,
         RecheckAnswered, LogPublished
<1>2. ASSUME NEW r \in Runs, GiveUp(r) \/ Refuse(r) PROVE unanswered \subseteq unanswered'
  BY <1>2 DEF GiveUp, Refuse, NoAnswer
<1>3. ASSUME NEW r \in Runs,
             Retry(r) \/ LoseRequest(r) \/ LoseReply(r) \/ Cancel(r) \/ Kill(r) \/ TearUploads(r)
      PROVE  unanswered' = unanswered
  BY <1>3 DEF Retry, LoseRequest, LoseReply, Cancel, Kill, TearUploads
<1>4. \/ \E f \in Files : BeginRewrite(f) \/ EndRewrite(f)
      \/ \E i \in Ids : Expire(i) \/ \E k \in Chunks : LoseChunk(i, k)
      \/ UNCHANGED vars
      => unanswered' = unanswered
  BY DEF BeginRewrite, EndRewrite, Expire, LoseChunk, vars
<1> QED BY <1>1, <1>2, <1>3, <1>4 DEF Next

LEMMA SessionsKeepGoing ==
  ASSUME UploadInv, LossesOutside, [Next]_vars
  PROVE  SessionsGoOn
<1> DEFINE Kept(i) ==
      /\ sessions[i].state \in {"closed", "finished"} => sessions'[i].state = sessions[i].state
      /\ sessions[i].state # "none" /\ sessions'[i].state = "open" =>
           /\ sessions[i].state = "open"
           /\ \A k \in Chunks : sessions'[i].chunks[k] = None => sessions[i].chunks[k] = None
      /\ HoldsSome(i)' =>
           \/ HoldsSome(i)
           \/ \E r \in Runs : pc[r] \in {"send", "resend"} /\ i = id[r]
<1>0. sessions \in [Ids -> Session]
  BY DEF UploadInv, TypeOK
<1>1. ASSUME NEW i \in Ids, sessions'[i] = sessions[i] PROVE Kept(i)
  BY <1>1 DEF HoldsSome
<1>2. ASSUME UNCHANGED server, NEW i \in Ids PROVE Kept(i)
  BY <1>1, <1>2 DEF server
<1>3. ASSUME NEW r \in Runs, NEW j \in Ids, OpenSession(r, j), NEW i \in Ids PROVE Kept(i)
  <2>1. CASE i # j
    BY <1>0, <1>1, <1>3, <2>1 DEF OpenSession
  <2>2. CASE i = j
    <3>1. /\ sessions[i].state = "none"
          /\ sessions'[i] = [Nothing EXCEPT !.state = "open", !.label = LabelOf[r],
                                            !.of = payload[r]]
      BY <1>0, <1>3, <2>2 DEF OpenSession, NextId
    <3>2. sessions'[i].chunks = [k \in Chunks |-> None]
      BY <3>1 DEF Nothing
    <3>3. ~HoldsSome(i)'
      BY <3>2 DEF HoldsSome
    <3> QED BY <3>1, <3>3
  <2> QED BY <2>1, <2>2
<1>4. ASSUME NEW r \in Runs, pc[r] \in {"send", "resend"}, todo[r] # {}, TakeChunk(r),
             NEW i \in Ids
      PROVE  Kept(i)
  <2>1. CASE i # id[r] \/ ~Open(r)
    <3>1. sessions'[i] = sessions[i]
      BY <1>0, <1>4, <2>1 DEF TakeChunk
    <3> QED BY <1>1, <3>1
  <2>2. CASE i = id[r] /\ Open(r)
    <3>1. payload[r] # None
      BY <1>4, Asks DEF Asking
    <3>2. sessions' = [sessions EXCEPT ![i].chunks[FirstOf(r)] = payload[r]]
      BY <1>4, <2>2 DEF TakeChunk
    <3>3. sessions'[i] = [sessions[i] EXCEPT !.chunks[FirstOf(r)] = payload[r]]
      BY <1>0, <3>2
    <3>4. sessions[i] \in Session /\ sessions[i].state = "open"
      BY <1>0, <2>2 DEF Open
    <3>5. /\ sessions'[i].state = "open"
          /\ sessions'[i].chunks = [sessions[i].chunks EXCEPT ![FirstOf(r)] = payload[r]]
      BY <3>3, <3>4 DEF Session
    <3>6. sessions[i].chunks \in [Chunks -> Contents \cup {None}]
      BY <3>4, SessionFields
    <3>7. \A k \in Chunks : sessions'[i].chunks[k] = None => sessions[i].chunks[k] = None
      BY <3>1, <3>5, <3>6
    <3> QED BY <1>4, <2>2, <3>4, <3>5, <3>7
  <2> QED BY <2>1, <2>2
<1>5. ASSUME NEW r \in Runs, FinishSession(r), NEW i \in Ids PROVE Kept(i)
  <2>1. CASE i # id[r] \/ ~(Open(r) /\ Missing(r) = {})
    <3>1. sessions'[i] = sessions[i]
      BY <1>0, <1>5, <2>1 DEF FinishSession, server
    <3> QED BY <1>1, <3>1
  <2>2. CASE i = id[r] /\ Open(r) /\ Missing(r) = {}
    <3>1. sessions'[i].state = "finished" /\ sessions[i].state = "open"
      BY <1>0, <1>5, <2>2 DEF FinishSession, Open, Session
    <3> QED BY <3>1 DEF HoldsSome
  <2> QED BY <2>1, <2>2
<1>6. ASSUME NEW j \in Ids, Expire(j), NEW i \in Ids PROVE Kept(i)
  <2>1. CASE i # j
    BY <1>0, <1>1, <1>6, <2>1 DEF Expire
  <2>2. CASE i = j
    <3>1. sessions'[i].state = "closed" /\ sessions[i].state = "open"
      BY <1>0, <1>6, <2>2 DEF Expire, Session
    <3> QED BY <3>1 DEF HoldsSome
  <2> QED BY <2>1, <2>2
<1>7. \A i \in Ids : Kept(i)
  BY <1>2, <1>3, <1>4, <1>5, <1>6, ServesOn
<1> HIDE DEF Kept
<1> QED BY <1>7, UnansweredGrows DEF SessionsGoOn, Kept

\* Where a run is neither at uploads.json nor at the server, it has nothing to keep.
Quiet(r) == pc[r] \notin Asking \cup Updating /\ copy[r] = None

LEMMA QuietKeeps ==
  ASSUME NEW r \in Runs, Quiet(r)
  PROVE  KeepsBooks(r) /\ SendsAll(r)
BY DEF Quiet, KeepsBooks, SendsAll, Asking, Updating

LEMMA IdleIsQuiet ==
  ASSUME UploadInv, BooksInv, NEW r \in Runs, Idle(r)
  PROVE  Quiet(r)
BY DEF BooksInv, KeepsBooks, Quiet, Idle, Returned, Stopped, Done, Asking, Updating

\* A session that a run has is open, or over; it was opened for the run's dump.
LEMMA HasOpened ==
  ASSUME UploadInv, NEW r \in Runs, pc[r] \in HasSession
  PROVE  /\ id[r] \in Ids /\ sessions[id[r]].state # "none"
         /\ ~Open(r) => sessions[id[r]].state \in {"closed", "finished"}
         /\ Fits(sessions[id[r]].of, payload[r])
<1>1. /\ id[r] \in Ids /\ sessions[id[r]].of # None
      /\ Fits(sessions[id[r]].of, payload[r])
  BY DEF UploadInv, TypeOK, RunKept, Knows, Agrees, HasSession, HasPayload, Asking, Updating
<1>2. sessions[id[r]] \in Session /\ SessionKept(sessions[id[r]], published)
  BY <1>1 DEF UploadInv, TypeOK, SessionsKept
<1>3. sessions[id[r]].state # "none"
  BY <1>1, <1>2, NothingHere DEF SessionKept
<1> QED BY <1>1, <1>2, <1>3, SessionFields DEF Open

\* As long as no dump is rewritten, a record of it is of what would be sent of it.
LEMMA RecordFits ==
  ASSUME UploadInv, RecordsExact, RunsAreFresh, NEW r \in Runs, pc[r] = "look",
         NEW record \in records, record.finger = Now(r)
  PROVE  MayResume(r, record)
<1>1. payload[r] = Now(r) /\ Now(r) \in Contents
  BY NowIsContent DEF UploadInv, RunsAreFresh, Fresh, HasPayload
<1>2. PICK v \in Readings : /\ SizeOf[v] = record.size
                            /\ sessions[record.id].of = <<record.finger[1], v>>
  BY DEF UploadInv, DiskKept, Leads
<1>3. sessions[record.id].of = record.finger
  BY DEF RecordsExact, Exact
<1>4. record.finger[2] = v
  BY <1>2, <1>3
<1> QED BY <1>1, <1>2, <1>4 DEF MayResume, SizeFor

\* The records go on, and with them what they are of: uploads.json gains a record of a
\* dump that had none, or loses those of a session that is over.
RecordsGoOn ==
  \/ records' = records
  \/ \E r \in Runs : /\ pc[r] = "remember" /\ NotRecorded(r)
                     /\ records' = records \cup {Record(r)}
  \/ \E r \in Runs : /\ pc[r] \in {"forget", "close"} /\ IsRecorded(r) /\ Over(id[r])
                     /\ records' = {record \in records : record.finger # finger[r]}

LEMMA RecordsKeepGoing ==
  ASSUME UploadInv, LossesOutside, BooksInv, [Next]_vars
  PROVE  RecordsGoOn
<1> USE DEF disk, run
<1>1. ASSUME NEW r \in Runs, RememberUpload(r) PROVE RecordsGoOn
  <2>1. copy[r] = records /\ NotRecorded(r) /\ pc[r] = "remember"
    BY <1>1 DEF RememberUpload, BooksInv, KeepsBooks
  <2>2. records' = records \cup {Record(r)}
    BY <1>1, <2>1 DEF RememberUpload, Others, NotRecorded
  <2> QED BY <2>1, <2>2 DEF RecordsGoOn
<1>2. ASSUME NEW r \in Runs, ForgetUpload(r) PROVE RecordsGoOn
  <2>1. copy[r] = records /\ IsRecorded(r) /\ Over(id[r]) /\ pc[r] \in {"forget", "close"}
    BY <1>2 DEF ForgetUpload, BooksInv, KeepsBooks
  <2>2. records' = {record \in records : record.finger # finger[r]}
    BY <1>2, <2>1 DEF ForgetUpload, Others
  <2> QED BY <2>1, <2>2 DEF RecordsGoOn
<1>3. ASSUME NEW r \in Runs, TearUploads(r) PROVE FALSE
  BY <1>3 DEF TearUploads, Fault, Strikes, LossesOutside
<1>4. ASSUME NEW r \in Runs, RunStep(r), ~ForgetUpload(r), ~RememberUpload(r)
      PROVE  records' = records
  BY <1>4
     DEF RunStep, Begin, ChooseWhatToSend, Compress, CannotCompress, Cleanup, ReadPayload,
         LookForSession, LoadUploads, StatusAnswered,
         InitAnswered, ChunkAnswered, AllSent, FinishAnswered, Closing, RecheckAnswered, GiveUp,
         NoAnswer, LogPublished
<1>5. ASSUME NEW r \in Runs,
             Retry(r) \/ LoseRequest(r) \/ LoseReply(r) \/ Refuse(r) \/ Cancel(r) \/ Kill(r)
      PROVE  records' = records
  BY <1>5 DEF Retry, LoseRequest, LoseReply, Refuse, NoAnswer, Cancel, Kill
<1>6. \/ \E f \in Files : BeginRewrite(f) \/ EndRewrite(f)
      \/ \E i \in Ids : Expire(i) \/ \E k \in Chunks : LoseChunk(i, k)
      \/ UNCHANGED vars
      => records' = records
  BY DEF BeginRewrite, EndRewrite, Expire, LoseChunk, vars
<1> QED BY <1>1, <1>2, <1>3, <1>4, <1>5, <1>6 DEF Next, RecordsGoOn

LEMMA OverStays ==
  ASSUME SessionsGoOn, NEW i \in Ids, Over(i)
  PROVE  Over(i)'
BY DEF SessionsGoOn, Over

LEMMA SessionsStayRecorded ==
  ASSUME Still, UploadInv, AtRest, BooksInv, SessionsGoOn, RecordsGoOn, ServerGoesOn
  PROVE  OneIdEach' /\ SessionsRecorded'
<1>1. OneIdEach'
  <2>1. CASE records' = records
    BY <2>1 DEF BooksInv, OneIdEach
  <2>2. ASSUME NEW r \in Runs, NotRecorded(r), records' = records \cup {Record(r)}
        PROVE  OneIdEach'
    BY <2>2 DEF BooksInv, OneIdEach, NotRecorded, Record
  <2>3. ASSUME NEW r \in Runs, records' \subseteq records PROVE OneIdEach'
    BY <2>3 DEF BooksInv, OneIdEach
  <2> QED BY <2>1, <2>2, <2>3 DEF RecordsGoOn
<1>2. SUFFICES ASSUME NEW i \in Ids, i \notin unanswered', HoldsSome(i)'
               PROVE  \E record \in records' : record.finger = sessions'[i].of /\ record.id = i
  BY <1>1 DEF SessionsRecorded
<1>3. i \notin unanswered
  BY <1>2 DEF SessionsGoOn
<1>4. \E record \in records : record.finger = sessions[i].of /\ record.id = i
  <2>1. CASE HoldsSome(i)
    BY <1>3, <2>1 DEF BooksInv, SessionsRecorded
  <2>2. ASSUME NEW r \in Runs, pc[r] \in {"send", "resend"}, i = id[r]
        PROVE  \E record \in records : record.finger = sessions[i].of /\ record.id = i
    <3>1. IsRecorded(r)
      BY <2>2 DEF BooksInv, KeepsBooks, Asking
    <3>2. finger[r] = payload[r]
      BY <2>2 DEF AtRest, RunsAreFresh, Fresh, HasPayload, HasFinger, Asking
    <3>3. sessions[i].of = payload[r]
      BY <2>2, HasOpened DEF HasSession, Asking, Fits
    <3> QED BY <2>2, <3>1, <3>2, <3>3 DEF IsRecorded
  <2> QED BY <1>2, <2>1, <2>2 DEF SessionsGoOn
<1>5. PICK record \in records : record.finger = sessions[i].of /\ record.id = i
  BY <1>4
<1>6. sessions'[i].of = sessions[i].of
  <2>1. record.finger # None
    BY <1>5, Constants DEF UploadInv, TypeOK, Records
  <2> QED BY <1>5, <2>1 DEF ServerGoesOn
<1>7. record \in records'
  <2>1. CASE records' = records
    BY <2>1
  <2>2. ASSUME NEW r \in Runs, records' = records \cup {Record(r)} PROVE record \in records'
    BY <2>2
  <2>3. ASSUME NEW r \in Runs, IsRecorded(r), Over(id[r]),
               records' = {other \in records : other.finger # finger[r]},
               record.finger = finger[r]
        PROVE  FALSE
    <3>1. i = id[r]
      BY <1>5, <2>3 DEF IsRecorded, BooksInv, OneIdEach
    <3>2. Over(i)'
      BY <2>3, <3>1, OverStays
    <3> QED BY <1>2, <3>2 DEF Over, HoldsSome
  <2> QED BY <2>1, <2>2, <2>3 DEF RecordsGoOn
<1> QED BY <1>5, <1>6, <1>7

\* A run that does not move keeps its books as long as nobody writes in them.
LEMMA StandsStill ==
  ASSUME UploadInv, BooksInv, SessionsGoOn, records' = records, NEW r \in Runs,
         pc'[r] = pc[r], finger'[r] = finger[r], id'[r] = id[r], copy'[r] = copy[r],
         todo'[r] = todo[r]
  PROVE  KeepsBooks(r)' /\ SendsAll(r)'
<1>1. KeepsBooks(r) /\ SendsAll(r)
  BY DEF BooksInv
<1>2. pc[r] \in {"forget", "close"} => Over(id[r])'
  <2> SUFFICES ASSUME pc[r] \in {"forget", "close"} PROVE Over(id[r])'
    OBVIOUS
  <2>1. Over(id[r]) /\ IsRecorded(r)
    BY <1>1 DEF KeepsBooks
  <2>2. id[r] \in Ids
    BY <2>1 DEF IsRecorded, UploadInv, TypeOK, Records
  <2> QED BY <2>1, <2>2 DEF SessionsGoOn, Over
<1>3. KeepsBooks(r)'
  BY <1>1, <1>2 DEF KeepsBooks, NotRecorded, IsRecorded, Over
<1>4. ASSUME pc[r] \in {"remember", "send", "resend", "finish", "recheck", "refinish"}, Open(r)'
      PROVE  Open(r) /\ Missing(r)' \subseteq Missing(r)
  <2>1. id[r] \in Ids /\ sessions[id[r]].state # "none"
    BY <1>4, HasOpened DEF HasSession, Asking
  <2> QED BY <1>4, <2>1 DEF SessionsGoOn, Open, Missing
<1>5. SendsAll(r)'
  BY <1>1, <1>4 DEF SendsAll
<1> QED BY <1>3, <1>5

LEMMA OthersStandStill ==
  ASSUME UploadInv, NEW r \in Runs, NEW s \in Runs \ {r},
         \/ RunStep(r) \/ Retry(r)
         \/ LoseRequest(r) \/ LoseReply(r) \/ Refuse(r) \/ Cancel(r) \/ Kill(r) \/ TearUploads(r)
  PROVE  /\ pc'[s] = pc[s] /\ finger'[s] = finger[s] /\ id'[s] = id[s]
         /\ copy'[s] = copy[s] /\ todo'[s] = todo[s]
<1> USE DEF Goto, Stored
<1>0. copy \in Copies /\ id \in [Runs -> Ids \cup {None}] /\ todo \in [Runs -> SUBSET Chunks]
  BY DEF UploadInv, TypeOK
<1>1. pc'[s] = pc[s] /\ finger'[s] = finger[s]
  BY StepBringsNow DEF BringsNow
<1>2. CASE RunStep(r)
  BY <1>0, <1>1, <1>2
     DEF RunStep, Begin, ChooseWhatToSend, Compress, CannotCompress, Cleanup, ReadPayload,
         LookForSession, LoadUploads, ForgetUpload,
         RememberUpload, StatusAnswered, InitAnswered, ChunkAnswered, AllSent, FinishAnswered,
         RecheckAnswered, GiveUp, NoAnswer, LogPublished, Copies
<1>3. CASE Retry(r) \/ LoseRequest(r) \/ LoseReply(r) \/ Refuse(r) \/ Cancel(r) \/ Kill(r)
             \/ TearUploads(r)
  BY <1>0, <1>1, <1>3
     DEF Retry, LoseRequest, LoseReply, Refuse, NoAnswer, Cancel, Kill, TearUploads, Copies
<1> QED BY <1>2, <1>3

\* What each step of a run does to its own books.
LEMMA RunKeepsBooks ==
  ASSUME UploadInv, AtRest, LossesOutside, BooksInv, SessionsGoOn, NEW r \in Runs,
         \/ RunStep(r) \/ Retry(r)
         \/ LoseRequest(r) \/ LoseReply(r) \/ Refuse(r) \/ Cancel(r) \/ Kill(r) \/ TearUploads(r)
  PROVE  KeepsBooks(r)' /\ SendsAll(r)'
<1> USE DEF Goto, disk, server, Updating, Asking, Returned, Stopped, Done
<1>0. /\ pc \in [Runs -> States] /\ copy \in Copies /\ id \in [Runs -> Ids \cup {None}]
      /\ todo \in [Runs -> SUBSET Chunks] /\ finger \in [Runs -> Contents \cup {None}]
      /\ records \subseteq Records
  BY DEF UploadInv, TypeOK
<1>1. KeepsBooks(r) /\ SendsAll(r)
  BY DEF BooksInv
<1>2. Quiet(r)' => KeepsBooks(r)' /\ SendsAll(r)'
  BY DEF Quiet, KeepsBooks, SendsAll
<1>3. CASE \/ Begin(r) \/ ChooseWhatToSend(r) \/ Compress(r) \/ CannotCompress(r)
           \/ ReadPayload(r) \/ LogPublished(r) \/ Retry(r)
  <2>1. copy'[r] = copy[r] /\ pc[r] \notin Updating
    BY <1>3 DEF Begin, ChooseWhatToSend, Compress, CannotCompress, ReadPayload, LogPublished, Retry
  <2>2. pc'[r] \in {"already", "upload", "read", "compress", "failed", "look", "ok", "begin"}
    BY <1>0, <1>3
       DEF Begin, ChooseWhatToSend, Compress, CannotCompress, ReadPayload, LogPublished, Retry
  <2> QED BY <1>1, <1>2, <2>1, <2>2 DEF Quiet, KeepsBooks
<1>4. CASE Kill(r) \/ Cancel(r)
  <2>1. copy'[r] = None
    BY <1>0, <1>1, <1>4 DEF Kill, Cancel, Stored, Copies, KeepsBooks
  <2>2. pc'[r] \in {"killed", "cancelled"}
    BY <1>0, <1>4 DEF Kill, Cancel
  <2> QED BY <1>2, <2>1, <2>2 DEF Quiet
<1>5. CASE LookForSession(r)
  <2>1. /\ pc[r] = "look" /\ copy'[r] = None /\ records' = records /\ sessions' = sessions
    BY <1>0, <1>1, <1>5 DEF LookForSession, KeepsBooks
  <2>2. Seen(FileOf[r]) = {Now(r)}
    BY <2>1 DEF AtRest, RunsAreFresh, Fresh, Idle, Seen, Now
  <2>3. finger'[r] = Now(r)
    BY <1>0, <1>5, <2>2 DEF LookForSession
  <2>4. CASE (\A record \in records : record.finger # Now(r)) /\ Goto(r, "init")
    <3>1. pc'[r] = "init"
      BY <1>0, <2>4
    <3> QED BY <2>1, <2>3, <2>4, <3>1 DEF KeepsBooks, SendsAll, NotRecorded
  <2>5. ASSUME NEW record \in records, record.finger = Now(r),
               IF MayResume(r, record)
               THEN Goto(r, "status") /\ id' = [id EXCEPT ![r] = record.id]
               ELSE Goto(r, "forget") /\ UNCHANGED id
        PROVE  KeepsBooks(r)' /\ SendsAll(r)'
    <3>1. MayResume(r, record)
      BY <2>1, <2>5, RecordFits DEF AtRest
    <3>2. pc'[r] = "status" /\ id'[r] = record.id
      BY <1>0, <2>5, <3>1
    <3> QED BY <2>1, <2>3, <2>5, <3>2 DEF KeepsBooks, SendsAll, IsRecorded
  <2> QED BY <1>5, <2>2, <2>4, <2>5 DEF LookForSession
<1>6. CASE LoadUploads(r)
  <2>1. copy'[r] = records /\ pc[r] \in Updating /\ records' = records
    BY <1>0, <1>6 DEF LoadUploads, Copies
  <2>2. UNCHANGED <<sessions, unanswered, pc, finger, id, todo>>
    BY <1>6 DEF LoadUploads, ghosts
  <2> QED BY <1>1, <2>1, <2>2
          DEF KeepsBooks, SendsAll, NotRecorded, IsRecorded, Over, Open, Missing
<1>7. CASE RememberUpload(r)
  <2>1. /\ pc[r] = "remember" /\ pc'[r] = "send" /\ copy'[r] = None
        /\ UNCHANGED <<sessions, finger, id, todo>> /\ Record(r) \in records'
    BY <1>0, <1>7 DEF RememberUpload, Stored, Copies
  <2>2. IsRecorded(r)'
    BY <2>1 DEF IsRecorded, Record
  <2> QED BY <1>1, <2>1, <2>2 DEF KeepsBooks, SendsAll, Open, Missing
<1>8. CASE ForgetUpload(r)
  <2>1. /\ copy'[r] = None /\ copy[r] = records /\ finger' = finger
        /\ pc'[r] \in {"init", "failed", "log"}
    BY <1>0, <1>1, <1>8 DEF ForgetUpload, Stored, Copies, KeepsBooks
  <2>2. NotRecorded(r)'
    BY <1>8, <2>1 DEF ForgetUpload, Others, NotRecorded
  <2> QED BY <2>1, <2>2 DEF KeepsBooks, SendsAll
<1>9. CASE StatusAnswered(r)
  <2>1. /\ pc[r] = "status" /\ UNCHANGED <<records, sessions, unanswered, finger, id, copy>>
        /\ copy[r] = None /\ IsRecorded(r)
    BY <1>1, <1>9 DEF StatusAnswered, KeepsBooks, ghosts
  <2>2. CASE Open(r)
    <3>1. pc'[r] = "send" /\ todo'[r] = Missing(r)
      BY <1>0, <1>9, <2>2 DEF StatusAnswered
    <3> QED BY <2>1, <3>1 DEF KeepsBooks, SendsAll, IsRecorded, Open, Missing
  <2>3. CASE ~Open(r)
    <3>1. pc'[r] = "forget"
      BY <1>0, <1>9, <2>3 DEF StatusAnswered
    <3>2. Over(id[r])
      BY <2>1, <2>3, HasOpened DEF HasSession, Over
    <3> QED BY <2>1, <3>1, <3>2 DEF KeepsBooks, SendsAll, IsRecorded, Over
  <2> QED BY <2>2, <2>3
<1>10. CASE InitAnswered(r)
  <2>1. /\ pc[r] = "init" /\ pc'[r] = "remember" /\ UNCHANGED <<records, finger, copy>>
        /\ copy[r] = None /\ todo'[r] = Chunks /\ NotRecorded(r)
    BY <1>0, <1>1, <1>10 DEF InitAnswered, KeepsBooks
  <2> QED BY <2>1 DEF KeepsBooks, SendsAll, NotRecorded, Missing
<1>11. CASE ChunkAnswered(r)
  <2>1. /\ pc[r] \in {"send", "resend"} /\ UNCHANGED <<records, finger, id, copy>>
        /\ copy[r] = None /\ IsRecorded(r) /\ todo[r] # {} /\ TakeChunk(r)
    BY <1>1, <1>11 DEF ChunkAnswered, KeepsBooks
  <2>2. CASE ~Open(r)
    <3>1. pc'[r] = "failed"
      BY <1>0, <1>11, <2>2 DEF ChunkAnswered
    <3> QED BY <1>2, <2>1, <3>1 DEF Quiet
  <2>3. CASE Open(r)
    <3>1. pc'[r] = pc[r] /\ todo'[r] = todo[r] \ {FirstOf(r)}
      BY <1>0, <1>11, <2>3 DEF ChunkAnswered
    <3>2. id[r] \in Ids /\ payload[r] # None /\ FirstOf(r) \in Chunks
      BY <1>0, <2>1, HasOpened, Asks, FirstIsOne DEF HasSession
    <3>3. sessions' = [sessions EXCEPT ![id[r]].chunks[FirstOf(r)] = payload[r]]
      BY <2>1, <2>3 DEF TakeChunk
    <3>4. sessions'[id[r]] = [sessions[id[r]] EXCEPT !.chunks[FirstOf(r)] = payload[r]]
          /\ sessions[id[r]] \in Session
      BY <3>2, <3>3 DEF UploadInv, TypeOK
    <3>5. sessions'[id[r]].chunks = [sessions[id[r]].chunks EXCEPT ![FirstOf(r)] = payload[r]]
          /\ sessions[id[r]].chunks \in [Chunks -> Contents \cup {None}]
      BY <3>4, SessionFields DEF Session
    <3>6. Missing(r)' \subseteq Missing(r) \ {FirstOf(r)}
      BY <2>1, <3>2, <3>5 DEF Missing
    <3>7. Missing(r) \subseteq todo[r]
      BY <1>1, <2>1, <2>3 DEF SendsAll
    <3> QED BY <2>1, <3>1, <3>6, <3>7 DEF KeepsBooks, SendsAll, IsRecorded
  <2> QED BY <2>2, <2>3
<1>12. CASE AllSent(r)
  <2>1. /\ pc[r] \in {"send", "resend"} /\ UNCHANGED <<records, sessions, finger, id, copy>>
        /\ copy[r] = None /\ IsRecorded(r) /\ todo[r] = {}
        /\ pc'[r] \in {"finish", "refinish"}
    BY <1>0, <1>1, <1>12 DEF AllSent, KeepsBooks
  <2> QED BY <1>1, <2>1 DEF KeepsBooks, SendsAll, IsRecorded, Open, Missing
<1>13. CASE FinishAnswered(r)
  <2>1. /\ pc[r] \in {"finish", "refinish"} /\ UNCHANGED <<records, unanswered, finger, id, copy>>
        /\ copy[r] = None /\ IsRecorded(r) /\ FinishSession(r)
    BY <1>1, <1>13 DEF FinishAnswered, Closing, KeepsBooks, ghosts
  <2>2. id[r] \in Ids /\ (~Open(r) => sessions[id[r]].state \in {"closed", "finished"})
    BY <2>1, HasOpened DEF HasSession
  <2>3. Open(r) => Missing(r) = {}
    BY <1>1, <2>1 DEF SendsAll
  <2>4. Goto(r, "close")
    BY <1>13, <2>3 DEF FinishAnswered, Closing
  <2>5. Over(id[r])'
    <3>1. CASE Open(r)
      <4>1. sessions' = [sessions EXCEPT ![id[r]].state = "finished"]
        BY <2>1, <2>3, <3>1 DEF FinishSession
      <4>2. sessions'[id[r]].state = "finished"
        BY <2>2, <4>1 DEF UploadInv, TypeOK, Session
      <4> QED BY <2>1, <4>2 DEF Over
    <3>2. CASE ~Open(r)
      <4>1. Over(id[r])
        BY <2>2, <3>2 DEF Over
      <4> QED BY <2>1, <2>2, <4>1 DEF SessionsGoOn, Over
    <3> QED BY <3>1, <3>2
  <2>6. pc'[r] = "close"
    BY <1>0, <2>4
  <2> QED BY <2>1, <2>5, <2>6 DEF KeepsBooks, SendsAll, IsRecorded
<1>14. CASE RecheckAnswered(r)
  <2>1. /\ pc[r] = "recheck" /\ UNCHANGED <<records, sessions, finger, id, copy>>
        /\ copy[r] = None /\ IsRecorded(r)
    BY <1>1, <1>14 DEF RecheckAnswered, KeepsBooks
  <2>2. \/ Open(r) /\ pc'[r] = "resend" /\ todo'[r] = Missing(r)
        \/ ~Open(r) /\ pc'[r] = "refinish"
    BY <1>0, <1>14 DEF RecheckAnswered
  <2> QED BY <2>1, <2>2 DEF KeepsBooks, SendsAll, IsRecorded, Open, Missing
<1>15. CASE GiveUp(r) \/ Refuse(r)
  <2>1. /\ pc[r] \in Asking /\ NoAnswer(r) /\ copy'[r] = None
        /\ UNCHANGED <<records, sessions, finger, id, todo>>
    BY <1>1, <1>15 DEF GiveUp, Refuse, Pending, NoAnswer, KeepsBooks
  <2>2. CASE pc[r] \in {"init", "send", "resend"}
    <3>1. pc'[r] = "failed"
      BY <1>0, <2>1, <2>2 DEF NoAnswer
    <3> QED BY <1>2, <2>1, <3>1 DEF Quiet
  <2>3. CASE pc[r] \in {"status", "finish", "refinish"}
    <3>1. pc'[r] \in {"forget", "close"} /\ id[r] \in unanswered'
      BY <1>0, <2>1, <2>3 DEF NoAnswer
    <3>2. IsRecorded(r)' /\ Over(id[r])'
      BY <1>1, <2>1, <2>3, <3>1 DEF KeepsBooks, IsRecorded, Over
    <3> QED BY <2>1, <3>1, <3>2 DEF KeepsBooks, SendsAll
  <2>4. CASE pc[r] = "recheck"
    <3>1. pc'[r] = "refinish"
      BY <1>0, <2>1, <2>4 DEF NoAnswer
    <3> QED BY <1>1, <2>1, <2>4, <3>1 DEF KeepsBooks, SendsAll, IsRecorded, Open, Missing
  <2> QED BY <2>1, <2>2, <2>3, <2>4
<1>16. CASE LoseRequest(r) \/ LoseReply(r)
  BY <1>16, StandsStill DEF LoseRequest, LoseReply
<1>17. CASE TearUploads(r)
  BY <1>17 DEF TearUploads, Fault, Strikes, LossesOutside
<1> QED BY <1>3, <1>4, <1>5, <1>6, <1>7, <1>8, <1>9, <1>10, <1>11, <1>12, <1>13, <1>14, <1>15,
           <1>16, <1>17 DEF RunStep

\* Only a run that updates uploads.json changes what it records.
LEMMA OnlyUpdatesRecord ==
  ASSUME NEW r \in Runs, records' # records,
         \/ RunStep(r) \/ Retry(r)
         \/ LoseRequest(r) \/ LoseReply(r) \/ Refuse(r) \/ Cancel(r) \/ Kill(r) \/ TearUploads(r)
  PROVE  pc[r] \in Updating
<1> USE DEF disk, run
<1>1. ForgetUpload(r) \/ RememberUpload(r) => pc[r] \in Updating
  BY DEF ForgetUpload, RememberUpload, Updating
<1>2. RunStep(r) => ForgetUpload(r) \/ RememberUpload(r)
  BY DEF RunStep, Begin, ChooseWhatToSend, Compress, CannotCompress, Cleanup, ReadPayload,
         LookForSession, LoadUploads, StatusAnswered,
         InitAnswered, ChunkAnswered, AllSent, FinishAnswered, Closing, RecheckAnswered, GiveUp,
         NoAnswer, LogPublished
<1>3. ~(Retry(r) \/ LoseRequest(r) \/ LoseReply(r) \/ Refuse(r) \/ Cancel(r) \/ Kill(r))
  BY DEF Retry, LoseRequest, LoseReply, Refuse, NoAnswer, Cancel, Kill
<1>4. TearUploads(r) => pc[r] \in Updating
  BY DEF TearUploads
<1> QED BY <1>1, <1>2, <1>3, <1>4

LEMMA BooksKept ==
  ASSUME OneAtATime, Still, LossesOutside, UploadInv, AtRest, BooksInv, [Next]_vars
  PROVE  BooksInv'
<1>1. SessionsGoOn /\ RecordsGoOn /\ ServerGoesOn
  BY SessionsKeepGoing, RecordsKeepGoing, ServerKept
<1>2. OneRunActive' /\ OneIdEach' /\ SessionsRecorded'
  BY <1>1, OneRunStays, SessionsStayRecorded DEF BooksInv, AtRest
<1>3. SUFFICES ASSUME NEW s \in Runs PROVE KeepsBooks(s)' /\ SendsAll(s)'
  BY <1>2 DEF BooksInv
<1>4. ASSUME NEW r \in Runs,
             \/ RunStep(r) \/ Retry(r)
             \/ LoseRequest(r) \/ LoseReply(r) \/ Refuse(r) \/ Cancel(r) \/ Kill(r)
             \/ TearUploads(r)
      PROVE  KeepsBooks(s)' /\ SendsAll(s)'
  <2>1. CASE s = r
    BY <1>1, <1>4, <2>1, RunKeepsBooks
  <2>2. CASE s # r
    <3>1. /\ pc'[s] = pc[s] /\ finger'[s] = finger[s] /\ id'[s] = id[s]
          /\ copy'[s] = copy[s] /\ todo'[s] = todo[s]
      BY <1>4, <2>2, OthersStandStill
    <3>2. CASE records' = records
      BY <1>1, <3>1, <3>2, StandsStill
    <3>3. CASE records' # records
      <4>1. pc[r] \in Updating
        BY <1>4, <3>3, OnlyUpdatesRecord
      <4>2. ~Idle(r)
        BY <4>1 DEF Idle, Returned, Stopped, Done, Updating
      <4>4. Idle(s)
        BY <2>2, <4>2 DEF BooksInv, OneRunActive
      <4>5. Quiet(s)'
        BY <3>1, <4>4, IdleIsQuiet DEF Quiet
      <4> QED BY <4>5, QuietKeeps DEF Quiet, KeepsBooks, SendsAll, Asking, Updating
    <3> QED BY <3>2, <3>3
  <2> QED BY <2>1, <2>2
<1>5. CASE \/ \E f \in Files : BeginRewrite(f) \/ EndRewrite(f)
           \/ \E i \in Ids : Expire(i) \/ \E k \in Chunks : LoseChunk(i, k)
           \/ UNCHANGED vars
  BY <1>1, <1>5, StandsStill DEF BeginRewrite, EndRewrite, Expire, LoseChunk, vars, run, disk
<1> QED BY <1>4, <1>5 DEF Next

LEMMA NoBooksYet ==
  Init => BooksInv
<1> SUFFICES ASSUME Init PROVE BooksInv
  OBVIOUS
<1>1. ASSUME NEW r \in Runs PROVE Idle(r) /\ Quiet(r)
  BY DEF Init, Idle, Quiet, Asking, Updating
<1>2. OneIdEach
  BY DEF Init, OneIdEach
<1>3. SessionsRecorded
  BY DEF Init, SessionsRecorded, HoldsSome, Nothing
<1> QED BY <1>1, <1>2, <1>3, QuietKeeps DEF BooksInv, OneRunActive

\* A dropped connection picks up where it stopped instead of starting over (README.md:879):
\* LookForSession finds a record of every open session that holds part of the dump, and
\* none is taken out of uploads.json before its session is over.  With two runs at a time
\* one writes over what the other recorded.
THEOREM StartsOverOnlyWhenGone ==
  ASSUME OneAtATime, ~RewriteAnyTime, StemsApart, LossesOutside
  PROVE  Spec => StartsOverOnlyIfGone
<1> DEFINE Justified == \A r \in Runs : InitAnswered(r) =>
                          \A i \in Ids \ unanswered : sessions[i].state = "open" =>
                            \A k \in Chunks : sessions[i].chunks[k] # payload[r]
<1>0. Still
  BY DEF Still
<1>1. Spec => [](UploadInv /\ AtRest)
  <2>1. UploadInv /\ (Still => AtRest) => UploadInv /\ AtRest
    BY <1>0
  <2> QED BY <2>1, UploadInvariant, PTL
<1>2. UploadInv /\ AtRest /\ BooksInv /\ [Next]_vars => BooksInv'
  BY <1>0, BooksKept
<1>3. UploadInv /\ AtRest /\ BooksInv => Justified
  <2> SUFFICES ASSUME UploadInv, AtRest, BooksInv,
                      NEW r \in Runs, InitAnswered(r), NEW i \in Ids \ unanswered,
                      sessions[i].state = "open", NEW k \in Chunks,
                      sessions[i].chunks[k] = payload[r]
               PROVE  FALSE
    OBVIOUS
  <2>1. pc[r] = "init"
    BY DEF InitAnswered
  <2>2. payload[r] = Now(r) /\ finger[r] = Now(r) /\ payload[r] # None
    BY <2>1 DEF AtRest, RunsAreFresh, Fresh, UploadInv, RunKept, Knows, HasPayload, HasFinger,
                Asking
  <2>3. sessions[i].of = finger[r] /\ HoldsSome(i)
    BY <1>0, <2>2, Constants DEF UploadInv, SessionsKept, SessionKept, HoldsSome, Fits
  <2>4. ~NotRecorded(r)
    BY <2>3 DEF BooksInv, SessionsRecorded, NotRecorded
  <2> QED BY <2>1, <2>4 DEF BooksInv, KeepsBooks
<1> HIDE DEF Justified
<1>4. StartsOverOnlyIfGone <=> [][Justified]_vars
  BY DEF StartsOverOnlyIfGone, Justified
<1> QED BY <1>1, <1>2, <1>3, <1>4, NoBooksYet, PTL DEF Spec
=============================================================================

------------------------ MODULE WhatsAppInboxProofs ------------------------
(***************************************************************************)
(* What WhatsAppInbox promises for any messages, jobs and bounds, checked  *)
(* by the TLA+ proof system.                                               *)
(***************************************************************************)
EXTENDS WhatsAppInbox, TLAPS

JobStates == [kind : Kinds, at : Points, todo : Batches, seen : Chats, covers : SUBSET Messages]

Types == TypeOK /\ leaked \in BOOLEAN /\ replies \in [Messages -> Nat] /\ forPeople \subseteq Messages

Of(batch) == {batch[i] : i \in DOMAIN batch}

\* A job that looks at a message has one, which was delivered; Meta's jobs do not
\* bring what the phone gets, and only they have more than one message and look
\* for it first. A catch-up has none.
Before == {"checking", "saving", "inserting", "saved"}
Sound(b, known) ==
    /\ b.at \in Before => b.kind \in {"meta", "web"}
    /\ b.at \in {"checking", "saving"} => b.kind = "meta"
    /\ b.at \in {"reading", "claiming"} => b.kind = "catchUp"
    /\ b.at \in Before \/ (b.at \in Writing /\ b.kind # "catchUp") => b.todo # <<>>
    /\ b.kind # "meta" => Len(b.todo) < 2
    /\ Of(b.todo) \subseteq known
    /\ b.kind = "meta" => Of(b.todo) \cap Web = {}
SoundJobs == \A j \in Jobs : Sound(job[j], delivered)

\* The lock of a chat: it is lost or held, by one job.
LockHeld ==
    /\ \A j, k \in Writers : j = k
    /\ inFlight <=> (Writers # {} \/ leaked)
    /\ leaked => Writers = {}

\* A chat with messages for people is not the AI's, nor is the chat that the jobs
\* of these messages have read; nothing is answered before it comes.
LeftAlone ==
    /\ forPeople # {} => ~AiMayReply(chat)
    /\ \A m \in Messages : replies[m] > 0 => m \in delivered
    /\ \A m \in forPeople : replies[m] = 0
    /\ \A j \in Jobs : /\ At(j, {"inserting", "saved"}) /\ AiMayReply(job[j].seen) => Msg(j) \notin forPeople
                       /\ At(j, Writing) /\ job[j].kind # "catchUp" => Msg(j) \notin forPeople

\* The jobs that may still answer m.
Pending(m) == {j \in Jobs : /\ At(j, {"saved", "claimed", "prompting", "generating"})
                            /\ job[j].kind # "catchUp"
                            /\ Msg(j) = m}

\* One job at most may still answer a message, and only when nobody has; it is stored.
Once ==
    \A m \in Messages : m \notin crossed \/ m \in Web =>
        /\ \A j, k \in Pending(m) : j = k
        /\ Pending(m) # {} => m \in stored /\ replies[m] = 0
        /\ replies[m] > 0 => m \in stored /\ replies[m] = 1

IInv == Types /\ SoundJobs /\ LockHeld /\ LeftAlone /\ Once

----------------------------------------------------------------------------
(* Lemmas about jobs *)

\* A batch that is not empty begins with a message; what follows is a batch, and
\* it is not empty when the batch had two.
LEMMA BatchParts ==
    ASSUME NEW b \in Batches
    PROVE  /\ b # <<>> => Head(b) \in Messages
           /\ Len(b) \in Nat
           /\ Len(b) >= 2 => Tail(b) \in Batches /\ Tail(b) # <<>>
<1>1. CASE b = <<>>
  BY <1>1
<1>2. ASSUME NEW m \in Messages, b = <<m>>
      PROVE  Head(b) \in Messages /\ Len(b) = 1
  BY <1>2
<1>3. ASSUME NEW m \in Messages, NEW n \in Messages, b = <<m, n>>
      PROVE  /\ Head(b) \in Messages /\ Len(b) = 2
             /\ Tail(b) \in Batches /\ Tail(b) # <<>>
  <2>1. Head(b) \in Messages /\ Len(b) = 2 /\ Tail(b) = <<n>>
    BY <1>3
  <2>2. Tail(b) \in {<<x>> : x \in Messages}
    BY <2>1
  <2>3. Tail(b) # <<>>
    BY <2>1
  <2> QED
    BY <2>1, <2>2, <2>3 DEF Batches
<1>4. \/ b = <<>>
      \/ \E m \in Messages : b = <<m>>
      \/ \E m \in Messages, n \in Messages : b = <<m, n>>
  BY DEF Batches
<1>5. CASE \E m \in Messages : b = <<m>>
  <2>1. Head(b) \in Messages /\ Len(b) = 1
    BY <1>2, <1>5
  <2> QED
    BY <2>1
<1>6. CASE \E m \in Messages, n \in Messages : b = <<m, n>>
  <2>1. Head(b) \in Messages /\ Len(b) = 2 /\ Tail(b) \in Batches /\ Tail(b) # <<>>
    BY <1>3, <1>6
  <2> QED
    BY <2>1
<1> QED
  BY <1>1, <1>4, <1>5, <1>6

\* The messages of a batch.
LEMMA OfParts ==
    ASSUME NEW b \in Batches
    PROVE  /\ Of(b) \subseteq Messages
           /\ b # <<>> => Head(b) \in Of(b)
           /\ Len(b) >= 2 => Of(Tail(b)) \subseteq Of(b)
<1>1. CASE b = <<>>
  BY <1>1 DEF Of
<1>2. ASSUME NEW m \in Messages, b = <<m>>
      PROVE  Of(b) \subseteq Messages /\ Head(b) \in Of(b) /\ Len(b) = 1
  <2>1. DOMAIN b = {1} /\ b[1] = m /\ Head(b) = m /\ Len(b) = 1
    BY <1>2
  <2> QED
    BY <2>1 DEF Of
<1>3. ASSUME NEW m \in Messages, NEW n \in Messages, b = <<m, n>>
      PROVE  Of(b) \subseteq Messages /\ Head(b) \in Of(b) /\ Of(Tail(b)) \subseteq Of(b)
  <2>1. DOMAIN b = {1, 2} /\ b[1] = m /\ b[2] = n /\ Head(b) = m /\ Tail(b) = <<n>>
    BY <1>3
  <2>2. DOMAIN Tail(b) = {1} /\ Tail(b)[1] = n
    BY <2>1
  <2> QED
    BY <2>1, <2>2 DEF Of
<1>4. \/ b = <<>>
      \/ \E m \in Messages : b = <<m>>
      \/ \E m \in Messages, n \in Messages : b = <<m, n>>
  BY DEF Batches
<1>5. CASE \E m \in Messages : b = <<m>>
  BY <1>2, <1>5
<1>6. CASE \E m \in Messages, n \in Messages : b = <<m, n>>
  BY <1>3, <1>6
<1> QED
  BY <1>1, <1>4, <1>5, <1>6

\* A free job is sound.
LEMMA NoJobSound ==
    /\ NoJob \in JobStates /\ NoJob.at = "idle" /\ NoJob.kind = "none" /\ NoJob.todo = <<>>
    /\ \A known : Sound(NoJob, known)
<1>1. NoJob \in JobStates /\ NoJob.at = "idle" /\ NoJob.kind = "none" /\ NoJob.todo = <<>>
  BY DEF NoJob, JobStates, Kinds, Points, Batches, Chats
<1>2. Of(<<>>) = {} /\ Len(<<>>) < 2
  BY DEF Of
<1> QED
  BY <1>1, <1>2 DEF Sound, Before, Writing

\* A job that is done with a message is free, or begins with the next one.
LEMMA RestSound ==
    ASSUME NEW b \in JobStates, NEW known, Sound(b, known)
    PROVE  Rest(b) \in JobStates /\ Sound(Rest(b), known) /\ Rest(b).at \in {"idle", "checking"}
<1>1. b.todo \in Batches /\ b.kind \in Kinds
  BY DEF JobStates
<1>2. CASE Len(b.todo) < 2
  BY <1>2, NoJobSound DEF Rest
<1>3. CASE ~(Len(b.todo) < 2)
  <2>1. Len(b.todo) >= 2 /\ Tail(b.todo) \in Batches /\ Tail(b.todo) # <<>> /\ Of(Tail(b.todo)) \subseteq Of(b.todo)
    BY <1>1, <1>3, BatchParts, OfParts
  <2>2. Rest(b) = [NoJob EXCEPT !.kind = b.kind, !.at = "checking", !.todo = Tail(b.todo)]
    BY <1>3 DEF Rest
  <2>3. b.kind = "meta"
    BY <1>3 DEF Sound
  <2>4. Rest(b) \in JobStates /\ Rest(b).at = "checking" /\ Rest(b).kind = "meta" /\ Rest(b).todo = Tail(b.todo)
    BY <2>1, <2>2, <1>1, <2>3, NoJobSound DEF JobStates, Points
  <2> QED
    BY <2>1, <2>3, <2>4 DEF Sound, Before, Writing
<1> QED
  BY <1>2, <1>3

\* One job at a time does something.
LEMMA OneJob ==
    ASSUME Types, SoundJobs, NEW j \in Jobs, NEW x \in JobStates, Sound(x, delivered'),
           delivered \subseteq delivered', job' = [job EXCEPT ![j] = x]
    PROVE  job' \in [Jobs -> JobStates] /\ SoundJobs'
<1>1. job \in [Jobs -> JobStates]
  BY DEF Types, TypeOK, JobStates
<1>2. \A k \in Jobs : Sound(job[k], delivered')
  BY DEF SoundJobs, Sound
<1> QED
  BY <1>1, <1>2 DEF SoundJobs

\* What a job that is about to do something holds.
LEMMA Own ==
    ASSUME Types, SoundJobs, NEW j \in Jobs
    PROVE  /\ job[j] \in JobStates /\ Sound(job[j], delivered)
           /\ Rest(job[j]) \in JobStates /\ Sound(Rest(job[j]), delivered) /\ Rest(job[j]).at \in {"idle", "checking"}
           /\ job[j].todo # <<>> => /\ Msg(j) \in Messages /\ Msg(j) \in delivered
                                    /\ job[j].kind = "meta" => Msg(j) \notin Web
<1>1. job[j] \in JobStates /\ Sound(job[j], delivered)
  BY DEF Types, TypeOK, JobStates, SoundJobs
<1>2. job[j].todo \in Batches
  BY <1>1 DEF JobStates
<1>3. job[j].todo # <<>> => Msg(j) \in Of(job[j].todo) /\ Of(job[j].todo) \subseteq Messages
  BY <1>2, OfParts DEF Msg
<1> QED
  BY <1>1, <1>3, RestSound DEF Sound

\* An act of a person takes a free slot.
LEMMA ActSound ==
    ASSUME NEW known
    PROVE  \A p \in {<<"catchUp", "reading">>, <<"person", "takingOver">>} :
              LET x == [NoJob EXCEPT !.kind = p[1], !.at = p[2]]
              IN  x \in JobStates /\ x.at = p[2] /\ x.kind = p[1] /\ Sound(x, known)
<1> SUFFICES ASSUME NEW p \in {<<"catchUp", "reading">>, <<"person", "takingOver">>}
             PROVE  LET x == [NoJob EXCEPT !.kind = p[1], !.at = p[2]]
                    IN  x \in JobStates /\ x.at = p[2] /\ x.kind = p[1] /\ Sound(x, known)
  OBVIOUS
<1> DEFINE x == [NoJob EXCEPT !.kind = p[1], !.at = p[2]]
<1>1. \/ p[1] = "catchUp" /\ p[2] = "reading"
      \/ p[1] = "person" /\ p[2] = "takingOver"
  OBVIOUS
<1>2. p[1] \in Kinds /\ p[2] \in Points
  BY <1>1 DEF Kinds, Points
<1>3. NoJob \in JobStates /\ NoJob.todo = <<>>
  BY NoJobSound
<1>4. x \in JobStates /\ x.at = p[2] /\ x.kind = p[1] /\ x.todo = <<>>
  BY <1>2, <1>3 DEF JobStates
<1>5. Of(<<>>) = {} /\ Len(<<>>) < 2
  BY DEF Of
<1>6. Sound(x, known)
  BY <1>1, <1>4, <1>5 DEF Sound, Before, Writing
<1> QED
  BY <1>4, <1>6

\* A message arrives: a free slot takes it.
LEMMA Arrival ==
    ASSUME Types, SoundJobs, NEW j \in Jobs, Deliver(j) \/ DeliverWeb(j)
    PROVE  /\ job[j] = NoJob /\ delivered \subseteq delivered'
           /\ \E x \in JobStates :
                 /\ job' = [job EXCEPT ![j] = x]
                 /\ x.at \in {"checking", "inserting"} /\ Sound(x, delivered')
                 /\ x.at = "inserting" => x.seen = chat
           /\ \E came \in SUBSET Messages :
                 forPeople' = IF AiMayReply(chat) THEN forPeople ELSE forPeople \cup (came \ delivered)
           /\ UNCHANGED <<row, inFlight, unread, cut, replies, covered, joined, crossed, leaked, toOptedOut>>
<1>1. ASSUME NEW kind \in {"meta", "web"}, NEW todo \in Batches, todo # <<>>, NEW seen \in Chats,
             NEW at \in {"checking", "inserting"}, at = "checking" => kind = "meta",
             at = "inserting" => seen = chat,
             kind = "meta" => Of(todo) \cap Web = {}, kind = "web" => Len(todo) < 2,
             Starts(j, kind, todo, at, seen)
      PROVE  /\ job[j] = NoJob /\ delivered \subseteq delivered'
             /\ \E x \in JobStates :
                   /\ job' = [job EXCEPT ![j] = x]
                   /\ x.at \in {"checking", "inserting"} /\ Sound(x, delivered')
                   /\ x.at = "inserting" => x.seen = chat
             /\ \E came \in SUBSET Messages :
                   forPeople' = IF AiMayReply(chat) THEN forPeople ELSE forPeople \cup (came \ delivered)
             /\ UNCHANGED <<row, inFlight, unread, cut, replies, covered, joined, crossed, leaked, toOptedOut>>
  <2> DEFINE x == [NoJob EXCEPT !.kind = kind, !.todo = todo, !.at = at, !.seen = seen]
  <2>1. NoJob \in JobStates /\ kind \in Kinds /\ at \in Points
    BY NoJobSound DEF Kinds, Points
  <2>2. x \in JobStates /\ x.at = at /\ x.kind = kind /\ x.todo = todo /\ x.seen = seen
    BY <2>1 DEF JobStates
  <2>3. /\ job[j] = NoJob /\ job' = [job EXCEPT ![j] = x]
        /\ delivered' = delivered \cup Of(todo)
        /\ forPeople' = IF AiMayReply(chat) THEN forPeople ELSE forPeople \cup (Of(todo) \ delivered)
        /\ UNCHANGED <<row, inFlight, unread, cut, replies, covered, joined, crossed, leaked, toOptedOut>>
    BY <1>1 DEF Starts, Free, Of
  <2>4. Sound(x, delivered')
    BY <1>1, <2>2, <2>3 DEF Sound, Before, Writing
  <2>5. Of(todo) \in SUBSET Messages
    BY OfParts
  <2> HIDE DEF x
  <2> QED
    BY <1>1, <2>2, <2>3, <2>4, <2>5
<1>2. CASE Deliver(j)
  <2>1. PICK todo \in Batches \ {<<>>} :
           (\A i \in DOMAIN todo : todo[i] \notin Web) /\ Starts(j, "meta", todo, "checking", NoJob.seen)
    BY <1>2 DEF Deliver
  <2>2. Of(todo) \cap Web = {} /\ todo \in Batches /\ todo # <<>>
    BY <2>1 DEF Of
  <2>3. NoJob.seen \in Chats
    BY NoJobSound DEF JobStates
  <2> QED
    BY <1>1, <2>1, <2>2, <2>3
<1>3. CASE DeliverWeb(j)
  <2>1. PICK m \in Web : Starts(j, "web", <<m>>, "inserting", chat)
    BY <1>3 DEF DeliverWeb
  <2>2. m \in Messages
    BY InboxConstants
  <2>3. <<m>> \in Batches /\ <<m>> # <<>> /\ Len(<<m>>) < 2
    BY <2>2 DEF Batches
  <2>4. chat \in Chats
    BY DEF Types, TypeOK
  <2> QED
    BY <1>1, <2>1, <2>3, <2>4
<1> QED
  BY <1>2, <1>3

\* What a step that leaves the other jobs alone does to the writers and to those
\* that may still answer.
Others(j) == \A k \in Jobs \ {j} : job'[k] = job[k]

LEMMA Frame ==
    ASSUME NEW j \in Jobs, Others(j)
    PROVE  /\ Writers' \ {j} = Writers \ {j}
           /\ j \in Writers <=> job[j].at \in Writing
           /\ j \in Writers' <=> job'[j].at \in Writing
           /\ \A m : /\ Pending(m)' \ {j} = Pending(m) \ {j}
                     /\ j \in Pending(m) <=> /\ job[j].at \in {"saved", "claimed", "prompting", "generating"}
                                             /\ job[j].kind # "catchUp" /\ Head(job[j].todo) = m
                     /\ j \in Pending(m)' <=> /\ job'[j].at \in {"saved", "claimed", "prompting", "generating"}
                                              /\ job'[j].kind # "catchUp" /\ Head(job'[j].todo) = m
BY DEF Writers, Pending, At, Msg, Others

\* Nobody writes who did not, and the lock stays.
LEMMA SameWriters ==
    ASSUME LockHeld, NEW j \in Jobs, Others(j),
           job[j].at \notin Writing, job'[j].at \notin Writing, UNCHANGED <<inFlight, leaked>>
    PROVE  LockHeld'
<1>1. Writers' = Writers
  BY Frame
<1> QED
  BY <1>1 DEF LockHeld

\* A writer goes on, and the lock stays.
LEMMA SameLock ==
    ASSUME LockHeld, NEW j \in Jobs, Others(j),
           job[j].at \in Writing, job'[j].at \in Writing, UNCHANGED <<inFlight, leaked>>
    PROVE  LockHeld'
<1>1. Writers' = Writers
  <2>1. Writers' \ {j} = Writers \ {j} /\ j \in Writers /\ j \in Writers'
    BY Frame
  <2> QED
    BY <2>1
<1> QED
  BY <1>1 DEF LockHeld

\* Fewer jobs may still answer, and none has.
LEMMA FewerPending ==
    ASSUME Once, \A m \in Messages : Pending(m)' \subseteq Pending(m),
           replies' = replies, stored \subseteq stored', crossed \subseteq crossed'
    PROVE  Once'
BY DEF Once

\* What the spending of the allowance does to its job: it goes on, or is done.
LEMMA ConsumeStep ==
    ASSUME Types, SoundJobs, NEW j \in Jobs, Consume(j)
    PROVE  /\ Others(j) /\ job[j].at = "claimed"
           /\ UNCHANGED <<chat, stored, lastIn, delivered, unread, cut, replies, covered, crossed,
                          forPeople, leaked>>
           /\ \/ /\ UNCHANGED <<inFlight, joined>> /\ job' = [job EXCEPT ![j] = [job[j] EXCEPT !.at = "prompting"]]
                 /\ job'[j].at = "prompting" /\ job'[j].kind = job[j].kind /\ job'[j].todo = job[j].todo
              \/ /\ inFlight' = FALSE /\ joined' = {} /\ Done(j)
                 /\ job'[j].at \in {"idle", "checking"}
<1>0. job \in [Jobs -> JobStates] /\ job[j] \in JobStates
  BY DEF Types, TypeOK, JobStates
<1>1. /\ job[j].at = "claimed"
      /\ UNCHANGED <<chat, stored, lastIn, delivered, unread, cut, replies, covered, crossed,
                     forPeople, leaked>>
  BY DEF Consume, At
<1>2. CASE Moves(j, "prompting") /\ UNCHANGED <<inFlight, joined>>
  <2>1. job' = [job EXCEPT ![j] = [job[j] EXCEPT !.at = "prompting"]]
    BY <1>0, <1>2 DEF Moves
  <2>2. job'[j] = [job[j] EXCEPT !.at = "prompting"] /\ Others(j)
    BY <1>0, <2>1 DEF Others
  <2> QED
    BY <1>0, <1>1, <1>2, <2>1, <2>2 DEF JobStates
<1>3. CASE Releases(j) /\ joined' = {}
  <2>1. job'[j] = Rest(job[j]) /\ Others(j)
    BY <1>0, <1>3 DEF Releases, Done, Others
  <2> QED
    BY <1>1, <1>3, <2>1, Own DEF Releases
<1> QED
  BY <1>2, <1>3 DEF Consume

\* What the reading of the history does: the prompt covers what was read, which is
\* all that is stored unless the query failed.
LEMMA PromptStep ==
    ASSUME Types, SoundJobs, NEW j \in Jobs, NEW read \in SUBSET stored, Prompt(j, read)
    PROVE  /\ Others(j) /\ job[j].at = "prompting"
           /\ job'[j] \in JobStates /\ job' = [job EXCEPT ![j] = job'[j]]
           /\ job'[j].at = "generating" /\ job'[j].covers = read
           /\ job'[j].kind = job[j].kind /\ job'[j].todo = job[j].todo
           /\ UNCHANGED <<chat, stored, lastIn, used, inFlight, delivered, cut, replies, covered, joined,
                          crossed, forPeople, leaked>>
           /\ unread \subseteq unread' /\ stored \subseteq read \cup unread'
<1> DEFINE x == [job[j] EXCEPT !.at = "generating", !.covers = read]
<1>0. job \in [Jobs -> JobStates] /\ job[j] \in JobStates /\ read \in SUBSET Messages
  BY DEF Types, TypeOK, JobStates
<1>1. x \in JobStates /\ x.at = "generating" /\ x.kind = job[j].kind /\ x.todo = job[j].todo /\ x.covers = read
  BY <1>0 DEF JobStates, Points
<1>2. job' = [job EXCEPT ![j] = x]
  BY <1>0 DEF Prompt
<1> HIDE DEF x
<1>3. job'[j] = x /\ Others(j)
  BY <1>0, <1>2 DEF Others
<1>4. /\ job[j].at = "prompting"
      /\ UNCHANGED <<chat, stored, lastIn, used, inFlight, delivered, cut, replies, covered, joined,
                     crossed, forPeople, leaked>>
  BY DEF Prompt, At, row
<1>5. unread \subseteq unread' /\ stored \subseteq read \cup unread'
  BY DEF Prompt
<1> QED
  BY <1>1, <1>2, <1>3, <1>4, <1>5

----------------------------------------------------------------------------
(* Steps *)

\* Jobs stay what they are.
LEMMA JobsNext ==
    ASSUME Types, SoundJobs, [Next]_vars
    PROVE  job' \in [Jobs -> JobStates] /\ SoundJobs'
<1>1. ASSUME NEW j \in Jobs, Deliver(j)
      PROVE  job' \in [Jobs -> JobStates] /\ SoundJobs'
  BY <1>1, Arrival, OneJob
<1>2. ASSUME NEW j \in Jobs, DeliverWeb(j)
      PROVE  job' \in [Jobs -> JobStates] /\ SoundJobs'
  BY <1>2, Arrival, OneJob
<1>3. ASSUME NEW j \in Jobs, SwitchOn(j)
      PROVE  job' \in [Jobs -> JobStates] /\ SoundJobs'
  <2> DEFINE x == [NoJob EXCEPT !.kind = "catchUp", !.at = "reading"]
  <2>1. x \in JobStates /\ x.kind = "catchUp" /\ x.at = "reading" /\ Sound(x, delivered')
    BY ActSound
  <2>2. delivered' = delivered /\ job[j] = NoJob /\ job' = [job EXCEPT ![j] = x] /\ UNCHANGED <<inFlight, leaked>>
    BY <1>3 DEF SwitchOn, told, Free
  <2> HIDE DEF x
  <2>3. job'[j] = x /\ Others(j)
    BY <2>2 DEF Types, TypeOK, Others
  <2> QED
    BY <2>1, <2>2, OneJob
<1>4. ASSUME NEW j \in Jobs, PersonReplies(j)
      PROVE  job' \in [Jobs -> JobStates] /\ SoundJobs'
  <2> DEFINE x == [NoJob EXCEPT !.kind = "person", !.at = "takingOver"]
  <2>1. x \in JobStates /\ x.kind = "person" /\ x.at = "takingOver" /\ Sound(x, delivered')
    BY ActSound
  <2>2. delivered' = delivered /\ job[j] = NoJob /\ job' = [job EXCEPT ![j] = x] /\ UNCHANGED <<inFlight, leaked>>
    BY <1>4 DEF PersonReplies, told, Free
  <2> HIDE DEF x
  <2>3. job'[j] = x /\ Others(j)
    BY <2>2 DEF Types, TypeOK, Others
  <2> QED
    BY <2>1, <2>2, OneJob
<1>5. ASSUME NEW j \in Jobs, Check(j)
      PROVE  job' \in [Jobs -> JobStates] /\ SoundJobs'
  <2>1. delivered' = delivered /\ Sound(Rest(job[j]), delivered') /\ Sound(NoJob, delivered')
    BY <1>5, Own, NoJobSound DEF Check, told
  <2>2. LET x == [job[j] EXCEPT !.at = "saving"]
       IN  x \in JobStates /\ Sound(x, delivered')
    BY <1>5, <2>1, Own DEF Check, At, Sound, JobStates, Points, Kinds, Before, Writing
  <2> QED
    BY <1>5, <2>1, <2>2, Own, OneJob, NoJobSound DEF Check, Moves, Done
<1>6. ASSUME NEW j \in Jobs, Save(j)
      PROVE  job' \in [Jobs -> JobStates] /\ SoundJobs'
  <2>1. delivered' = delivered /\ Sound(Rest(job[j]), delivered') /\ Sound(NoJob, delivered')
    BY <1>6, Own, NoJobSound DEF Save, told, Types, TypeOK
  <2>2. LET x == [job[j] EXCEPT !.at = "saved", !.seen = chat]
       IN  x \in JobStates /\ Sound(x, delivered')
    BY <1>6, <2>1, Own DEF Save, At, Sound, JobStates, Points, Kinds, Before, Writing, Types, TypeOK
  <2>3. LET x == [job[j] EXCEPT !.at = "inserting", !.seen = chat]
       IN  x \in JobStates /\ Sound(x, delivered')
    BY <1>6, <2>1, Own DEF Save, At, Sound, JobStates, Points, Kinds, Before, Writing, Types, TypeOK
  <2> QED
    BY <1>6, <2>1, <2>2, <2>3, Own, OneJob, NoJobSound DEF Save, Moves, Done, Types, TypeOK
<1>7. ASSUME NEW j \in Jobs, Insert(j)
      PROVE  job' \in [Jobs -> JobStates] /\ SoundJobs'
  <2>1. delivered' = delivered /\ Sound(Rest(job[j]), delivered') /\ Sound(NoJob, delivered')
    BY <1>7, Own, NoJobSound DEF Insert, told
  <2>2. LET x == [job[j] EXCEPT !.at = "saved"]
       IN  x \in JobStates /\ Sound(x, delivered')
    BY <1>7, <2>1, Own DEF Insert, At, Sound, JobStates, Points, Kinds, Before, Writing
  <2> QED
    BY <1>7, <2>1, <2>2, Own, OneJob, NoJobSound DEF Insert, Moves, Done
<1>8. ASSUME NEW j \in Jobs, InsertWeb(j)
      PROVE  job' \in [Jobs -> JobStates] /\ SoundJobs'
  <2>1. delivered' = delivered /\ Sound(Rest(job[j]), delivered') /\ Sound(NoJob, delivered')
    BY <1>8, Own, NoJobSound DEF InsertWeb, told
  <2>2. LET x == [job[j] EXCEPT !.at = "saved"]
       IN  x \in JobStates /\ Sound(x, delivered')
    BY <1>8, <2>1, Own DEF InsertWeb, At, Sound, JobStates, Points, Kinds, Before, Writing
  <2> QED
    BY <1>8, <2>1, <2>2, Own, OneJob, NoJobSound DEF InsertWeb, Moves, Done
<1>9. ASSUME NEW j \in Jobs, OptOut(j)
      PROVE  job' \in [Jobs -> JobStates] /\ SoundJobs'
  <2>1. delivered' = delivered /\ Sound(Rest(job[j]), delivered') /\ Sound(NoJob, delivered')
    BY <1>9, Own, NoJobSound DEF OptOut, told
  <2> QED
    BY <1>9, <2>1, Own, OneJob, NoJobSound DEF OptOut, Moves, Done
<1>10. ASSUME NEW j \in Jobs, Judge(j)
      PROVE  job' \in [Jobs -> JobStates] /\ SoundJobs'
  <2>1. delivered' = delivered /\ Sound(Rest(job[j]), delivered') /\ Sound(NoJob, delivered')
    BY <1>10, Own, NoJobSound DEF Judge, told
  <2>2. LET x == [job[j] EXCEPT !.at = "claimed"]
       IN  x \in JobStates /\ Sound(x, delivered')
    BY <1>10, <2>1, Own DEF Judge, At, Sound, JobStates, Points, Kinds, Before, Writing
  <2> QED
    BY <1>10, <2>1, <2>2, Own, OneJob, NoJobSound DEF Judge, Moves, Done
<1>11. ASSUME NEW j \in Jobs, Consume(j)
      PROVE  job' \in [Jobs -> JobStates] /\ SoundJobs'
  <2>1. delivered' = delivered /\ job[j].at = "claimed"
    BY <1>11, ConsumeStep
  <2>2. LET x == [job[j] EXCEPT !.at = "prompting"]
        IN  x \in JobStates /\ Sound(x, delivered')
    BY <2>1, Own DEF Sound, JobStates, Points, Before, Writing
  <2> QED
    BY <1>11, <2>1, <2>2, Own, OneJob, ConsumeStep DEF Done
<1>12. ASSUME NEW j \in Jobs, HandOver(j)
      PROVE  job' \in [Jobs -> JobStates] /\ SoundJobs'
  <2>1. delivered' = delivered /\ Sound(Rest(job[j]), delivered') /\ Sound(NoJob, delivered')
    BY <1>12, Own, NoJobSound DEF HandOver, told, Releases
  <2> QED
    BY <1>12, <2>1, Own, OneJob, NoJobSound DEF HandOver, Moves, Done, Releases
<1>13. ASSUME NEW j \in Jobs, Record(j)
      PROVE  job' \in [Jobs -> JobStates] /\ SoundJobs'
  <2>1. delivered' = delivered /\ Sound(Rest(job[j]), delivered') /\ Sound(NoJob, delivered')
    BY <1>13, Own, NoJobSound DEF Record, told, Releases
  <2> QED
    BY <1>13, <2>1, Own, OneJob, NoJobSound DEF Record, Moves, Done, Releases
<1>14. ASSUME NEW j \in Jobs, CatchUp(j)
      PROVE  job' \in [Jobs -> JobStates] /\ SoundJobs'
  <2>1. delivered' = delivered /\ Sound(Rest(job[j]), delivered') /\ Sound(NoJob, delivered')
    BY <1>14, Own, NoJobSound DEF CatchUp, told, Types, TypeOK
  <2>2. LET x == [job[j] EXCEPT !.at = "claiming", !.seen = chat]
       IN  x \in JobStates /\ Sound(x, delivered')
    BY <1>14, <2>1, Own DEF CatchUp, At, Sound, JobStates, Points, Kinds, Before, Writing, Types, TypeOK
  <2> QED
    BY <1>14, <2>1, <2>2, Own, OneJob, NoJobSound DEF CatchUp, Moves, Done, Types, TypeOK
<1>15. ASSUME NEW j \in Jobs, CatchUpClaims(j)
      PROVE  job' \in [Jobs -> JobStates] /\ SoundJobs'
  <2>1. job[j].kind = "catchUp" /\ job[j] \in JobStates /\ Sound(job[j], delivered)
    BY <1>15, Own DEF CatchUpClaims, At, Sound
  <2>2. delivered' = delivered
    BY <1>15 DEF CatchUpClaims
  <2>3. CASE MayClaim
    <3> DEFINE x == [job[j] EXCEPT !.at = "claimed"]
    <3>1. x \in JobStates /\ Sound(x, delivered')
      BY <2>1, <2>2 DEF JobStates, Sound, Points, Before, Writing
    <3>2. job' = [job EXCEPT ![j] = x]
      BY <1>15, <2>3 DEF CatchUpClaims, Moves, Types, TypeOK
    <3> HIDE DEF x
    <3> QED
      BY <2>2, <3>1, <3>2, OneJob
  <2>4. CASE ~MayClaim
    BY <1>15, <2>2, <2>4, Own, OneJob DEF CatchUpClaims, Done
  <2> QED
    BY <2>3, <2>4
<1>16. ASSUME NEW j \in Jobs, TakeOver(j)
      PROVE  job' \in [Jobs -> JobStates] /\ SoundJobs'
  <2>1. delivered' = delivered /\ Sound(Rest(job[j]), delivered') /\ Sound(NoJob, delivered')
    BY <1>16, Own, NoJobSound DEF TakeOver, told
  <2> QED
    BY <1>16, <2>1, Own, OneJob, NoJobSound DEF TakeOver, Moves, Done
<1>17. ASSUME NEW j \in Jobs, GenerateNothing(j)
      PROVE  job' \in [Jobs -> JobStates] /\ SoundJobs'
  <2>1. delivered' = delivered /\ Sound(Rest(job[j]), delivered') /\ Sound(NoJob, delivered')
    BY <1>17, Own, NoJobSound DEF GenerateNothing, told, Releases
  <2> QED
    BY <1>17, <2>1, Own, OneJob, NoJobSound DEF GenerateNothing, Moves, Done, Releases
<1>18. ASSUME NEW j \in Jobs, Fail(j)
      PROVE  job' \in [Jobs -> JobStates] /\ SoundJobs'
  <2>1. delivered' = delivered /\ Sound(Rest(job[j]), delivered') /\ Sound(NoJob, delivered')
    BY <1>18, Own, NoJobSound DEF Fail, told
  <2> QED
    BY <1>18, <2>1, Own, OneJob, NoJobSound DEF Fail, Moves, Done
<1>19. ASSUME NEW j \in Jobs, NEW next \in {"recording", "handingOver"}, Generate(j, next)
      PROVE  job' \in [Jobs -> JobStates] /\ SoundJobs'
  <2>1. delivered' = delivered /\ Sound(Rest(job[j]), delivered') /\ Sound(NoJob, delivered')
    BY <1>19, Own, NoJobSound DEF Generate, told
  <2>2. LET x == [job[j] EXCEPT !.at = next]
       IN  x \in JobStates /\ Sound(x, delivered')
    BY <1>19, <2>1, Own DEF Generate, At, Sound, JobStates, Points, Kinds, Before, Writing
  <2> QED
    BY <1>19, <2>1, <2>2, Own, OneJob, NoJobSound DEF Generate, Moves, Done
<1>24. ASSUME NEW j \in Jobs, NEW read \in SUBSET stored, Prompt(j, read)
      PROVE  job' \in [Jobs -> JobStates] /\ SoundJobs'
  <2>1. /\ job'[j] \in JobStates /\ job' = [job EXCEPT ![j] = job'[j]] /\ delivered' = delivered
        /\ job[j].at = "prompting" /\ job'[j].at = "generating"
        /\ job'[j].kind = job[j].kind /\ job'[j].todo = job[j].todo
    BY <1>24, PromptStep
  <2>2. Sound(job'[j], delivered')
    BY <2>1, Own DEF Sound, Before, Writing
  <2> QED
    BY <2>1, <2>2, OneJob
<1>20. CASE SwitchOff
  BY <1>20 DEF SwitchOff, Types, TypeOK, JobStates, SoundJobs, Sound, told, row, bounds,
    Request, At
<1>21. CASE SpendElsewhere
  BY <1>21 DEF SpendElsewhere, Types, TypeOK, JobStates, SoundJobs, Sound, told, row,
    bounds, Request
<1>22. CASE Restart
  BY <1>22, NoJobSound DEF Restart, SoundJobs
<1>23. CASE UNCHANGED vars
  BY <1>23 DEF vars, row, told, bounds, Types, TypeOK, JobStates, SoundJobs, Sound, told,
    row, bounds, Request
<1> QED
  BY <1>1, <1>2, <1>3, <1>4, <1>5, <1>6, <1>7, <1>8, <1>9, <1>10, <1>11, <1>12, <1>13,
    <1>14, <1>15, <1>16, <1>17, <1>18, <1>19, <1>20, <1>21, <1>22, <1>23, <1>24
  DEF Next, Step

\* The rest of the state keeps its type.
LEMMA TypesNext ==
    ASSUME Types, SoundJobs, [Next]_vars
    PROVE  /\ chat' \in Chats /\ stored' \subseteq Messages /\ lastIn' \in BOOLEAN
           /\ used' \in 0..Limit /\ inFlight' \in BOOLEAN /\ leaked' \in BOOLEAN
           /\ replies' \in [Messages -> Nat] /\ forPeople' \subseteq Messages
<1>1. ASSUME NEW j \in Jobs, Deliver(j)
      PROVE  /\ chat' \in Chats /\ stored' \subseteq Messages /\ lastIn' \in BOOLEAN
           /\ used' \in 0..Limit /\ inFlight' \in BOOLEAN /\ leaked' \in BOOLEAN
           /\ replies' \in [Messages -> Nat] /\ forPeople' \subseteq Messages
  BY <1>1, Arrival DEF Types, TypeOK, row
<1>2. ASSUME NEW j \in Jobs, DeliverWeb(j)
      PROVE  /\ chat' \in Chats /\ stored' \subseteq Messages /\ lastIn' \in BOOLEAN
           /\ used' \in 0..Limit /\ inFlight' \in BOOLEAN /\ leaked' \in BOOLEAN
           /\ replies' \in [Messages -> Nat] /\ forPeople' \subseteq Messages
  BY <1>2, Arrival DEF Types, TypeOK, row
<1>3. ASSUME NEW j \in Jobs, SwitchOn(j)
      PROVE  /\ chat' \in Chats /\ stored' \subseteq Messages /\ lastIn' \in BOOLEAN
           /\ used' \in 0..Limit /\ inFlight' \in BOOLEAN /\ leaked' \in BOOLEAN
           /\ replies' \in [Messages -> Nat] /\ forPeople' \subseteq Messages
  BY <1>3, Own DEF SwitchOn, Types, TypeOK, told, row, bounds, Chats
<1>4. ASSUME NEW j \in Jobs, PersonReplies(j)
      PROVE  /\ chat' \in Chats /\ stored' \subseteq Messages /\ lastIn' \in BOOLEAN
           /\ used' \in 0..Limit /\ inFlight' \in BOOLEAN /\ leaked' \in BOOLEAN
           /\ replies' \in [Messages -> Nat] /\ forPeople' \subseteq Messages
  BY <1>4, Own DEF PersonReplies, Types, TypeOK, told, row, bounds
<1>5. ASSUME NEW j \in Jobs, Check(j)
      PROVE  /\ chat' \in Chats /\ stored' \subseteq Messages /\ lastIn' \in BOOLEAN
           /\ used' \in 0..Limit /\ inFlight' \in BOOLEAN /\ leaked' \in BOOLEAN
           /\ replies' \in [Messages -> Nat] /\ forPeople' \subseteq Messages
  BY <1>5, Own DEF Check, Types, TypeOK, told, row, bounds
<1>6. ASSUME NEW j \in Jobs, Save(j)
      PROVE  /\ chat' \in Chats /\ stored' \subseteq Messages /\ lastIn' \in BOOLEAN
           /\ used' \in 0..Limit /\ inFlight' \in BOOLEAN /\ leaked' \in BOOLEAN
           /\ replies' \in [Messages -> Nat] /\ forPeople' \subseteq Messages
  BY <1>6, Own DEF Save, Types, TypeOK, told, row, bounds
<1>7. ASSUME NEW j \in Jobs, Insert(j)
      PROVE  /\ chat' \in Chats /\ stored' \subseteq Messages /\ lastIn' \in BOOLEAN
           /\ used' \in 0..Limit /\ inFlight' \in BOOLEAN /\ leaked' \in BOOLEAN
           /\ replies' \in [Messages -> Nat] /\ forPeople' \subseteq Messages
  BY <1>7, Own DEF Insert, Types, TypeOK, told, row, bounds, Sound, Before, At
<1>8. ASSUME NEW j \in Jobs, InsertWeb(j)
      PROVE  /\ chat' \in Chats /\ stored' \subseteq Messages /\ lastIn' \in BOOLEAN
           /\ used' \in 0..Limit /\ inFlight' \in BOOLEAN /\ leaked' \in BOOLEAN
           /\ replies' \in [Messages -> Nat] /\ forPeople' \subseteq Messages
  BY <1>8, Own DEF InsertWeb, Types, TypeOK, told, row, bounds, Sound, Before, At
<1>9. ASSUME NEW j \in Jobs, OptOut(j)
      PROVE  /\ chat' \in Chats /\ stored' \subseteq Messages /\ lastIn' \in BOOLEAN
           /\ used' \in 0..Limit /\ inFlight' \in BOOLEAN /\ leaked' \in BOOLEAN
           /\ replies' \in [Messages -> Nat] /\ forPeople' \subseteq Messages
  BY <1>9, Own DEF OptOut, Types, TypeOK, told, row, bounds, Chats
<1>10. ASSUME NEW j \in Jobs, Judge(j)
      PROVE  /\ chat' \in Chats /\ stored' \subseteq Messages /\ lastIn' \in BOOLEAN
           /\ used' \in 0..Limit /\ inFlight' \in BOOLEAN /\ leaked' \in BOOLEAN
           /\ replies' \in [Messages -> Nat] /\ forPeople' \subseteq Messages
  BY <1>10, Own DEF Judge, Types, TypeOK, told, row, bounds
<1>11. ASSUME NEW j \in Jobs, Consume(j)
      PROVE  /\ chat' \in Chats /\ stored' \subseteq Messages /\ lastIn' \in BOOLEAN
           /\ used' \in 0..Limit /\ inFlight' \in BOOLEAN /\ leaked' \in BOOLEAN
           /\ replies' \in [Messages -> Nat] /\ forPeople' \subseteq Messages
  <2>1. used' = used \/ (used < Limit /\ used' = used + 1)
    BY <1>11 DEF Consume
  <2>2. inFlight' \in BOOLEAN /\ UNCHANGED <<chat, stored, lastIn, replies, forPeople, leaked>>
    BY <1>11 DEF Consume, Releases, Types, TypeOK
  <2> QED
    BY <2>1, <2>2, InboxConstants DEF Types, TypeOK
<1>12. ASSUME NEW j \in Jobs, HandOver(j)
      PROVE  /\ chat' \in Chats /\ stored' \subseteq Messages /\ lastIn' \in BOOLEAN
           /\ used' \in 0..Limit /\ inFlight' \in BOOLEAN /\ leaked' \in BOOLEAN
           /\ replies' \in [Messages -> Nat] /\ forPeople' \subseteq Messages
  BY <1>12, Own DEF HandOver, Types, TypeOK, told, row, bounds, Releases, Chats
<1>13. ASSUME NEW j \in Jobs, Record(j)
      PROVE  /\ chat' \in Chats /\ stored' \subseteq Messages /\ lastIn' \in BOOLEAN
           /\ used' \in 0..Limit /\ inFlight' \in BOOLEAN /\ leaked' \in BOOLEAN
           /\ replies' \in [Messages -> Nat] /\ forPeople' \subseteq Messages
  BY <1>13, Own DEF Record, Types, TypeOK, told, row, bounds, Releases
<1>14. ASSUME NEW j \in Jobs, CatchUp(j)
      PROVE  /\ chat' \in Chats /\ stored' \subseteq Messages /\ lastIn' \in BOOLEAN
           /\ used' \in 0..Limit /\ inFlight' \in BOOLEAN /\ leaked' \in BOOLEAN
           /\ replies' \in [Messages -> Nat] /\ forPeople' \subseteq Messages
  BY <1>14, Own DEF CatchUp, Types, TypeOK, told, row, bounds
<1>15. ASSUME NEW j \in Jobs, CatchUpClaims(j)
      PROVE  /\ chat' \in Chats /\ stored' \subseteq Messages /\ lastIn' \in BOOLEAN
           /\ used' \in 0..Limit /\ inFlight' \in BOOLEAN /\ leaked' \in BOOLEAN
           /\ replies' \in [Messages -> Nat] /\ forPeople' \subseteq Messages
  BY <1>15, Own DEF CatchUpClaims, Types, TypeOK, told, row, bounds
<1>16. ASSUME NEW j \in Jobs, TakeOver(j)
      PROVE  /\ chat' \in Chats /\ stored' \subseteq Messages /\ lastIn' \in BOOLEAN
           /\ used' \in 0..Limit /\ inFlight' \in BOOLEAN /\ leaked' \in BOOLEAN
           /\ replies' \in [Messages -> Nat] /\ forPeople' \subseteq Messages
  BY <1>16, Own DEF TakeOver, Types, TypeOK, told, row, bounds, Chats
<1>17. ASSUME NEW j \in Jobs, GenerateNothing(j)
      PROVE  /\ chat' \in Chats /\ stored' \subseteq Messages /\ lastIn' \in BOOLEAN
           /\ used' \in 0..Limit /\ inFlight' \in BOOLEAN /\ leaked' \in BOOLEAN
           /\ replies' \in [Messages -> Nat] /\ forPeople' \subseteq Messages
  BY <1>17, Own DEF GenerateNothing, Types, TypeOK, told, row, bounds, Releases
<1>18. ASSUME NEW j \in Jobs, Fail(j)
      PROVE  /\ chat' \in Chats /\ stored' \subseteq Messages /\ lastIn' \in BOOLEAN
           /\ used' \in 0..Limit /\ inFlight' \in BOOLEAN /\ leaked' \in BOOLEAN
           /\ replies' \in [Messages -> Nat] /\ forPeople' \subseteq Messages
  BY <1>18, Own DEF Fail, Types, TypeOK, told, row, bounds
<1>19. ASSUME NEW j \in Jobs, NEW next \in {"recording", "handingOver"}, Generate(j, next)
      PROVE  /\ chat' \in Chats /\ stored' \subseteq Messages /\ lastIn' \in BOOLEAN
           /\ used' \in 0..Limit /\ inFlight' \in BOOLEAN /\ leaked' \in BOOLEAN
           /\ replies' \in [Messages -> Nat] /\ forPeople' \subseteq Messages
  BY <1>19, Own DEF Generate, Types, TypeOK, told, row, bounds, Sends
<1>24. ASSUME NEW j \in Jobs, NEW read \in SUBSET stored, Prompt(j, read)
      PROVE  /\ chat' \in Chats /\ stored' \subseteq Messages /\ lastIn' \in BOOLEAN
           /\ used' \in 0..Limit /\ inFlight' \in BOOLEAN /\ leaked' \in BOOLEAN
           /\ replies' \in [Messages -> Nat] /\ forPeople' \subseteq Messages
  BY <1>24, PromptStep DEF Types, TypeOK
<1>20. CASE SwitchOff
  BY <1>20 DEF SwitchOff, Types, TypeOK, told, row, bounds, Chats, Request
<1>21. CASE SpendElsewhere
  BY <1>21, InboxConstants DEF SpendElsewhere, Types, TypeOK, told, row, bounds
<1>22. CASE Restart
  BY <1>22 DEF Restart, Types, TypeOK, told, row, bounds
<1>23. CASE UNCHANGED vars
  BY <1>23 DEF vars, row, told, bounds, Types, TypeOK, told, row, bounds
<1> QED
  BY <1>1, <1>2, <1>3, <1>4, <1>5, <1>6, <1>7, <1>8, <1>9, <1>10, <1>11, <1>12, <1>13,
    <1>14, <1>15, <1>16, <1>17, <1>18, <1>19, <1>20, <1>21, <1>22, <1>23, <1>24
  DEF Next, Step

\* The lock is kept.
LEMMA LockNext ==
    ASSUME Types, SoundJobs, LockHeld, [Next]_vars
    PROVE  LockHeld'
<1>1. ASSUME NEW j \in Jobs, Deliver(j)
      PROVE  LockHeld'
  <2>1. PICK x \in JobStates :
           /\ job' = [job EXCEPT ![j] = x]
           /\ x.at \in {"checking", "inserting"} /\ Sound(x, delivered')
           /\ x.at = "inserting" => x.seen = chat
    BY <1>1, Arrival
  <2>2. job'[j] = x /\ Others(j) /\ job[j].at = "idle"
    BY <1>1, <2>1, Arrival, NoJobSound DEF Types, TypeOK, Others
  <2>3. UNCHANGED <<inFlight, leaked>>
    BY <1>1, Arrival
  <2> QED
    BY <2>1, <2>2, <2>3, SameWriters DEF Writing
<1>2. ASSUME NEW j \in Jobs, DeliverWeb(j)
      PROVE  LockHeld'
  <2>1. PICK x \in JobStates :
           /\ job' = [job EXCEPT ![j] = x]
           /\ x.at \in {"checking", "inserting"} /\ Sound(x, delivered')
           /\ x.at = "inserting" => x.seen = chat
    BY <1>2, Arrival
  <2>2. job'[j] = x /\ Others(j) /\ job[j].at = "idle"
    BY <1>2, <2>1, Arrival, NoJobSound DEF Types, TypeOK, Others
  <2>3. UNCHANGED <<inFlight, leaked>>
    BY <1>2, Arrival
  <2> QED
    BY <2>1, <2>2, <2>3, SameWriters DEF Writing
<1>3. ASSUME NEW j \in Jobs, SwitchOn(j)
      PROVE  LockHeld'
  <2> DEFINE x == [NoJob EXCEPT !.kind = "catchUp", !.at = "reading"]
  <2>1. x \in JobStates /\ x.kind = "catchUp" /\ x.at = "reading" /\ Sound(x, delivered')
    BY ActSound
  <2>2. delivered' = delivered /\ job[j] = NoJob /\ job' = [job EXCEPT ![j] = x] /\ UNCHANGED <<inFlight, leaked>>
    BY <1>3 DEF SwitchOn, told, Free
  <2> HIDE DEF x
  <2>3. job'[j] = x /\ Others(j)
    BY <2>2 DEF Types, TypeOK, Others
  <2> QED
    BY <2>1, <2>2, <2>3, NoJobSound, SameWriters DEF Writing
<1>4. ASSUME NEW j \in Jobs, PersonReplies(j)
      PROVE  LockHeld'
  <2> DEFINE x == [NoJob EXCEPT !.kind = "person", !.at = "takingOver"]
  <2>1. x \in JobStates /\ x.kind = "person" /\ x.at = "takingOver" /\ Sound(x, delivered')
    BY ActSound
  <2>2. delivered' = delivered /\ job[j] = NoJob /\ job' = [job EXCEPT ![j] = x] /\ UNCHANGED <<inFlight, leaked>>
    BY <1>4 DEF PersonReplies, told, Free
  <2> HIDE DEF x
  <2>3. job'[j] = x /\ Others(j)
    BY <2>2 DEF Types, TypeOK, Others
  <2> QED
    BY <2>1, <2>2, <2>3, NoJobSound, SameWriters DEF Writing
<1>5. ASSUME NEW j \in Jobs, Check(j)
      PROVE  LockHeld'
  <2>1. Others(j) /\ job'[j].at \notin Writing
    BY <1>5, Own, NoJobSound DEF Check, Moves, Done, Points, Writing, JobStates, Types, TypeOK, Others
  <2>2. job[j].at \notin Writing /\ UNCHANGED <<inFlight, leaked>>
    BY <1>5 DEF Check, At, Writing, told
  <2> QED
    BY <2>1, <2>2, SameWriters
<1>6. ASSUME NEW j \in Jobs, Save(j)
      PROVE  LockHeld'
  <2>1. Others(j) /\ job'[j].at \notin Writing
    BY <1>6, Own, NoJobSound DEF Save, Moves, Done, Points, Writing, JobStates, Types, TypeOK, Others
  <2>2. job[j].at \notin Writing /\ UNCHANGED <<inFlight, leaked>>
    BY <1>6 DEF Save, At, Writing, told
  <2> QED
    BY <2>1, <2>2, SameWriters
<1>7. ASSUME NEW j \in Jobs, Insert(j)
      PROVE  LockHeld'
  <2>1. Others(j) /\ job'[j].at \notin Writing
    BY <1>7, Own, NoJobSound DEF Insert, Moves, Done, Points, Writing, JobStates, Types, TypeOK, Others
  <2>2. job[j].at \notin Writing /\ UNCHANGED <<inFlight, leaked>>
    BY <1>7 DEF Insert, At, Writing, told
  <2> QED
    BY <2>1, <2>2, SameWriters
<1>8. ASSUME NEW j \in Jobs, InsertWeb(j)
      PROVE  LockHeld'
  <2>1. Others(j) /\ job'[j].at \notin Writing
    BY <1>8, Own, NoJobSound DEF InsertWeb, Moves, Done, Points, Writing, JobStates, Types, TypeOK, Others
  <2>2. job[j].at \notin Writing /\ UNCHANGED <<inFlight, leaked>>
    BY <1>8 DEF InsertWeb, At, Writing, told
  <2> QED
    BY <2>1, <2>2, SameWriters
<1>9. ASSUME NEW j \in Jobs, OptOut(j)
      PROVE  LockHeld'
  BY <1>9, Own DEF OptOut, At, Writers, Writing, LockHeld, Moves, Done, Types, TypeOK,
    JobStates, told, row, bounds
<1>10. ASSUME NEW j \in Jobs, Judge(j)
      PROVE  LockHeld'
  <2>1. Others(j) /\ job[j].at = "saved" /\ UNCHANGED leaked
    BY <1>10 DEF Judge, Moves, Done, At, Types, TypeOK, Others
  <2>2. CASE Moves(j, "claimed") /\ inFlight' = TRUE /\ MayClaim
    <3>1. job'[j].at = "claimed"
      BY <2>2, Own DEF Moves, Types, TypeOK, JobStates
    <3>2. Writers = {} /\ ~leaked
      BY <2>2 DEF LockHeld, MayClaim
    <3>3. Writers' = {j}
      BY <2>1, <3>1, <3>2, Frame DEF Writing
    <3> QED
      BY <2>1, <2>2, <3>2, <3>3 DEF LockHeld
  <2>3. CASE Done(j) /\ UNCHANGED inFlight
    <3>1. job'[j].at \in {"idle", "checking"}
      BY <2>3, Own DEF Done, Types, TypeOK
    <3> QED
      BY <2>1, <2>3, <3>1, SameWriters DEF Writing
  <2> QED
    BY <1>10, <2>2, <2>3 DEF Judge
<1>11. ASSUME NEW j \in Jobs, Consume(j)
      PROVE  LockHeld'
  <2>1. Others(j) /\ job[j].at = "claimed" /\ UNCHANGED leaked
    BY <1>11, ConsumeStep
  <2>2. CASE inFlight' = FALSE /\ job'[j].at \in {"idle", "checking"}
    BY <2>1, <2>2, Frame DEF LockHeld, Writing
  <2>3. CASE UNCHANGED inFlight /\ job'[j].at = "prompting"
    BY <2>1, <2>3, SameLock DEF Writing
  <2> QED
    BY <1>11, <2>2, <2>3, ConsumeStep
<1>12. ASSUME NEW j \in Jobs, HandOver(j)
      PROVE  LockHeld'
  BY <1>12, Own DEF HandOver, At, Writers, Writing, LockHeld, Moves, Done, Types, TypeOK,
    JobStates, told, row, bounds, Releases
<1>13. ASSUME NEW j \in Jobs, Record(j)
      PROVE  LockHeld'
  BY <1>13, Own DEF Record, At, Writers, Writing, LockHeld, Moves, Done, Types, TypeOK,
    JobStates, told, row, bounds, Releases
<1>14. ASSUME NEW j \in Jobs, CatchUp(j)
      PROVE  LockHeld'
  <2>1. Others(j) /\ job'[j].at \notin Writing
    BY <1>14, Own, NoJobSound DEF CatchUp, Moves, Done, Points, Writing, JobStates, Types, TypeOK, Others
  <2>2. job[j].at \notin Writing /\ UNCHANGED <<inFlight, leaked>>
    BY <1>14 DEF CatchUp, At, Writing, told
  <2> QED
    BY <2>1, <2>2, SameWriters
<1>15. ASSUME NEW j \in Jobs, CatchUpClaims(j)
      PROVE  LockHeld'
  BY <1>15, Own DEF CatchUpClaims, At, Writers, Writing, LockHeld, Moves, Done, Types,
    TypeOK, JobStates, told, row, bounds, MayClaim
<1>16. ASSUME NEW j \in Jobs, TakeOver(j)
      PROVE  LockHeld'
  BY <1>16, Own DEF TakeOver, At, Writers, Writing, LockHeld, Moves, Done, Types, TypeOK,
    JobStates, told, row, bounds
<1>17. ASSUME NEW j \in Jobs, GenerateNothing(j)
      PROVE  LockHeld'
  BY <1>17, Own DEF GenerateNothing, At, Writers, Writing, LockHeld, Moves, Done, Types,
    TypeOK, JobStates, told, row, bounds, Releases
<1>18. ASSUME NEW j \in Jobs, Fail(j)
      PROVE  LockHeld'
  BY <1>18, Own, NoJobSound DEF Fail, At, Writers, Writing, LockHeld, Moves, Done, Types,
    TypeOK, JobStates, told, row, bounds
<1>19. ASSUME NEW j \in Jobs, NEW next \in {"recording", "handingOver"}, Generate(j, next)
      PROVE  LockHeld'
  BY <1>19, Own DEF Generate, At, Writers, Writing, LockHeld, Moves, Done, Types, TypeOK,
    JobStates, told, row, bounds
<1>24. ASSUME NEW j \in Jobs, NEW read \in SUBSET stored, Prompt(j, read)
      PROVE  LockHeld'
  <2>1. Others(j) /\ job[j].at = "prompting" /\ job'[j].at = "generating" /\ UNCHANGED <<inFlight, leaked>>
    BY <1>24, PromptStep
  <2> QED
    BY <2>1, SameLock DEF Writing
<1>20. CASE SwitchOff
  BY <1>20 DEF SwitchOff, At, Writers, Writing, LockHeld, Moves, Done, Types, TypeOK,
    JobStates, told, row, bounds
<1>21. CASE SpendElsewhere
  BY <1>21 DEF SpendElsewhere, At, Writers, Writing, LockHeld, Moves, Done, Types, TypeOK,
    JobStates, told, row, bounds
<1>22. CASE Restart
  BY <1>22, NoJobSound DEF Restart, At, Writers, Writing, LockHeld, Moves, Done, Types,
    TypeOK, JobStates, told, row, bounds
<1>23. CASE UNCHANGED vars
  BY <1>23 DEF vars, row, told, bounds, At, Writers, Writing, LockHeld, Moves, Done,
    Types, TypeOK, JobStates, told, row, bounds
<1> QED
  BY <1>1, <1>2, <1>3, <1>4, <1>5, <1>6, <1>7, <1>8, <1>9, <1>10, <1>11, <1>12, <1>13,
    <1>14, <1>15, <1>16, <1>17, <1>18, <1>19, <1>20, <1>21, <1>22, <1>23, <1>24
  DEF Next, Step

\* A step of one job leaves people's messages alone when that job does.
LEMMA LeftAloneKept ==
    ASSUME LeftAlone, NEW j \in Jobs, Others(j), UNCHANGED <<chat, replies, delivered, forPeople>>,
           At(j, {"inserting", "saved"})' /\ AiMayReply(job'[j].seen) => Msg(j)' \notin forPeople,
           At(j, Writing)' /\ job'[j].kind # "catchUp" => Msg(j)' \notin forPeople
    PROVE  LeftAlone'
<1>1. ASSUME NEW k \in Jobs
      PROVE  /\ At(k, {"inserting", "saved"})' /\ AiMayReply(job'[k].seen) => Msg(k)' \notin forPeople
             /\ At(k, Writing)' /\ job'[k].kind # "catchUp" => Msg(k)' \notin forPeople
  <2>1. CASE k # j
    <3>1. job'[k] = job[k] /\ Msg(k)' = Msg(k)
      BY <2>1 DEF Msg, Others
    <3> QED
      BY <3>1 DEF LeftAlone, At
  <2> QED
    BY <2>1
<1> QED
  BY <1>1 DEF LeftAlone

\* What is left to people is left alone.
LEMMA LeftNext ==
    ASSUME Types, SoundJobs, LeftAlone, [Next]_vars
    PROVE  LeftAlone'
<1>1. ASSUME NEW j \in Jobs, Deliver(j)
      PROVE  LeftAlone'
  <2>1. PICK x \in JobStates :
           /\ job' = [job EXCEPT ![j] = x]
           /\ x.at \in {"checking", "inserting"} /\ Sound(x, delivered')
           /\ x.at = "inserting" => x.seen = chat
    BY <1>1, Arrival
  <2>2. PICK came \in SUBSET Messages :
           forPeople' = IF AiMayReply(chat) THEN forPeople ELSE forPeople \cup (came \ delivered)
    BY <1>1, Arrival
  <2>3. UNCHANGED <<chat, replies>> /\ delivered \subseteq delivered'
    BY <1>1, Arrival DEF row
  <2>4. \A k \in Jobs : job'[k] = IF k = j THEN x ELSE job[k]
    BY <2>1 DEF Types, TypeOK
  <2>5. \A k \in Jobs : job[k].todo # <<>> => Msg(k) \in delivered
    BY Own
  <2>6. \A k \in Jobs : /\ At(k, {"inserting", "saved"}) => job[k].todo # <<>>
                        /\ At(k, Writing) /\ job[k].kind # "catchUp" => job[k].todo # <<>>
    BY Own DEF At, Sound, Before
  <2>7. forPeople' # {} => ~AiMayReply(chat')
    BY <2>2, <2>3 DEF LeftAlone
  <2>8. \A m \in forPeople' : replies'[m] = 0
    BY <2>2, <2>3 DEF LeftAlone, Types
  <2>9. ASSUME NEW k \in Jobs
        PROVE  /\ At(k, {"inserting", "saved"})' /\ AiMayReply(job'[k].seen) => Msg(k)' \notin forPeople'
               /\ At(k, Writing)' /\ job'[k].kind # "catchUp" => Msg(k)' \notin forPeople'
    <3>1. CASE k = j
      BY <3>1, <2>1, <2>2, <2>3, <2>4, <2>7 DEF At, Msg, Writing
    <3>2. CASE k # j
      <4>1. job'[k] = job[k] /\ Msg(k)' = Msg(k)
        BY <3>2, <2>4 DEF Msg
      <4> QED
        BY <4>1, <2>2, <2>5, <2>6 DEF LeftAlone, At
    <3> QED
      BY <3>1, <3>2
  <2>10. \A m \in Messages : replies'[m] > 0 => m \in delivered'
    BY <2>3 DEF LeftAlone
  <2> QED
    BY <2>7, <2>8, <2>9, <2>10 DEF LeftAlone
<1>2. ASSUME NEW j \in Jobs, DeliverWeb(j)
      PROVE  LeftAlone'
  <2>1. PICK x \in JobStates :
           /\ job' = [job EXCEPT ![j] = x]
           /\ x.at \in {"checking", "inserting"} /\ Sound(x, delivered')
           /\ x.at = "inserting" => x.seen = chat
    BY <1>2, Arrival
  <2>2. PICK came \in SUBSET Messages :
           forPeople' = IF AiMayReply(chat) THEN forPeople ELSE forPeople \cup (came \ delivered)
    BY <1>2, Arrival
  <2>3. UNCHANGED <<chat, replies>> /\ delivered \subseteq delivered'
    BY <1>2, Arrival DEF row
  <2>4. \A k \in Jobs : job'[k] = IF k = j THEN x ELSE job[k]
    BY <2>1 DEF Types, TypeOK
  <2>5. \A k \in Jobs : job[k].todo # <<>> => Msg(k) \in delivered
    BY Own
  <2>6. \A k \in Jobs : /\ At(k, {"inserting", "saved"}) => job[k].todo # <<>>
                        /\ At(k, Writing) /\ job[k].kind # "catchUp" => job[k].todo # <<>>
    BY Own DEF At, Sound, Before
  <2>7. forPeople' # {} => ~AiMayReply(chat')
    BY <2>2, <2>3 DEF LeftAlone
  <2>8. \A m \in forPeople' : replies'[m] = 0
    BY <2>2, <2>3 DEF LeftAlone, Types
  <2>9. ASSUME NEW k \in Jobs
        PROVE  /\ At(k, {"inserting", "saved"})' /\ AiMayReply(job'[k].seen) => Msg(k)' \notin forPeople'
               /\ At(k, Writing)' /\ job'[k].kind # "catchUp" => Msg(k)' \notin forPeople'
    <3>1. CASE k = j
      BY <3>1, <2>1, <2>2, <2>3, <2>4, <2>7 DEF At, Msg, Writing
    <3>2. CASE k # j
      <4>1. job'[k] = job[k] /\ Msg(k)' = Msg(k)
        BY <3>2, <2>4 DEF Msg
      <4> QED
        BY <4>1, <2>2, <2>5, <2>6 DEF LeftAlone, At
    <3> QED
      BY <3>1, <3>2
  <2>10. \A m \in Messages : replies'[m] > 0 => m \in delivered'
    BY <2>3 DEF LeftAlone
  <2> QED
    BY <2>7, <2>8, <2>9, <2>10 DEF LeftAlone
<1>3. ASSUME NEW j \in Jobs, SwitchOn(j)
      PROVE  LeftAlone'
  BY <1>3, Own, NoJobSound DEF SwitchOn, At, Writing, LeftAlone, Moves, Done, Msg, Types,
    TypeOK, JobStates, told, row, bounds, AiMayReply
<1>4. ASSUME NEW j \in Jobs, PersonReplies(j)
      PROVE  LeftAlone'
  BY <1>4, Own, NoJobSound DEF PersonReplies, At, Writing, LeftAlone, Moves, Done, Msg,
    Types, TypeOK, JobStates, told, row, bounds
<1>5. ASSUME NEW j \in Jobs, Check(j)
      PROVE  LeftAlone'
  BY <1>5, Own DEF Check, At, Writing, LeftAlone, Moves, Done, Msg, Types, TypeOK,
    JobStates, told, row, bounds
<1>6. ASSUME NEW j \in Jobs, Save(j)
      PROVE  LeftAlone'
  BY <1>6, Own DEF Save, At, Writing, LeftAlone, Moves, Done, Msg, Types, TypeOK,
    JobStates, told, row, bounds
<1>7. ASSUME NEW j \in Jobs, Insert(j)
      PROVE  LeftAlone'
  <2>1. Others(j)
    BY <1>7 DEF Insert, Moves, Done, Types, TypeOK, Others
  <2>2. job[j].at = "inserting" /\ UNCHANGED <<chat, replies, delivered, forPeople>>
    BY <1>7 DEF Insert, told, At
  <2>3. \/ job'[j].at \in {"idle", "checking"}
        \/ job'[j].at = "saved" /\ job'[j].todo = job[j].todo /\ job'[j].seen = job[j].seen
    BY <1>7, Own, NoJobSound DEF Insert, Moves, Done, JobStates, Types, TypeOK
  <2>4. /\ At(j, {"inserting", "saved"})' /\ AiMayReply(job'[j].seen) => Msg(j)' \notin forPeople
        /\ At(j, Writing)' /\ job'[j].kind # "catchUp" => Msg(j)' \notin forPeople
    BY <2>2, <2>3 DEF LeftAlone, At, Msg, Writing
  <2> QED
    BY <2>1, <2>2, <2>4, LeftAloneKept
<1>8. ASSUME NEW j \in Jobs, InsertWeb(j)
      PROVE  LeftAlone'
  <2>1. Others(j)
    BY <1>8 DEF InsertWeb, Moves, Done, Types, TypeOK, Others
  <2>2. job[j].at = "inserting" /\ UNCHANGED <<chat, replies, delivered, forPeople>>
    BY <1>8 DEF InsertWeb, told, At
  <2>3. \/ job'[j].at \in {"idle", "checking"}
        \/ job'[j].at = "saved" /\ job'[j].todo = job[j].todo /\ job'[j].seen = job[j].seen
    BY <1>8, Own, NoJobSound DEF InsertWeb, Moves, Done, JobStates, Types, TypeOK
  <2>4. /\ At(j, {"inserting", "saved"})' /\ AiMayReply(job'[j].seen) => Msg(j)' \notin forPeople
        /\ At(j, Writing)' /\ job'[j].kind # "catchUp" => Msg(j)' \notin forPeople
    BY <2>2, <2>3 DEF LeftAlone, At, Msg, Writing
  <2> QED
    BY <2>1, <2>2, <2>4, LeftAloneKept
<1>9. ASSUME NEW j \in Jobs, OptOut(j)
      PROVE  LeftAlone'
  BY <1>9, Own DEF OptOut, At, Writing, LeftAlone, Moves, Done, Msg, Types, TypeOK,
    JobStates, told, row, bounds, AiMayReply
<1>10. ASSUME NEW j \in Jobs, Judge(j)
      PROVE  LeftAlone'
  <2>1. Others(j) /\ job[j].at = "saved" /\ UNCHANGED <<chat, replies, delivered, forPeople>>
    BY <1>10 DEF Judge, Moves, Done, Others, Types, TypeOK, At, row
  <2>2. \/ job'[j].at = "claimed" /\ job'[j].todo = job[j].todo /\ AiMayReply(job[j].seen)
        \/ job'[j].at \in {"idle", "checking"}
    BY <1>10, Own DEF Judge, Moves, Done, Allowed, JobStates, Types, TypeOK
  <2>3. /\ At(j, {"inserting", "saved"})' /\ AiMayReply(job'[j].seen) => Msg(j)' \notin forPeople
        /\ At(j, Writing)' /\ job'[j].kind # "catchUp" => Msg(j)' \notin forPeople
    BY <2>1, <2>2 DEF LeftAlone, At, Msg, Writing
  <2> QED
    BY <2>1, <2>3, LeftAloneKept
<1>11. ASSUME NEW j \in Jobs, Consume(j)
      PROVE  LeftAlone'
  <2>1. Others(j) /\ job[j].at = "claimed" /\ UNCHANGED <<chat, replies, delivered, forPeople>>
    BY <1>11, ConsumeStep
  <2>2. \/ job'[j].at = "prompting" /\ job'[j].kind = job[j].kind /\ job'[j].todo = job[j].todo
        \/ job'[j].at \in {"idle", "checking"}
    BY <1>11, ConsumeStep
  <2>3. /\ At(j, {"inserting", "saved"})' /\ AiMayReply(job'[j].seen) => Msg(j)' \notin forPeople
        /\ At(j, Writing)' /\ job'[j].kind # "catchUp" => Msg(j)' \notin forPeople
    BY <2>1, <2>2 DEF LeftAlone, At, Msg, Writing
  <2> QED
    BY <2>1, <2>3, LeftAloneKept
<1>12. ASSUME NEW j \in Jobs, HandOver(j)
      PROVE  LeftAlone'
  BY <1>12, Own DEF HandOver, At, Writing, LeftAlone, Moves, Done, Msg, Types, TypeOK,
    JobStates, told, row, bounds, Releases, AiMayReply
<1>13. ASSUME NEW j \in Jobs, Record(j)
      PROVE  LeftAlone'
  <2>1. Others(j) /\ UNCHANGED <<chat, replies, delivered, forPeople>>
    BY <1>13 DEF Record, Releases, Done, Others, Types, TypeOK, told
  <2>2. job'[j].at \in {"idle", "checking"}
    BY <1>13, Own DEF Record, Releases, Done, Types, TypeOK
  <2> QED
    BY <2>1, <2>2, LeftAloneKept DEF At, Writing
<1>14. ASSUME NEW j \in Jobs, CatchUp(j)
      PROVE  LeftAlone'
  <2>1. Others(j) /\ UNCHANGED <<chat, replies, delivered, forPeople>>
    BY <1>14 DEF CatchUp, Done, Others, Types, TypeOK, row, told
  <2>2. job'[j].at \in {"claiming", "idle", "checking"}
    BY <1>14, Own DEF CatchUp, Done, Types, TypeOK, JobStates
  <2> QED
    BY <2>1, <2>2, LeftAloneKept DEF At, Writing
<1>15. ASSUME NEW j \in Jobs, CatchUpClaims(j)
      PROVE  LeftAlone'
  <2>1. Others(j)
    BY <1>15 DEF CatchUpClaims, Moves, Done, Types, TypeOK, Others
  <2>2. job[j].at = "claiming" /\ UNCHANGED <<chat, stored, replies, crossed, delivered, forPeople, leaked>>
    BY <1>15 DEF CatchUpClaims, At, row
  <2>3. job'[j].at \in {"idle", "checking"} \/ (job'[j].at = "claimed" /\ job'[j].kind = "catchUp")
    <3>1. job[j].kind = "catchUp"
      BY <2>2, Own DEF Sound
    <3> QED
      BY <1>15, <3>1, Own DEF CatchUpClaims, Moves, Done, JobStates, Types, TypeOK
  <2>4. ASSUME NEW k \in Jobs
        PROVE  /\ At(k, {"inserting", "saved"})' /\ AiMayReply(job'[k].seen) => Msg(k)' \notin forPeople
               /\ At(k, Writing)' /\ job'[k].kind # "catchUp" => Msg(k)' \notin forPeople
    <3>1. CASE k # j
      <4>1. job'[k] = job[k] /\ Msg(k)' = Msg(k)
        BY <3>1, <2>1 DEF Msg, Others
      <4> QED
        BY <4>1 DEF LeftAlone, At
    <3>2. CASE k = j
      BY <3>2, <2>2, <2>3 DEF LeftAlone, At, Msg, Writing
    <3> QED
      BY <3>1, <3>2
  <2> QED
    BY <2>2, <2>4 DEF LeftAlone
<1>16. ASSUME NEW j \in Jobs, TakeOver(j)
      PROVE  LeftAlone'
  BY <1>16, Own DEF TakeOver, At, Writing, LeftAlone, Moves, Done, Msg, Types, TypeOK,
    JobStates, told, row, bounds, AiMayReply
<1>17. ASSUME NEW j \in Jobs, GenerateNothing(j)
      PROVE  LeftAlone'
  BY <1>17, Own DEF GenerateNothing, At, Writing, LeftAlone, Moves, Done, Msg, Types,
    TypeOK, JobStates, told, row, bounds, Releases
<1>18. ASSUME NEW j \in Jobs, Fail(j)
      PROVE  LeftAlone'
  BY <1>18, Own, NoJobSound DEF Fail, At, Writing, LeftAlone, Moves, Done, Msg, Types,
    TypeOK, JobStates, told, row, bounds
<1>19. ASSUME NEW j \in Jobs, NEW next \in {"recording", "handingOver"}, Generate(j, next)
      PROVE  LeftAlone'
  BY <1>19, Own DEF Generate, At, Writing, LeftAlone, Moves, Done, Msg, Types, TypeOK,
    JobStates, told, row, bounds, Sends, Sound
<1>24. ASSUME NEW j \in Jobs, NEW read \in SUBSET stored, Prompt(j, read)
      PROVE  LeftAlone'
  <2>1. Others(j) /\ job[j].at = "prompting" /\ UNCHANGED <<chat, replies, delivered, forPeople>>
    BY <1>24, PromptStep
  <2>2. job'[j].at = "generating" /\ job'[j].kind = job[j].kind /\ job'[j].todo = job[j].todo
    BY <1>24, PromptStep
  <2>3. ASSUME NEW k \in Jobs
        PROVE  /\ At(k, {"inserting", "saved"})' /\ AiMayReply(job'[k].seen) => Msg(k)' \notin forPeople
               /\ At(k, Writing)' /\ job'[k].kind # "catchUp" => Msg(k)' \notin forPeople
    <3>1. CASE k # j
      <4>1. job'[k] = job[k] /\ Msg(k)' = Msg(k)
        BY <3>1, <2>1 DEF Msg, Others
      <4> QED
        BY <4>1 DEF LeftAlone, At
    <3>2. CASE k = j
      BY <3>2, <2>1, <2>2 DEF LeftAlone, At, Msg, Writing
    <3> QED
      BY <3>1, <3>2
  <2> QED
    BY <2>1, <2>3 DEF LeftAlone
<1>20. CASE SwitchOff
  BY <1>20 DEF SwitchOff, At, Writing, LeftAlone, Moves, Done, Msg, Types, TypeOK,
    JobStates, told, row, bounds, AiMayReply
<1>21. CASE SpendElsewhere
  BY <1>21 DEF SpendElsewhere, At, Writing, LeftAlone, Moves, Done, Msg, Types, TypeOK,
    JobStates, told, row, bounds
<1>22. CASE Restart
  BY <1>22, NoJobSound DEF Restart, At, Writing, LeftAlone, Moves, Done, Msg, Types,
    TypeOK, JobStates, told, row, bounds
<1>23. CASE UNCHANGED vars
  BY <1>23 DEF vars, row, told, bounds, At, Writing, LeftAlone, Moves, Done, Msg, Types,
    TypeOK, JobStates, told, row, bounds
<1> QED
  BY <1>1, <1>2, <1>3, <1>4, <1>5, <1>6, <1>7, <1>8, <1>9, <1>10, <1>11, <1>12, <1>13,
    <1>14, <1>15, <1>16, <1>17, <1>18, <1>19, <1>20, <1>21, <1>22, <1>23, <1>24
  DEF Next, Step

\* Messages are answered once.
LEMMA OnceNext ==
    ASSUME Types, SoundJobs, Once, [Next]_vars
    PROVE  Once'
<1>1. ASSUME NEW j \in Jobs, Deliver(j)
      PROVE  Once'
  <2>1. PICK x \in JobStates :
           /\ job' = [job EXCEPT ![j] = x]
           /\ x.at \in {"checking", "inserting"} /\ Sound(x, delivered')
           /\ x.at = "inserting" => x.seen = chat
    BY <1>1, Arrival
  <2>0. job'[j] = x /\ Others(j)
    BY <2>1 DEF Types, TypeOK, Others
  <2>2. \A m \in Messages : Pending(m)' \subseteq Pending(m)
    BY <2>0, <2>1, Frame
  <2>3. UNCHANGED <<replies, stored, crossed>>
    BY <1>1, Arrival DEF row
  <2> QED
    BY <2>2, <2>3, FewerPending
<1>2. ASSUME NEW j \in Jobs, DeliverWeb(j)
      PROVE  Once'
  <2>1. PICK x \in JobStates :
           /\ job' = [job EXCEPT ![j] = x]
           /\ x.at \in {"checking", "inserting"} /\ Sound(x, delivered')
           /\ x.at = "inserting" => x.seen = chat
    BY <1>2, Arrival
  <2>0. job'[j] = x /\ Others(j)
    BY <2>1 DEF Types, TypeOK, Others
  <2>2. \A m \in Messages : Pending(m)' \subseteq Pending(m)
    BY <2>0, <2>1, Frame
  <2>3. UNCHANGED <<replies, stored, crossed>>
    BY <1>2, Arrival DEF row
  <2> QED
    BY <2>2, <2>3, FewerPending
<1>3. ASSUME NEW j \in Jobs, SwitchOn(j)
      PROVE  Once'
  BY <1>3, Own, NoJobSound DEF SwitchOn, At, Pending, Once, Moves, Done, Msg, Types,
    TypeOK, JobStates, told, row, bounds
<1>4. ASSUME NEW j \in Jobs, PersonReplies(j)
      PROVE  Once'
  BY <1>4, Own, NoJobSound DEF PersonReplies, At, Pending, Once, Moves, Done, Msg, Types,
    TypeOK, JobStates, told, row, bounds
<1>5. ASSUME NEW j \in Jobs, Check(j)
      PROVE  Once'
  <2>1. Others(j)
    BY <1>5 DEF Check, Moves, Done, Types, TypeOK, Others
  <2>2. job[j].at = "checking" /\ UNCHANGED <<stored, replies, crossed>>
    BY <1>5 DEF Check, told, row, At
  <2>3. job'[j].at \in {"idle", "checking", "saving"}
    BY <1>5, Own DEF Check, Moves, Done, JobStates, Types, TypeOK
  <2>4. \A m \in Messages : Pending(m)' \subseteq Pending(m)
    BY <2>1, <2>2, <2>3, Frame
  <2> QED
    BY <2>2, <2>4, FewerPending
<1>6. ASSUME NEW j \in Jobs, Save(j)
      PROVE  Once'
  BY <1>6, Own DEF Save, At, Pending, Once, Moves, Done, Msg, Types, TypeOK, JobStates,
    told, row, bounds, Sound, Before
<1>7. ASSUME NEW j \in Jobs, Insert(j)
      PROVE  Once'
  <2>1. /\ job[j].at = "inserting" /\ job[j].kind \in {"meta", "web"} /\ Msg(j) \in Messages
        /\ stored' = stored \cup {Msg(j)} /\ replies' = replies /\ crossed \subseteq crossed'
    BY <1>7, Own DEF Insert, At, Sound, Before, told
  <2>2. Others(j)
    BY <1>7 DEF Insert, Moves, Done, Types, TypeOK, Others
  <2>3. CASE Msg(j) \in stored
    <3>1. job'[j].at \in {"idle", "checking"}
      BY <1>7, <2>3, Own, NoJobSound DEF Insert, Done, Types, TypeOK
    <3>2. \A m \in Messages : Pending(m)' \subseteq Pending(m)
      BY <2>2, <3>1, Frame
    <3> QED
      BY <2>1, <3>2, FewerPending
  <2>4. CASE Msg(j) \notin stored
    <3>1. job'[j].kind = job[j].kind /\ job'[j].todo = job[j].todo
      BY <1>7, <2>4, Own DEF Insert, Moves, JobStates, Types, TypeOK
    <3>2. \A m : /\ m # Msg(j) => Pending(m)' \subseteq Pending(m)
                 /\ Pending(m)' \subseteq Pending(m) \cup {j}
      BY <2>2, <3>1, Frame DEF Msg
    <3>3. crossed' = crossed
      BY <1>7, <2>4 DEF Insert, told
    <3>4. ASSUME NEW m \in Messages, m \notin crossed \/ m \in Web
          PROVE  /\ \A k, l \in Pending(m)' : k = l
                 /\ Pending(m)' # {} => m \in stored' /\ replies'[m] = 0
                 /\ replies'[m] > 0 => m \in stored' /\ replies'[m] = 1
      <4>1. CASE m = Msg(j)
        <5>1. Pending(m) = {} /\ ~(replies[m] > 0) /\ replies[m] \in Nat
          BY <3>4, <4>1, <2>4 DEF Once, Types
        <5>2. Pending(m)' \subseteq {j} /\ replies'[m] = 0 /\ m \in stored'
          BY <5>1, <4>1, <2>1, <3>2
        <5> QED
          BY <5>2
      <4>2. CASE m # Msg(j)
        BY <3>4, <4>2, <2>1, <3>2 DEF Once
      <4> QED
        BY <4>1, <4>2
    <3> QED
      BY <3>3, <3>4 DEF Once
  <2> QED
    BY <2>3, <2>4
<1>8. ASSUME NEW j \in Jobs, InsertWeb(j)
      PROVE  Once'
  <2>1. /\ job[j].at = "inserting" /\ job[j].kind \in {"meta", "web"} /\ Msg(j) \in Messages
        /\ stored' = stored \cup {Msg(j)} /\ replies' = replies /\ crossed \subseteq crossed'
    BY <1>8, Own DEF InsertWeb, At, Sound, Before, told
  <2>2. Others(j)
    BY <1>8 DEF InsertWeb, Moves, Done, Types, TypeOK, Others
  <2>3. CASE Msg(j) \in stored
    <3>1. job'[j].at \in {"idle", "checking"}
      BY <1>8, <2>3, Own, NoJobSound DEF InsertWeb, Done, Types, TypeOK
    <3>2. \A m \in Messages : Pending(m)' \subseteq Pending(m)
      BY <2>2, <3>1, Frame
    <3> QED
      BY <2>1, <3>2, FewerPending
  <2>4. CASE Msg(j) \notin stored
    <3>1. job'[j].kind = job[j].kind /\ job'[j].todo = job[j].todo
      BY <1>8, <2>4, Own DEF InsertWeb, Moves, JobStates, Types, TypeOK
    <3>2. \A m : /\ m # Msg(j) => Pending(m)' \subseteq Pending(m)
                 /\ Pending(m)' \subseteq Pending(m) \cup {j}
      BY <2>2, <3>1, Frame DEF Msg
    <3>3. crossed' = crossed
      BY <1>8, <2>4 DEF InsertWeb, told
    <3>4. ASSUME NEW m \in Messages, m \notin crossed \/ m \in Web
          PROVE  /\ \A k, l \in Pending(m)' : k = l
                 /\ Pending(m)' # {} => m \in stored' /\ replies'[m] = 0
                 /\ replies'[m] > 0 => m \in stored' /\ replies'[m] = 1
      <4>1. CASE m = Msg(j)
        <5>1. Pending(m) = {} /\ ~(replies[m] > 0) /\ replies[m] \in Nat
          BY <3>4, <4>1, <2>4 DEF Once, Types
        <5>2. Pending(m)' \subseteq {j} /\ replies'[m] = 0 /\ m \in stored'
          BY <5>1, <4>1, <2>1, <3>2
        <5> QED
          BY <5>2
      <4>2. CASE m # Msg(j)
        BY <3>4, <4>2, <2>1, <3>2 DEF Once
      <4> QED
        BY <4>1, <4>2
    <3> QED
      BY <3>3, <3>4 DEF Once
  <2> QED
    BY <2>3, <2>4
<1>9. ASSUME NEW j \in Jobs, OptOut(j)
      PROVE  Once'
  BY <1>9, Own DEF OptOut, At, Pending, Once, Moves, Done, Msg, Types, TypeOK, JobStates,
    told, row, bounds
<1>10. ASSUME NEW j \in Jobs, Judge(j)
      PROVE  Once'
  <2>1. Others(j)
    BY <1>10 DEF Judge, Moves, Done, Types, TypeOK, Others
  <2>2. job[j].at = "saved" /\ UNCHANGED <<stored, replies, crossed>>
    BY <1>10 DEF Judge, row, At
  <2>3. \/ job'[j].at \in {"idle", "checking"}
        \/ job'[j].at = "claimed" /\ job'[j].kind = job[j].kind /\ job'[j].todo = job[j].todo
    BY <1>10, Own DEF Judge, Moves, Done, JobStates, Types, TypeOK
  <2>4. \A m \in Messages : Pending(m)' \subseteq Pending(m)
    BY <2>1, <2>2, <2>3, Frame
  <2> QED
    BY <2>2, <2>4, FewerPending
<1>11. ASSUME NEW j \in Jobs, Consume(j)
      PROVE  Once'
  <2>1. /\ Others(j) /\ job[j].at = "claimed" /\ UNCHANGED <<stored, replies, crossed>>
        /\ \/ job'[j].at = "prompting" /\ job'[j].kind = job[j].kind /\ job'[j].todo = job[j].todo
           \/ job'[j].at \in {"idle", "checking"}
    BY <1>11, ConsumeStep
  <2>2. \A m \in Messages : Pending(m)' \subseteq Pending(m)
    BY <2>1, Frame
  <2> QED
    BY <2>1, <2>2, FewerPending
<1>12. ASSUME NEW j \in Jobs, HandOver(j)
      PROVE  Once'
  BY <1>12, Own DEF HandOver, At, Pending, Once, Moves, Done, Msg, Types, TypeOK,
    JobStates, told, row, bounds, Releases
<1>13. ASSUME NEW j \in Jobs, Record(j)
      PROVE  Once'
  BY <1>13, Own DEF Record, At, Pending, Once, Moves, Done, Msg, Types, TypeOK, JobStates,
    told, row, bounds, Releases
<1>14. ASSUME NEW j \in Jobs, CatchUp(j)
      PROVE  Once'
  <2>1. Others(j)
    BY <1>14 DEF CatchUp, Done, Types, TypeOK, Others
  <2>2. job[j].at = "reading" /\ UNCHANGED <<stored, replies, crossed>>
    BY <1>14 DEF CatchUp, told, row, At
  <2>3. job'[j].at \in {"idle", "checking", "claiming"}
    BY <1>14, Own DEF CatchUp, Done, JobStates, Types, TypeOK
  <2>4. \A m \in Messages : Pending(m)' \subseteq Pending(m)
    BY <2>1, <2>2, <2>3, Frame
  <2> QED
    BY <2>2, <2>4, FewerPending
<1>15. ASSUME NEW j \in Jobs, CatchUpClaims(j)
      PROVE  Once'
  <2>1. Others(j)
    BY <1>15 DEF CatchUpClaims, Moves, Done, Types, TypeOK, Others
  <2>2. job[j].at = "claiming" /\ UNCHANGED <<chat, stored, replies, crossed, delivered, forPeople, leaked>>
    BY <1>15 DEF CatchUpClaims, At, row
  <2>3. job'[j].at \in {"idle", "checking"} \/ (job'[j].at = "claimed" /\ job'[j].kind = "catchUp")
    <3>1. job[j].kind = "catchUp"
      BY <2>2, Own DEF Sound
    <3> QED
      BY <1>15, <3>1, Own DEF CatchUpClaims, Moves, Done, JobStates, Types, TypeOK
  <2>4. \A m \in Messages : Pending(m)' \subseteq Pending(m)
    BY <2>1, <2>2, <2>3, Frame
  <2> QED
    BY <2>2, <2>4, FewerPending
<1>16. ASSUME NEW j \in Jobs, TakeOver(j)
      PROVE  Once'
  BY <1>16, Own DEF TakeOver, At, Pending, Once, Moves, Done, Msg, Types, TypeOK,
    JobStates, told, row, bounds
<1>17. ASSUME NEW j \in Jobs, GenerateNothing(j)
      PROVE  Once'
  BY <1>17, Own DEF GenerateNothing, At, Pending, Once, Moves, Done, Msg, Types, TypeOK,
    JobStates, told, row, bounds, Releases
<1>18. ASSUME NEW j \in Jobs, Fail(j)
      PROVE  Once'
  BY <1>18, Own, NoJobSound DEF Fail, At, Pending, Once, Moves, Done, Msg, Types, TypeOK,
    JobStates, told, row, bounds
<1>19. ASSUME NEW j \in Jobs, NEW next \in {"recording", "handingOver"}, Generate(j, next)
      PROVE  Once'
  BY <1>19, Own DEF Generate, At, Pending, Once, Moves, Done, Msg, Types, TypeOK,
    JobStates, told, row, bounds, Sends, Sound, Writing
<1>24. ASSUME NEW j \in Jobs, NEW read \in SUBSET stored, Prompt(j, read)
      PROVE  Once'
  <2>1. /\ Others(j) /\ job[j].at = "prompting" /\ UNCHANGED <<stored, replies, crossed>>
        /\ job'[j].at = "generating" /\ job'[j].kind = job[j].kind /\ job'[j].todo = job[j].todo
    BY <1>24, PromptStep
  <2>2. \A m \in Messages : Pending(m)' \subseteq Pending(m)
    BY <2>1, Frame
  <2> QED
    BY <2>1, <2>2, FewerPending
<1>20. CASE SwitchOff
  BY <1>20 DEF SwitchOff, At, Pending, Once, Moves, Done, Msg, Types, TypeOK, JobStates,
    told, row, bounds
<1>21. CASE SpendElsewhere
  BY <1>21 DEF SpendElsewhere, At, Pending, Once, Moves, Done, Msg, Types, TypeOK,
    JobStates, told, row, bounds
<1>22. CASE Restart
  BY <1>22, NoJobSound DEF Restart, At, Pending, Once, Moves, Done, Msg, Types, TypeOK,
    JobStates, told, row, bounds
<1>23. CASE UNCHANGED vars
  BY <1>23 DEF vars, row, told, bounds, At, Pending, Once, Moves, Done, Msg, Types,
    TypeOK, JobStates, told, row, bounds
<1> QED
  BY <1>1, <1>2, <1>3, <1>4, <1>5, <1>6, <1>7, <1>8, <1>9, <1>10, <1>11, <1>12, <1>13,
    <1>14, <1>15, <1>16, <1>17, <1>18, <1>19, <1>20, <1>21, <1>22, <1>23, <1>24
  DEF Next, Step

----------------------------------------------------------------------------
(* Nothing is lost, and the burst is answered *)

\* A job past saveMessage has its message stored; one without a message of its own
\* carries none.
Kept(b, known) ==
    /\ b.at \in {"saved"} \cup Writing /\ b.todo # <<>> => Head(b.todo) \in known
    /\ b.at \in {"reading", "claiming", "takingOver"} => b.todo = <<>>
JobsKept == \A j \in Jobs : Kept(job[j], stored)

\* What was delivered is stored, cut short, or still in the hands of a job.
Carried ==
    crossed = {} =>
        \A m \in delivered : m \in stored \cup cut \/ \E j \in Jobs : m \in Of(job[j].todo)

\* What was left to the writer is stored before it reads the history, then in what
\* its reply covers, then covered, unless the history could not be read.
Burst ==
    /\ joined \subseteq stored
    /\ \A w \in Jobs : job[w].at = "generating" => joined \subseteq job[w].covers \cup unread
    /\ \A w \in Jobs : job[w].at \in {"recording", "handingOver"} => joined \subseteq covered \cup unread
    /\ Writers = {} => joined \subseteq covered \cup unread

BurstInv == JobsKept /\ Carried /\ Burst

\* The rest of a batch is the batch without its first message.
LEMMA RestKeeps ==
    ASSUME NEW b \in JobStates
    PROVE  /\ Of(b.todo) \subseteq Of(Rest(b).todo) \cup {Head(b.todo)}
           /\ b.todo = <<>> => Of(b.todo) = {}
           /\ Rest(b).at \in {"idle", "checking"}
<1>1. b.todo \in Batches /\ b.kind \in Kinds
  BY DEF JobStates
<1>2. CASE b.todo = <<>>
  BY <1>2, NoJobSound DEF Of, Rest
<1>3. ASSUME NEW m \in Messages, b.todo = <<m>>
      PROVE  Of(b.todo) = {Head(b.todo)} /\ Len(b.todo) = 1 /\ b.todo # <<>>
  <2>1. DOMAIN b.todo = {1} /\ b.todo[1] = m /\ Head(b.todo) = m /\ Len(b.todo) = 1
    BY <1>3
  <2> QED
    BY <2>1, <1>3 DEF Of
<1>4. ASSUME NEW m \in Messages, NEW n \in Messages, b.todo = <<m, n>>
      PROVE  /\ Of(b.todo) \subseteq Of(Tail(b.todo)) \cup {Head(b.todo)}
             /\ Len(b.todo) = 2 /\ b.todo # <<>>
  <2>1. DOMAIN b.todo = {1, 2} /\ b.todo[1] = m /\ b.todo[2] = n /\ Head(b.todo) = m
        /\ Tail(b.todo) = <<n>> /\ Len(b.todo) = 2
    BY <1>4
  <2>2. DOMAIN Tail(b.todo) = {1} /\ Tail(b.todo)[1] = n
    BY <2>1
  <2> QED
    BY <2>1, <2>2, <1>4 DEF Of
<1>5. CASE Len(b.todo) < 2
  <2>1. Rest(b) = NoJob
    BY <1>5 DEF Rest
  <2> QED
    BY <1>1, <1>2, <1>3, <1>4, <1>5, <2>1, NoJobSound DEF Batches
<1>6. CASE ~(Len(b.todo) < 2)
  <2>1. Rest(b) = [NoJob EXCEPT !.kind = b.kind, !.at = "checking", !.todo = Tail(b.todo)]
    BY <1>6 DEF Rest
  <2>2. Rest(b).todo = Tail(b.todo) /\ Rest(b).at = "checking"
    BY <2>1 DEF NoJob
  <2>3. Len(<<>>) < 2
    OBVIOUS
  <2>5. \/ b.todo = <<>>
        \/ \E m \in Messages : b.todo = <<m>>
        \/ \E m \in Messages, n \in Messages : b.todo = <<m, n>>
    BY <1>1 DEF Batches
  <2>4. \E m \in Messages, n \in Messages : b.todo = <<m, n>>
    <3>1. CASE b.todo = <<>>
      BY <1>6, <2>3, <3>1
    <3>2. CASE \E m \in Messages : b.todo = <<m>>
      <4>1. Len(b.todo) = 1
        BY <1>3, <3>2
      <4> QED
        BY <1>6, <4>1
    <3> QED
      BY <2>5, <3>1, <3>2
  <2> QED
    BY <1>4, <2>2, <2>4
<1> QED
  BY <1>5, <1>6

\* A step of one job that drops no message but a stored or cut one.
LEMMA OneCarries ==
    ASSUME JobsKept, Carried, NEW j \in Jobs, Others(j), delivered' = delivered,
           stored \subseteq stored', cut \subseteq cut', crossed \subseteq crossed',
           Kept(job'[j], stored'),
           crossed' # {} \/ Of(job[j].todo) \subseteq Of(job'[j].todo) \cup stored' \cup cut'
    PROVE  JobsKept' /\ Carried'
<1>1. JobsKept'
  BY DEF JobsKept, Kept, Others
<1>2. Carried'
  <2> SUFFICES ASSUME crossed' = {}, NEW m \in delivered,
                      m \notin stored' \cup cut'
               PROVE  \E k \in Jobs : m \in Of(job'[k].todo)
    BY DEF Carried
  <2>1. PICK k \in Jobs : m \in Of(job[k].todo)
    BY DEF Carried
  <2> QED
    BY <2>1 DEF Others
<1> QED
  BY <1>1, <1>2

\* A job that is done with a stored message drops no other.
LEMMA DoneCarries ==
    ASSUME Types, SoundJobs, JobsKept, Carried, NEW j \in Jobs,
           job' = [job EXCEPT ![j] = Rest(job[j])], delivered' = delivered,
           stored \subseteq stored', cut \subseteq cut', crossed \subseteq crossed',
           job[j].todo # <<>> => Head(job[j].todo) \in stored'
    PROVE  JobsKept' /\ Carried'
<1>1. Others(j) /\ job'[j] = Rest(job[j])
  BY DEF Others, Types, TypeOK
<1>2. Of(job[j].todo) \subseteq Of(job'[j].todo) \cup stored' /\ job'[j].at \in {"idle", "checking"}
  BY <1>1, Own, RestKeeps
<1>3. Kept(job'[j], stored')
  BY <1>2 DEF Kept, Writing
<1> QED
  BY <1>1, <1>2, <1>3, OneCarries

\* A job that goes on carries what it carried.
LEMMA MoveCarries ==
    ASSUME Types, JobsKept, Carried, NEW j \in Jobs, Others(j), job'[j].todo = job[j].todo,
           delivered' = delivered, stored \subseteq stored', cut \subseteq cut',
           crossed \subseteq crossed', Kept(job'[j], stored')
    PROVE  JobsKept' /\ Carried'
BY OneCarries

\* A free slot takes what is delivered.
LEMMA ArrivalCarries ==
    ASSUME Types, NEW j \in Jobs, NEW kind, NEW todo, NEW at, NEW seen,
           Starts(j, kind, todo, at, seen)
    PROVE  /\ Others(j) /\ job[j] = NoJob /\ job'[j].todo = todo /\ job'[j].at = at
           /\ delivered' = delivered \cup Of(todo)
           /\ UNCHANGED <<stored, cut, crossed, joined, covered, unread>>
<1>1. job' = [job EXCEPT ![j] = [NoJob EXCEPT !.kind = kind, !.todo = todo, !.at = at, !.seen = seen]]
  BY DEF Starts
<1>2. job'[j] = [NoJob EXCEPT !.kind = kind, !.todo = todo, !.at = at, !.seen = seen] /\ Others(j)
  BY <1>1 DEF Others, Types, TypeOK
<1>3. job'[j].todo = todo /\ job'[j].at = at
  BY <1>2 DEF NoJob
<1> QED
  BY <1>2, <1>3 DEF Starts, Free, Of, row

\* No message is dropped before it is stored.
LEMMA CarriedNext ==
    ASSUME Types, SoundJobs, JobsKept, Carried, [Next]_vars
    PROVE  JobsKept' /\ Carried'
<1> USE DEF At, Msg
<1>0. job \in [Jobs -> JobStates] /\ \A j \in Jobs : Kept(job[j], stored)
  BY DEF Types, TypeOK, JobStates, JobsKept
<1>1. ASSUME NEW j \in Jobs, Deliver(j) \/ DeliverWeb(j)
      PROVE  JobsKept' /\ Carried'
  <2>1. PICK kind, todo, at, seen : Starts(j, kind, todo, at, seen) /\ at \in {"checking", "inserting"}
    BY <1>1 DEF Deliver, DeliverWeb
  <2>2. /\ Others(j) /\ job[j] = NoJob /\ job'[j].todo = todo /\ job'[j].at = at
        /\ delivered' = delivered \cup Of(todo) /\ UNCHANGED <<stored, cut, crossed>>
    BY <2>1, ArrivalCarries
  <2>3. JobsKept'
    BY <1>0, <2>1, <2>2 DEF JobsKept, Kept, Others, Writing
  <2>4. Of(job[j].todo) = {}
    BY <2>2, NoJobSound DEF Of
  <2>5. Carried'
    BY <2>2, <2>4 DEF Carried, Others
  <2> QED
    BY <2>3, <2>5
<1>2. ASSUME NEW j \in Jobs, SwitchOn(j) \/ PersonReplies(j)
      PROVE  JobsKept' /\ Carried'
  <2>1. PICK x : /\ job' = [job EXCEPT ![j] = x] /\ x.todo = <<>>
                 /\ x.at \in {"reading", "takingOver"} /\ job[j] = NoJob
                 /\ UNCHANGED <<delivered, stored, cut, crossed>>
    <3> DEFINE c == [NoJob EXCEPT !.kind = "catchUp", !.at = "reading"]
               p == [NoJob EXCEPT !.kind = "person", !.at = "takingOver"]
    <3>1. c.todo = <<>> /\ c.at = "reading" /\ p.todo = <<>> /\ p.at = "takingOver"
      BY DEF NoJob
    <3>2. job[j] = NoJob /\ UNCHANGED <<delivered, stored, cut, crossed>>
      BY <1>2 DEF SwitchOn, PersonReplies, Free, told
    <3>3. job' = [job EXCEPT ![j] = c] \/ job' = [job EXCEPT ![j] = p]
      BY <1>2 DEF SwitchOn, PersonReplies
    <3> HIDE DEF c, p
    <3> QED
      BY <3>1, <3>2, <3>3
  <2>2. Others(j) /\ job'[j] = x /\ job[j].todo = <<>>
    BY <1>0, <2>1, NoJobSound DEF Others
  <2> QED
    BY <2>1, <2>2, MoveCarries DEF Kept, Writing
<1>3. ASSUME NEW j \in Jobs, Check(j)
      PROVE  JobsKept' /\ Carried'
  <2>1. CASE Msg(j) \in stored
    BY <1>3, <2>1, DoneCarries DEF Check, Done, row, told
  <2>2. CASE Msg(j) \notin stored
    <3>1. job'[j] = [job[j] EXCEPT !.at = "saving"] /\ Others(j)
      BY <1>0, <1>3, <2>2 DEF Check, Moves, Others
    <3>2. job'[j].todo = job[j].todo /\ job'[j].at = "saving"
      BY <1>0, <3>1 DEF JobStates
    <3> QED
      BY <1>3, <3>1, <3>2, MoveCarries DEF Check, Kept, Writing, row, told
  <2> QED
    BY <2>1, <2>2
<1>4. ASSUME NEW j \in Jobs, Save(j)
      PROVE  JobsKept' /\ Carried'
  <2> DEFINE to == IF Msg(j) \in stored THEN "saved" ELSE "inserting"
  <2>1. job' = [job EXCEPT ![j] = [job[j] EXCEPT !.at = to, !.seen = chat]]
    BY <1>0, <1>4 DEF Save
  <2>2. job'[j] = [job[j] EXCEPT !.at = to, !.seen = chat] /\ Others(j)
    BY <1>0, <2>1 DEF Others
  <2>3. job'[j].todo = job[j].todo /\ job'[j].at = to
    BY <1>0, <2>2 DEF JobStates
  <2>4. Kept(job'[j], stored)
    BY <2>3 DEF Kept, Writing
  <2> QED
    BY <1>4, <2>2, <2>3, <2>4, MoveCarries DEF Save, row
<1>5. ASSUME NEW j \in Jobs, Insert(j)
      PROVE  JobsKept' /\ Carried'
  <2>1. CASE Msg(j) \in stored
    <3>1. job'[j] = NoJob /\ Others(j) /\ crossed' # {} /\ crossed \subseteq crossed'
      BY <1>0, <1>5, <2>1 DEF Insert, Others
    <3> QED
      BY <1>5, <3>1, OneCarries, NoJobSound DEF Insert, Kept, Writing
  <2>2. CASE Msg(j) \notin stored
    <3>1. job'[j] = [job[j] EXCEPT !.at = "saved"] /\ Others(j)
      BY <1>0, <1>5, <2>2 DEF Insert, Moves, Others
    <3>2. job'[j].todo = job[j].todo /\ job'[j].at = "saved"
      BY <1>0, <3>1 DEF JobStates
    <3>3. Kept(job'[j], stored')
      BY <1>5, <3>2 DEF Insert, Kept
    <3> QED
      BY <1>5, <2>2, <3>1, <3>2, <3>3, MoveCarries DEF Insert
  <2> QED
    BY <2>1, <2>2
<1>6. ASSUME NEW j \in Jobs, InsertWeb(j)
      PROVE  JobsKept' /\ Carried'
  <2>1. CASE Msg(j) \in stored
    BY <1>6, <2>1, DoneCarries DEF InsertWeb, Done, told
  <2>2. CASE Msg(j) \notin stored
    <3>1. job'[j] = [job[j] EXCEPT !.at = "saved"] /\ Others(j)
      BY <1>0, <1>6, <2>2 DEF InsertWeb, Moves, Others
    <3>2. job'[j].todo = job[j].todo /\ job'[j].at = "saved"
      BY <1>0, <3>1 DEF JobStates
    <3>3. Kept(job'[j], stored')
      BY <1>6, <3>2 DEF InsertWeb, Kept
    <3> QED
      BY <1>6, <3>1, <3>2, <3>3, MoveCarries DEF InsertWeb, told
  <2> QED
    BY <2>1, <2>2
<1>7. ASSUME NEW j \in Jobs,
             \/ OptOut(j) \/ HandOver(j) \/ Record(j) \/ TakeOver(j) \/ GenerateNothing(j)
             \/ (Judge(j) \/ CatchUp(j) \/ CatchUpClaims(j) \/ Consume(j)) /\ Done(j)
      PROVE  JobsKept' /\ Carried'
  <2>1. job' = [job EXCEPT ![j] = Rest(job[j])] /\ UNCHANGED <<delivered, stored, cut, crossed>>
    BY <1>7 DEF OptOut, HandOver, Record, TakeOver, GenerateNothing, Judge, CatchUp, CatchUpClaims,
                Consume, Releases, Done, told, row
  <2>2. job[j].at \in {"saved", "reading", "claiming", "takingOver"} \cup Writing
    BY <1>7 DEF OptOut, HandOver, Record, TakeOver, GenerateNothing, Judge, CatchUp, CatchUpClaims,
                Consume, Writing
  <2> QED
    BY <1>0, <2>1, <2>2, DoneCarries DEF Kept
<1>8. ASSUME NEW j \in Jobs, NEW x \in JobStates, job' = [job EXCEPT ![j] = x],
             x.todo = job[j].todo, x.at \in {"claiming"} \cup Writing,
             \/ job[j].at \in {"saved"} \cup Writing /\ x.at # "claiming"
             \/ job[j].at \in {"reading", "claiming"},
             UNCHANGED <<delivered, stored, cut, crossed>>
      PROVE  JobsKept' /\ Carried'
  <2>1. job'[j] = x /\ Others(j)
    BY <1>0, <1>8 DEF Others
  <2>2. Kept(x, stored)
    BY <1>0, <1>8 DEF Kept, Writing
  <2> QED
    BY <1>8, <2>1, <2>2, MoveCarries
<1>9. ASSUME NEW j \in Jobs, Judge(j)
      PROVE  JobsKept' /\ Carried'
  <2>1. CASE Moves(j, "claimed")
    <3>1. job' = [job EXCEPT ![j] = [job[j] EXCEPT !.at = "claimed"]]
      BY <1>0, <2>1 DEF Moves
    <3>2. [job[j] EXCEPT !.at = "claimed"] \in JobStates
      BY <1>0 DEF JobStates, Points
    <3> QED
      BY <1>0, <1>8, <1>9, <3>1, <3>2 DEF Judge, row, JobStates, Writing
  <2> QED
    BY <1>7, <1>9, <2>1 DEF Judge
<1>10. ASSUME NEW j \in Jobs, Consume(j)
      PROVE  JobsKept' /\ Carried'
  <2>1. CASE Done(j)
    BY <1>7, <1>10, <2>1
  <2>2. CASE ~Done(j)
    <3> DEFINE x == [job[j] EXCEPT !.at = "prompting"]
    <3>1. job' = [job EXCEPT ![j] = x] /\ job[j].at = "claimed" /\ UNCHANGED <<delivered, stored, cut, crossed>>
      BY <1>10, <2>2, ConsumeStep
    <3>2. x \in JobStates /\ x.at = "prompting" /\ x.todo = job[j].todo
      BY <1>0 DEF JobStates, Points
    <3> HIDE DEF x
    <3> QED
      BY <1>8, <3>1, <3>2 DEF Writing
  <2> QED
    BY <2>1, <2>2
<1>17. ASSUME NEW j \in Jobs, NEW read \in SUBSET stored, Prompt(j, read)
      PROVE  JobsKept' /\ Carried'
  <2>1. /\ job' = [job EXCEPT ![j] = job'[j]] /\ job'[j] \in JobStates
        /\ job'[j].at = "generating" /\ job'[j].todo = job[j].todo /\ job[j].at = "prompting"
        /\ UNCHANGED <<delivered, stored, cut, crossed>>
    BY <1>17, PromptStep
  <2> QED
    BY <1>8, <2>1 DEF Writing
<1>11. ASSUME NEW j \in Jobs, NEW next \in {"recording", "handingOver"}, Generate(j, next)
      PROVE  JobsKept' /\ Carried'
  <2>1. job' = [job EXCEPT ![j] = [job[j] EXCEPT !.at = next]]
    BY <1>0, <1>11 DEF Generate, Moves
  <2>2. [job[j] EXCEPT !.at = next] \in JobStates
    BY <1>0 DEF JobStates, Points
  <2>3. job[j].at \in Writing /\ UNCHANGED <<delivered, stored, cut, crossed>>
    BY <1>11 DEF Generate, row, Writing
  <2> QED
    BY <1>0, <1>8, <2>1, <2>2, <2>3 DEF JobStates, Writing
<1>12. ASSUME NEW j \in Jobs, CatchUp(j)
      PROVE  JobsKept' /\ Carried'
  <2> DEFINE x == [job[j] EXCEPT !.at = "claiming", !.seen = chat]
  <2>1. CASE job' = [job EXCEPT ![j].at = "claiming", ![j].seen = chat]
    <3>1. job' = [job EXCEPT ![j] = x]
      BY <1>0, <2>1
    <3>2. x \in JobStates /\ x.at = "claiming" /\ x.todo = job[j].todo
      BY <1>0 DEF JobStates, Points, Types, TypeOK
    <3>3. job[j].at = "reading" /\ UNCHANGED <<delivered, stored, cut, crossed>>
      BY <1>12 DEF CatchUp, row, told
    <3> HIDE DEF x
    <3> QED
      BY <1>8, <3>1, <3>2, <3>3
  <2> QED
    BY <1>7, <1>12, <2>1 DEF CatchUp
<1>13. ASSUME NEW j \in Jobs, CatchUpClaims(j)
      PROVE  JobsKept' /\ Carried'
  <2>1. CASE Moves(j, "claimed")
    <3>1. job' = [job EXCEPT ![j] = [job[j] EXCEPT !.at = "claimed"]]
      BY <1>0, <2>1 DEF Moves
    <3>2. [job[j] EXCEPT !.at = "claimed"] \in JobStates
      BY <1>0 DEF JobStates, Points
    <3> QED
      BY <1>0, <1>8, <1>13, <3>1, <3>2 DEF CatchUpClaims, row, JobStates, Writing
  <2> QED
    BY <1>7, <1>13, <2>1 DEF CatchUpClaims
<1>14. ASSUME NEW j \in Jobs, Fail(j)
      PROVE  JobsKept' /\ Carried'
  <2> DEFINE out == ~At(j, Writing) /\ ~(At(j, {"saved"}) /\ Msg(j) \notin Stops)
  <2>1. CASE out
    <3>1. job'[j] = NoJob /\ Others(j)
      BY <1>0, <1>14, <2>1 DEF Fail, Others
    <3>2. cut' = cut \cup Of(job[j].todo) /\ UNCHANGED <<delivered, stored, crossed>>
      BY <1>14, <2>1 DEF Fail, Of, row
    <3> QED
      BY <3>1, <3>2, OneCarries, NoJobSound DEF Kept, Writing
  <2>2. CASE ~out
    <3>1. job' = [job EXCEPT ![j] = Rest(job[j])] /\ UNCHANGED <<delivered, stored, cut, crossed>>
      BY <1>14, <2>2 DEF Fail, row
    <3>2. job[j].at \in {"saved"} \cup Writing
      BY <2>2
    <3> QED
      BY <1>0, <3>1, <3>2, DoneCarries DEF Kept
  <2> QED
    BY <2>1, <2>2
<1>15. CASE Restart
  BY <1>15, NoJobSound DEF Restart, JobsKept, Carried, Kept, Writing, row
<1>16. CASE SwitchOff \/ SpendElsewhere \/ UNCHANGED vars
  <2>1. UNCHANGED <<job, stored, delivered, cut, crossed>>
    BY <1>16 DEF SwitchOff, SpendElsewhere, vars, row, told
  <2> QED
    BY <2>1 DEF JobsKept, Carried
<1> QED
  BY <1>1, <1>2, <1>3, <1>4, <1>5, <1>6, <1>7, <1>9, <1>10, <1>11, <1>12, <1>13, <1>14, <1>15, <1>16,
     <1>17
  DEF Next, Step

\* Nothing left to anybody.
LEMMA BurstOver == ASSUME joined' = {} PROVE Burst'
BY DEF Burst

\* A step of a job that neither writes nor begins to.
LEMMA BurstQuiet ==
    ASSUME Burst, NEW j \in Jobs, Others(j), job[j].at \notin Writing, job'[j].at \notin Writing,
           stored \subseteq stored', UNCHANGED <<joined, covered, unread>>
    PROVE  Burst'
<1>1. Writers' = Writers
  <2>1. Writers' \ {j} = Writers \ {j} /\ j \notin Writers /\ j \notin Writers'
    BY Frame
  <2> QED
    BY <2>1
<1>2. "generating" \in Writing /\ "recording" \in Writing /\ "handingOver" \in Writing
  BY DEF Writing
<1> QED
  BY <1>1, <1>2 DEF Burst, Others

\* The burst stays in sight of the job that answers it.
LEMMA BurstNext ==
    ASSUME Types, SoundJobs, LockHeld, JobsKept, Burst, [Next]_vars
    PROVE  Burst'
<1> USE DEF At, Msg
<1>0. job \in [Jobs -> JobStates] /\ stored \subseteq Messages
  BY DEF Types, TypeOK, JobStates
<1>1. ASSUME NEW j \in Jobs, Deliver(j) \/ DeliverWeb(j)
      PROVE  Burst'
  <2>1. PICK kind, todo, at, seen : Starts(j, kind, todo, at, seen) /\ at \in {"checking", "inserting"}
    BY <1>1 DEF Deliver, DeliverWeb
  <2> QED
    BY <2>1, ArrivalCarries, NoJobSound, BurstQuiet DEF Writing
<1>2. ASSUME NEW j \in Jobs, SwitchOn(j) \/ PersonReplies(j)
      PROVE  Burst'
  <2> DEFINE c == [NoJob EXCEPT !.kind = "catchUp", !.at = "reading"]
             p == [NoJob EXCEPT !.kind = "person", !.at = "takingOver"]
  <2>1. c.at = "reading" /\ p.at = "takingOver"
    BY DEF NoJob
  <2>2. job[j] = NoJob /\ UNCHANGED <<stored, joined, covered, unread>>
    BY <1>2 DEF SwitchOn, PersonReplies, Free, told
  <2>3. job' = [job EXCEPT ![j] = c] \/ job' = [job EXCEPT ![j] = p]
    BY <1>2 DEF SwitchOn, PersonReplies
  <2> HIDE DEF c, p
  <2>4. Others(j) /\ job'[j].at \in {"reading", "takingOver"}
    BY <1>0, <2>1, <2>3 DEF Others
  <2> QED
    BY <2>2, <2>4, NoJobSound, BurstQuiet DEF Writing
<1>3. ASSUME NEW j \in Jobs,
             \/ Check(j) \/ Save(j) \/ Insert(j) \/ InsertWeb(j) \/ OptOut(j)
             \/ CatchUp(j) \/ TakeOver(j)
      PROVE  Burst'
  <2>1. Others(j)
    BY <1>0, <1>3 DEF Check, Save, Insert, InsertWeb, OptOut, CatchUp, TakeOver, Moves, Done, Others
  <2>2. /\ job[j].at \notin Writing /\ stored \subseteq stored' /\ UNCHANGED <<joined, covered, unread>>
    BY <1>3 DEF Check, Save, Insert, InsertWeb, OptOut, CatchUp, TakeOver, Writing, row, told
  <2>3. job'[j].at \in {"idle", "checking", "saving", "saved", "inserting", "claiming"}
    <3>1. CASE job'[j] = NoJob \/ job'[j] = Rest(job[j])
      BY <1>0, <3>1, NoJobSound, RestKeeps
    <3>2. CASE \/ job' = [job EXCEPT ![j].at = "saving"] \/ job' = [job EXCEPT ![j].at = "saved"]
               \/ job' = [job EXCEPT ![j].at = "saved", ![j].seen = chat]
               \/ job' = [job EXCEPT ![j].at = "inserting", ![j].seen = chat]
               \/ job' = [job EXCEPT ![j].at = "claiming", ![j].seen = chat]
      BY <1>0, <3>2 DEF JobStates
    <3>3. CASE Check(j)
      BY <1>0, <3>1, <3>2, <3>3 DEF Check, Moves, Done
    <3>4. CASE Save(j)
      BY <1>0, <3>1, <3>2, <3>4 DEF Save
    <3>5. CASE Insert(j)
      BY <1>0, <3>1, <3>2, <3>5 DEF Insert, Moves
    <3>6. CASE InsertWeb(j)
      BY <1>0, <3>1, <3>2, <3>6 DEF InsertWeb, Moves, Done
    <3>7. CASE OptOut(j) \/ TakeOver(j)
      BY <1>0, <3>1, <3>7 DEF OptOut, TakeOver, Done
    <3>8. CASE CatchUp(j)
      BY <1>0, <3>1, <3>2, <3>8 DEF CatchUp, Done
    <3> QED
      BY <1>3, <3>3, <3>4, <3>5, <3>6, <3>7, <3>8
  <2> QED
    BY <2>1, <2>2, <2>3, BurstQuiet DEF Writing
<1>4. ASSUME NEW j \in Jobs, Judge(j)
      PROVE  Burst'
  <2>1. CASE joined' = {}
    BY <2>1, BurstOver
  <2>2. CASE joined' # {}
    <3>1. Done(j) /\ job[j].at = "saved" /\ UNCHANGED <<stored, covered, unread>>
      BY <1>4, <2>2 DEF Judge, row
    <3>2. Others(j) /\ job'[j].at \in {"idle", "checking"}
      BY <1>0, <3>1, RestKeeps DEF Done, Others
    <3>3. CASE joined' = joined
      BY <3>1, <3>2, <3>3, BurstQuiet DEF Writing
    <3>4. CASE joined' # joined
      <4>1. joined' = joined \cup {Msg(j)} /\ Msg(j) \in stored
        BY <1>4, <2>2, <3>1, <3>4, Own DEF Judge, JobsKept, Kept, Sound, Before
      <4>2. PICK w \in Jobs : job[w].at \in {"claimed", "prompting"}
        BY <1>4, <2>2, <3>4 DEF Judge
      <4>3. /\ Writers' = Writers /\ w \in Writers
            /\ \A k \in Jobs : job'[k].at \in Writing => k = w
        BY <3>1, <3>2, <4>2, Frame DEF Writing, LockHeld, Writers
      <4>4. job'[w].at \in {"claimed", "prompting"}
        BY <3>1, <3>2, <4>2 DEF Others
      <4> QED
        BY <3>1, <4>1, <4>3, <4>4 DEF Burst, Writing
    <3> QED
      BY <3>3, <3>4
  <2> QED
    BY <2>1, <2>2
<1>5. ASSUME NEW j \in Jobs, job[j].at \in Writing
      PROVE  \A k \in Jobs \ {j} : job[k].at \notin Writing
  BY <1>5 DEF LockHeld, Writers
<1>6. ASSUME NEW j \in Jobs, Consume(j)
      PROVE  Burst'
  <2>1. CASE joined' = {}
    BY <2>1, BurstOver
  <2>2. CASE joined' # {}
    <3>1. /\ Others(j) /\ job[j].at = "claimed" /\ job'[j].at = "prompting"
          /\ UNCHANGED <<stored, joined, covered, unread>>
      BY <1>6, <2>2, ConsumeStep
    <3>2. \A k \in Jobs : job'[k].at \in Writing => k = j
      BY <1>5, <3>1 DEF Others, Writing
    <3>3. Writers' # {}
      BY <3>1 DEF Writers, Writing
    <3> QED
      BY <3>1, <3>2, <3>3 DEF Burst, Writing
  <2> QED
    BY <2>1, <2>2
<1>14. ASSUME NEW j \in Jobs, NEW read \in SUBSET stored, Prompt(j, read)
      PROVE  Burst'
  <2>1. /\ Others(j) /\ job[j].at = "prompting" /\ job'[j].at = "generating" /\ job'[j].covers = read
        /\ UNCHANGED <<stored, joined, covered>>
        /\ stored \subseteq read \cup unread'
    BY <1>14, PromptStep
  <2>2. \A k \in Jobs : job'[k].at \in Writing => k = j
    BY <1>5, <2>1 DEF Others, Writing
  <2>3. Writers' # {}
    BY <2>1 DEF Writers, Writing
  <2> QED
    BY <2>1, <2>2, <2>3 DEF Burst, Writing
<1>7. ASSUME NEW j \in Jobs, NEW next \in {"recording", "handingOver"}, Generate(j, next)
      PROVE  Burst'
  <2>1. /\ job' = [job EXCEPT ![j].at = next] /\ job[j].at = "generating"
        /\ UNCHANGED <<stored, joined, unread>> /\ covered' = covered \cup job[j].covers
    BY <1>7 DEF Generate, Moves, Sends, row
  <2>2. Others(j) /\ job'[j].at = next
    BY <1>0, <2>1 DEF Others, JobStates
  <2>3. \A k \in Jobs : job'[k].at \in Writing => k = j
    BY <1>5, <2>1, <2>2 DEF Others, Writing
  <2>4. joined' \subseteq covered' \cup unread'
    BY <2>1 DEF Burst
  <2> QED
    BY <2>1, <2>2, <2>3, <2>4 DEF Burst, Writing
<1>8. ASSUME NEW j \in Jobs, HandOver(j) \/ Record(j)
      PROVE  Burst'
  <2>1. /\ Done(j) /\ job[j].at \in {"recording", "handingOver"} /\ UNCHANGED <<stored, joined, covered, unread>>
    BY <1>8 DEF HandOver, Record, Releases, told
  <2>2. Others(j) /\ job'[j].at \in {"idle", "checking"}
    BY <1>0, <2>1, RestKeeps DEF Done, Others
  <2>3. \A k \in Jobs : job'[k].at \notin Writing
    BY <1>5, <2>1, <2>2 DEF Others, Writing
  <2>4. joined' \subseteq covered' \cup unread'
    BY <2>1 DEF Burst
  <2> QED
    BY <2>1, <2>3, <2>4 DEF Burst, Writing
<1>9. ASSUME NEW j \in Jobs, CatchUpClaims(j)
      PROVE  Burst'
  <2>1. CASE joined' = {}
    BY <2>1, BurstOver
  <2>2. CASE joined' # {}
    <3>1. Done(j) /\ job[j].at = "claiming" /\ UNCHANGED <<stored, joined, covered, unread>>
      BY <1>9, <2>2 DEF CatchUpClaims, row
    <3>2. Others(j) /\ job'[j].at \in {"idle", "checking"}
      BY <1>0, <3>1, RestKeeps DEF Done, Others
    <3> QED
      BY <3>1, <3>2, BurstQuiet DEF Writing
  <2> QED
    BY <2>1, <2>2
<1>10. ASSUME NEW j \in Jobs, Fail(j)
      PROVE  Burst'
  <2>1. CASE joined' = {}
    BY <2>1, BurstOver
  <2>2. CASE joined' # {}
    <3>1. job[j].at \notin Writing /\ UNCHANGED <<stored, joined, covered, unread>>
      BY <1>10, <2>2 DEF Fail, row
    <3>2. Others(j) /\ job'[j].at \in {"idle", "checking"}
      BY <1>0, <1>10, RestKeeps, NoJobSound DEF Fail, Others
    <3> QED
      BY <3>1, <3>2, BurstQuiet DEF Writing
  <2> QED
    BY <2>1, <2>2
<1>11. ASSUME NEW j \in Jobs, GenerateNothing(j)
      PROVE  Burst'
  BY <1>11, BurstOver DEF GenerateNothing
<1>12. CASE Restart
  BY <1>12, BurstOver DEF Restart
<1>13. CASE SwitchOff \/ SpendElsewhere \/ UNCHANGED vars
  <2>1. UNCHANGED <<job, stored, joined, covered, unread>>
    BY <1>13 DEF SwitchOff, SpendElsewhere, vars, row, told
  <2> QED
    BY <2>1 DEF Burst, Writers
<1> QED
  BY <1>1, <1>2, <1>3, <1>4, <1>6, <1>7, <1>8, <1>9, <1>10, <1>11, <1>12, <1>13, <1>14
  DEF Next, Step

----------------------------------------------------------------------------
(* Theorems *)

\* The strengthened invariant holds in every state.
THEOREM Inductive == Spec => []IInv
<1>1. Init => IInv
  <2> SUFFICES ASSUME Init
               PROVE  IInv
    OBVIOUS
  <2>1. NoJob \in JobStates /\ NoJob.at = "idle" /\ \A j \in Jobs : job[j] = NoJob
    BY NoJobSound DEF Init
  <2>2. Types
    <3>1. chat \in Chats
      <4>1. PICK b \in BOOLEAN : chat = [ai |-> b, needsHuman |-> FALSE, optedOut |-> FALSE]
        BY DEF Init
      <4> QED
        BY <4>1 DEF Chats
    <3>2. job \in [Jobs -> JobStates]
      BY NoJobSound DEF Init
    <3>3. replies \in [Messages -> Nat] /\ used \in 0..Limit
      BY InboxConstants DEF Init
    <3>4. /\ stored \subseteq Messages /\ lastIn \in BOOLEAN /\ inFlight \in BOOLEAN
          /\ leaked \in BOOLEAN /\ forPeople \subseteq Messages
      BY DEF Init
    <3> QED
      BY <3>1, <3>2, <3>3, <3>4 DEF Types, TypeOK, JobStates
  <2>3. SoundJobs
    BY <2>1, NoJobSound DEF SoundJobs
  <2>4. Writers = {} /\ \A m : Pending(m) = {}
    BY <2>1 DEF Writers, Pending, At, Writing
  <2>5. LockHeld
    BY <2>4 DEF Init, LockHeld
  <2>6. LeftAlone
    BY <2>1 DEF Init, LeftAlone, At, Writing
  <2>7. Once
    BY <2>4 DEF Init, Once
  <2> QED
    BY <2>2, <2>3, <2>5, <2>6, <2>7 DEF IInv
<1>2. IInv /\ [Next]_vars => IInv'
  <2> SUFFICES ASSUME IInv, [Next]_vars
               PROVE  IInv'
    OBVIOUS
  <2>1. Types /\ SoundJobs /\ LockHeld /\ LeftAlone /\ Once
    BY DEF IInv
  <2>2. job' \in [Jobs -> JobStates] /\ SoundJobs'
    BY <2>1, JobsNext
  <2>3. Types'
    BY <2>1, <2>2, TypesNext DEF Types, TypeOK, JobStates
  <2> QED
    BY <2>1, <2>2, <2>3, LockNext, LeftNext, OnceNext DEF IInv
<1> QED
  BY <1>1, <1>2, PTL DEF Spec

\* One job at most writes a reply in a chat, and the lock is taken as long as it
\* does; it stays without a writer only when a webhook's job lost it to a failure.
THEOREM OneReplyAtATime == Spec => []OneWriter
<1>1. IInv => OneWriter
  BY DEF IInv, Types, LockHeld, OneWriter
<1> QED
  BY <1>1, Inductive, PTL

\* However often a message is delivered, it is answered once by itself, unless two
\* of Meta's deliveries met before it was stored.
THEOREM DuplicatesUnanswered == Spec => []AnsweredOnce
<1>1. IInv => AnsweredOnce
  <2> SUFFICES ASSUME IInv, NEW m \in Messages, replies[m] > 1, m \notin crossed \/ m \in Web
               PROVE  FALSE
    BY DEF AnsweredOnce
  <2>1. replies[m] \in Nat /\ (replies[m] > 0 => replies[m] = 1)
    BY DEF IInv, Types, Once
  <2> QED
    BY <2>1
<1> QED
  BY <1>1, Inductive, PTL

\* A message that came when the chat was a person's, or after STOP, starts no reply
\* of the AI, whatever the jobs under way had read. Replies that other messages or
\* an agent started may still speak to it.
THEOREM PeopleAnswer == Spec => []ForPeopleStartsNone
<1>1. IInv => ForPeopleStartsNone
  BY DEF IInv, LeftAlone, ForPeopleStartsNone
<1> QED
  BY <1>1, Inductive, PTL

\* With the inductive invariant: messages are in hand until they are stored, and
\* the burst is in sight of the job that answers it, or of a history query that failed.
THEOREM BurstKept == Spec => []BurstInv
<1>1. Init => BurstInv
  <2> SUFFICES ASSUME Init PROVE BurstInv
    OBVIOUS
  <2>1. \A j \in Jobs : job[j].at = "idle"
    BY NoJobSound DEF Init
  <2> QED
    BY <2>1 DEF Init, BurstInv, JobsKept, Kept, Carried, Burst, Writing
<1>2. IInv /\ BurstInv /\ [Next]_vars => BurstInv'
  BY CarriedNext, BurstNext DEF IInv, BurstInv
<1> QED
  BY <1>1, <1>2, Inductive, PTL DEF Spec

\* What a webhook answered 200 for is stored once its jobs are done, whatever
\* duplicates its batch held, unless an error or a restart cut it short or two
\* deliveries met in saveMessage.
THEOREM AckedStored == Spec => []AckedIsStored
<1>1. BurstInv => AckedIsStored
  <2> SUFFICES ASSUME BurstInv, \A j \in Jobs : job[j] = NoJob, crossed = {}, NEW m \in delivered
               PROVE  m \in stored \cup cut
    BY DEF AckedIsStored
  <2>1. \A j \in Jobs : Of(job[j].todo) = {}
    BY NoJobSound DEF Of
  <2> QED
    BY <2>1 DEF BurstInv, Carried
<1> QED
  BY <1>1, BurstKept, PTL

\* The holder of a chat's reply lock answers for every message that other jobs
\* left to it before it read the history: when the lock is free, a reply has taken
\* them all into account, except those that a failed history query kept from it.
THEOREM BurstIsAnswered == Spec => []BurstAnswered
<1>1. IInv /\ BurstInv => BurstAnswered
  BY DEF IInv, LockHeld, BurstInv, Burst, BurstAnswered
<1> QED
  BY <1>1, Inductive, BurstKept, PTL
=============================================================================

-------------------------------- MODULE Polls --------------------------------
(***************************************************************************)
(* Polls in a channel: every user's client with the kernel's module (Poll) *)
(* and the client application (IPTVClientApp, PollInfo, the windows that   *)
(* send and answer), and the IRM server between them, which is external.   *)
(* The user with media voice sends a poll to the channel, message by       *)
(* message; the others answer him, each once; he sends the statistics.     *)
(*                                                                         *)
(* In each client the IRM thread collects the messages of a poll in one    *)
(* place, m_pollData, and posts an event at the end; the user interface    *)
(* thread reads that place when it comes to the event.  An answer says     *)
(* which option, not which poll: "poll" in it is a history.                *)
(***************************************************************************)
EXTENDS Integers, Sequences, FiniteSets, TLC

CONSTANTS
  Users,     \* the users of the channel
  MaxPolls,  \* bound: polls sent
  MaxStats,  \* bound: times statistics are sent
  PollCases  \* which of the cases below are let in

PollCase == {"both",    \* a poll is sent while another one is on its way
             "late",    \* a poll is sent while an earlier one may yet be answered
             "busy",    \* the next messages come before the window has shown the last
             "window"}  \* the poll window is opened while a poll is on its way

Nobody == "none"  \* no user: the empty name
Null   == "null"  \* no poll: m_activePoll is NULL

ASSUME PollAssumption ==
  /\ Users # {} /\ IsFiniteSet(Users) /\ Nobody \notin Users /\ Null \notin Users
  /\ MaxPolls \in Nat /\ MaxStats \in Nat /\ PollCases \subseteq PollCase

Options == {0, 1}  \* as many as a poll must have, MIN_ANSWER_ITEMS
Blank   == -1
Answers == Options \union {Blank}

VARIABLES
  data,      \* m_pollData: owner, question and options
  active,    \* *m_activePoll; history: "given", the answers given to it
  events,    \* the events of the user interface thread
  dialog,    \* the answer dialog: what it shows
  link,      \* messages from one client to another, through the server
  starters,  \* history: who sent which poll
  reports    \* history: statistics sent

client  == <<data, active, events, dialog>>
history == <<starters, reports>>
pollVars == <<client, link, history>>

Symmetry == Permutations(Users)

Polls == 1..MaxPolls

NoData   == [owner |-> Nobody, poll |-> 0, options |-> {}]
NoVotes  == [a \in Answers |-> 0]
NoPoll   == [starter |-> Null, poll |-> 0, options |-> {}, votes |-> NoVotes,
             given |-> {}]
Closed   == [owner |-> Null, poll |-> 0, options |-> {}]

(* An option of a poll, with its count of votes. *)
Item == [poll : Polls, index : Answers, count : Nat]

Kinds   == {"begin", "question", "option", "end", "answer"}
Event   == [what : {"poll", "answer", "stats"}, poll : Polls, index : Answers]
PollMessage == [kind : Kinds, stats : BOOLEAN, from : Users, poll : Polls, index : Answers,
                count : Nat]

(* Every member has its type. *)
PollTypeOK ==
  /\ data \in [Users -> [owner : Users \union {Nobody}, poll : {0} \union Polls,
                         options : SUBSET Item]]
  /\ active \in [Users -> [starter : Users \union {Nobody, Null}, poll : {0} \union Polls,
                           options : SUBSET Item, votes : [Answers -> Nat],
                           given : SUBSET (Users \X Answers)]]
  /\ events \in [Users -> Seq(Event)]
  /\ dialog \in [Users -> [owner : Users \union {Nobody, Null}, poll : {0} \union Polls,
                           options : SUBSET Item]]
  /\ link \in [Users \X Users -> Seq(PollMessage)]
  /\ starters \in Seq(Users) /\ Len(starters) <= MaxPolls

PollInit ==
  /\ data = [u \in Users |-> NoData] /\ active = [u \in Users |-> NoPoll]
  /\ events = [u \in Users |-> <<>>]
  /\ dialog = [u \in Users |-> Closed]
  /\ link = [l \in Users \X Users |-> <<>>]
  /\ starters = <<>> /\ reports = {}

-----------------------------------------------------------------------------
(* What is on its way. *)

Has(q, P(_)) == \E n \in 1..Len(q) : P(q[n])

IsAnswer(m)  == m.kind = "answer"
ForWindow(e) == e.what # "answer"
AnswerDue(e) == e.what = "answer"

(* No poll and no statistics of these users are under way, or wait to be     *)
(* shown.                                                                    *)
Quiet(S) ==
  LET theirs(m) == m.kind # "answer" /\ m.from \in S
      shown(e)  == e.what # "answer" /\ starters[e.poll] \in S
  IN  \A u, v \in Users : ~Has(link[v, u], theirs) /\ ~Has(events[u], shown)

(* Nobody answers an earlier poll any more. *)
AllAnswered ==
  \A u \in Users : /\ dialog[u] = Closed /\ ~Has(events[u], AnswerDue)
                   /\ \A v \in Users : ~Has(link[v, u], IsAnswer)

-----------------------------------------------------------------------------
(* The user. *)

Msg(kind, report, u, p, i, c) ==
  [kind |-> kind, stats |-> report, from |-> u, poll |-> p, index |-> i, count |-> c]

(* SendChannelPrivateMessage(), of several messages: to all others. *)
ToChannel(u, q) == link' = [l \in Users \X Users |->
                              IF l[1] = u /\ l[2] # u THEN link[l] \o q ELSE link[l]]

(* Poll::PollSend(). *)
PollMessages(u, p) ==
  <<Msg("begin", FALSE, u, p, Blank, 0), Msg("question", FALSE, u, p, Blank, 0),
    Msg("option", FALSE, u, p, 0, 0), Msg("option", FALSE, u, p, 1, 0),
    Msg("end", FALSE, u, p, Blank, 0)>>

(* Poll::PollSendStats(), the blank answers first. *)
StatsMessages(u, t) ==
  <<Msg("begin", TRUE, u, t.poll, Blank, 0), Msg("question", TRUE, u, t.poll, Blank, 0),
    Msg("option", TRUE, u, t.poll, Blank, t.votes[Blank]),
    Msg("option", TRUE, u, t.poll, 0, t.votes[0]),
    Msg("option", TRUE, u, t.poll, 1, t.votes[1]),
    Msg("end", TRUE, u, t.poll, Blank, 0)>>

Sent(p) == {[poll |-> p, index |-> i, count |-> 0] : i \in Options}

(* PollInfo::IsValid(). *)
IsValid(t) == t.poll # 0 /\ Cardinality(t.options) >= 2

(* SendPoll(), with what OnBtnSendPollClick() makes. *)
SendPoll(u) ==
  /\ Len(starters) < MaxPolls
  /\ "both" \in PollCases \/ Quiet(Users)
  /\ "late" \in PollCases \/ AllAnswered
  /\ LET p == Len(starters) + 1
     IN  /\ ToChannel(u, PollMessages(u, p))
         /\ active' = [active EXCEPT ![u] = [starter |-> u, poll |-> p, options |-> Sent(p),
                                             votes |-> NoVotes, given |-> {}]]
         /\ starters' = Append(starters, u)
  /\ data' = [data EXCEPT ![u] = NoData]
  /\ UNCHANGED <<events, dialog, reports>>

(* SendPollAnswer(). *)
SendPollAnswer(u, a) ==
  LET t == active[u]
  IN  IF t.starter # Null /\ IsValid(t) /\ t.starter # u /\ a < Cardinality(t.options)
        THEN /\ link' = [link EXCEPT ![<<u, t.starter>>] =
                           Append(@, Msg("answer", FALSE, u, t.poll, a, 0))]
             /\ active' = IF active[t.starter].poll # t.poll THEN active
                          ELSE [active EXCEPT ![t.starter].given = @ \union {<<u, a>>}]
        ELSE UNCHANGED <<link, active>>

(* Mutant: the dialog stays open. *)
AnswerAgain(u, a) ==
  /\ dialog[u] # Closed /\ UNCHANGED dialog
  /\ Len(link[u, active[u].starter]) < 2 /\ SendPollAnswer(u, a)
  /\ UNCHANGED <<data, events, history>>

(* OnVoteButtonClick(), OnBlankButtonClick(): the dialog closes, too. *)
Answer(u, a) ==
  /\ dialog[u] # Closed /\ dialog' = [dialog EXCEPT ![u] = Closed]
  /\ SendPollAnswer(u, a)
  /\ UNCHANGED <<data, events, history>>

(* The dialog is closed without an answer. *)
OnPollAnswerDialogClose(u) ==
  /\ dialog[u] # Closed /\ dialog' = [dialog EXCEPT ![u] = Closed]
  /\ UNCHANGED <<data, active, events, link, history>>

(* What the statistics of a poll say. *)
Report(t) ==
  [owner |-> t.starter, poll |-> t.poll,
   options |-> {[poll |-> t.poll, index |-> a, count |-> t.votes[a]] : a \in Answers}]

(* SendPollStats(). *)
SendPollStats(u) ==
  /\ active[u].starter = u /\ IsValid(active[u]) /\ Cardinality(reports) < MaxStats
  /\ "both" \in PollCases \/ Quiet(Users \ {u})
  /\ ToChannel(u, StatsMessages(u, active[u]))
  /\ reports' = reports \union {Report(active[u])}
  /\ UNCHANGED <<client, starters>>

(* The window that sends polls is opened: SetAppInterface() calls            *)
(* ResetActivePoll().                                                        *)
OpenWindow(u) ==
  /\ "window" \in PollCases \/ Quiet(Users)
  /\ active' = [active EXCEPT ![u] = NoPoll] /\ data' = [data EXCEPT ![u] = NoData]
  /\ UNCHANGED <<events, dialog, link, history>>

-----------------------------------------------------------------------------
(* The IRM thread: OnKernelNotify().  The server keeps the order of what one *)
(* user sends to another.                                                    *)

Taken(u, v) == link[v, u] # <<>> /\ link' = [link EXCEPT ![<<v, u>>] = Tail(@)]

(* Mutant: the options of the last one stay. *)
BeginKeepsOptions(u, v) ==
  LET m == Head(link[v, u])
  IN  /\ Taken(u, v) /\ m.kind = "begin" /\ ("busy" \in PollCases \/ ~Has(events[u], ForWindow))
      /\ data' = [data EXCEPT ![u].owner = m.from, ![u].poll = 0]
      /\ active' = IF m.stats THEN active ELSE [active EXCEPT ![u] = NoPoll]
      /\ UNCHANGED <<events, dialog, history>>

(* Mutant: the owner is forgotten. *)
BeginWithoutOwner(u, v) ==
  LET m == Head(link[v, u])
  IN  /\ Taken(u, v) /\ m.kind = "begin" /\ ("busy" \in PollCases \/ ~Has(events[u], ForWindow))
      /\ data' = [data EXCEPT ![u] = NoData]
      /\ active' = IF m.stats THEN active ELSE [active EXCEPT ![u] = NoPoll]
      /\ UNCHANGED <<events, dialog, history>>

(* KNC_POLL_BEGIN, which resets the active poll, too, KNC_POLL_STATS_BEGIN.  *)
Begin(u, v) ==
  LET m == Head(link[v, u])
  IN  /\ Taken(u, v) /\ m.kind = "begin" /\ ("busy" \in PollCases \/ ~Has(events[u], ForWindow))
      /\ data' = [data EXCEPT ![u] = [NoData EXCEPT !.owner = m.from]]
      /\ active' = IF m.stats THEN active ELSE [active EXCEPT ![u] = NoPoll]
      /\ UNCHANGED <<events, dialog, history>>

(* KNC_POLL_QUESTION, KNC_POLL_STATS_QUESTION: another owner's is passed over. *)
Question(u, v) ==
  LET m == Head(link[v, u])
  IN  /\ Taken(u, v) /\ m.kind = "question"
      /\ data' = IF data[u].owner = m.from THEN [data EXCEPT ![u].poll = m.poll] ELSE data
      /\ UNCHANGED <<active, events, dialog, history>>

(* KNC_POLL_OPTION, KNC_POLL_STATS_OPTION. *)
Option(u, v) ==
  LET m == Head(link[v, u])
      o == [poll |-> m.poll, index |-> m.index, count |-> m.count]
  IN  /\ Taken(u, v) /\ m.kind = "option"
      /\ data' = IF data[u].owner = m.from
                   THEN [data EXCEPT ![u].options = @ \union {o}] ELSE data
      /\ UNCHANGED <<active, events, dialog, history>>

(* KNC_POLL_END, KNC_POLL_STATS_END, whose owner is not looked at, and       *)
(* KNC_POLL_ANSWER: an event is posted.                                      *)
Post(u, v) ==
  LET m == Head(link[v, u])
      what == IF m.kind = "answer" THEN "answer" ELSE IF m.stats THEN "stats" ELSE "poll"
  IN  /\ Taken(u, v) /\ m.kind \in {"end", "answer"}
      /\ events' = [events EXCEPT ![u] =
                      Append(@, [what |-> what, poll |-> m.poll, index |-> m.index])]
      /\ UNCHANGED <<data, active, dialog, history>>

-----------------------------------------------------------------------------
(* The user interface thread. *)

Next1(u, what) ==
  /\ events[u] # <<>> /\ Head(events[u]).what = what
  /\ events' = [events EXCEPT ![u] = Tail(@)]

(* What the answer dialog shows of a poll: nothing of one that is not valid. *)
UpdateAnswerArea(t) ==
  IF IsValid(t) THEN [owner |-> t.starter, poll |-> t.poll, options |-> t.options] ELSE NoData

(* OnPoll() makes a poll of what is in m_pollData, ShowPollAnswerDialog()    *)
(* shows it.                                                                 *)
OnPoll(u) ==
  LET t == [starter |-> data[u].owner, poll |-> data[u].poll,
            options |-> {o \in data[u].options : o.index >= 0},
            votes |-> NoVotes, given |-> {}]
  IN  /\ Next1(u, "poll")
      /\ active' = [active EXCEPT ![u] = t]
      /\ dialog' = [dialog EXCEPT ![u] = UpdateAnswerArea(t)]
      /\ UNCHANGED <<data, link, history>>

(* Mutant: blank answers are passed over. *)
AddVoteNoBlank(t, i) ==
  IF i \in 0..(Cardinality(t.options) - 1) THEN [t EXCEPT !.votes[i] = @ + 1] ELSE t

(* PollInfo::AddVote(): one that is not among the options is passed over.    *)
AddVote(t, i) == IF i < Cardinality(t.options) THEN [t EXCEPT !.votes[i] = @ + 1] ELSE t

(* OnPollAnswer(): counted for whatever poll is active. *)
OnPollAnswer(u) ==
  /\ Next1(u, "answer")
  /\ active' = IF active[u].starter = Null THEN active
               ELSE [active EXCEPT ![u] = AddVote(@, Head(events[u]).index)]
  /\ UNCHANGED <<data, dialog, link, history>>

(* OnPollStats(), ShowPollStats(): what is in m_pollData is shown, the answer *)
(* dialog closed.                                                            *)
OnPollStats(u) ==
  /\ Next1(u, "stats")
  /\ dialog' = [dialog EXCEPT ![u] = Closed]
  /\ UNCHANGED <<data, active, link, history>>

-----------------------------------------------------------------------------
IrmThread(u) == \E v \in Users : Begin(u, v) \/ Question(u, v) \/ Option(u, v) \/ Post(u, v)
UiThread(u)  == OnPoll(u) \/ OnPollAnswer(u) \/ OnPollStats(u)

PollNext == \E u \in Users :
  \/ SendPoll(u) \/ SendPollStats(u) \/ OpenWindow(u)
  \/ OnPollAnswerDialogClose(u) \/ \E a \in Answers : Answer(u, a)
  \/ IrmThread(u) \/ UiThread(u)

PollSpec == PollInit /\ [][PollNext]_pollVars

-----------------------------------------------------------------------------
(* Properties. *)

(* The votes for an option that are on their way to the poll's starter:      *)
(* those that wait for his window, and those on the links to him.            *)
IsVote(m, p, a) == m.poll = p /\ m.index = a

Waiters(u, p, a) ==
  {n \in 1..Len(events[u]) : AnswerDue(events[u][n]) /\ IsVote(events[u][n], p, a)}

Posted(u, p, a) ==
  UNION {{<<v, n>> : n \in {k \in 1..Len(link[v, u]) :
                             IsAnswer(link[v, u][k]) /\ IsVote(link[v, u][k], p, a)}}
         : v \in Users}

UnderWay(u, p, a) == Cardinality(Waiters(u, p, a)) + Cardinality(Posted(u, p, a))

(* Each answer is counted once, for the option and the poll it was given to: *)
(* counted and under way make up what was given.                             *)
VotesAddUp ==
  \A u \in Users : active[u].starter = u =>
    LET p == active[u].poll
    IN  \A a \in Answers : active[u].votes[a] + UnderWay(u, p, a)
                             = Cardinality({v \in Users : <<v, a>> \in active[u].given})

(* An answer dialog shows a poll as it was sent: the question with all of    *)
(* its options and no others, under the name of its starter.                 *)
ShownAsSent ==
  \A u \in Users : dialog[u] # Closed =>
    /\ dialog[u].poll # 0 /\ dialog[u].options = Sent(dialog[u].poll)
    /\ dialog[u].owner = starters[dialog[u].poll]

(* Statistics, when their window comes to show them, are those a starter has *)
(* sent, count by count.                                                     *)
StatsAsSent ==
  \A u \in Users :
    events[u] # <<>> /\ Head(events[u]).what = "stats" => data[u] \in reports
=============================================================================

----------------------------- MODULE PolledList -----------------------------
(***************************************************************************)
(* The list of open suggestions on the suggestions page of an experiment   *)
(* (web/js/pages/experiment/core/suggestions/page.js): a poller replaces   *)
(* it by what the server lists, and the answers to the user's own requests *)
(* add to it or remove from it on the spot, while other clients of the     *)
(* experiment create and close suggestions as well.                        *)
(***************************************************************************)
EXTENDS Poller, Sequences, FiniteSets

CONSTANTS MaxItems, MaxActs, MaxFaults, MaxHides  \* bounds

VARIABLES
  list,     \* state.suggestions; null is the empty list
  lister,   \* this.suggestionPoller
  open,     \* the server: the ids of the open suggestions
  created,  \* the server: the ids given so far
  own,      \* the ids that this page's user created
  answers,  \* answers to the page's own requests, on their way
  acts, faults, hides  \* how much of the bounds is used

listVars == <<list, lister, open, created, own, answers, acts, faults, hides>>

ListedIds == {list[i] : i \in DOMAIN list}
\* The endpoint lists the newest first; exhaustivelyPage joins its pages.
ServerList ==
  [i \in 1..Cardinality(open) |->
     CHOOSE x \in open : Cardinality({y \in open : y >= x}) = i]

Rejected(l, id) == SelectSeq(l, LAMBDA x : x # id)
AddSuggestion(id) == <<id>> \o Rejected(list, id)
RemoveSuggestion(id) == Rejected(list, id)

Mounted == ~lister.stopped
Act == acts < MaxActs /\ acts' = acts + 1
ServerIs(ids) == open' = ids
-----------------------------------------------------------------------------
ListInit ==
  /\ open = {1} /\ created = 1 /\ own = {} /\ answers = {}
  /\ list = <<>> /\ lister = NewPoller
  /\ acts = 0 /\ faults = 0 /\ hides = 0

\* componentDidMount
MountList ==
  /\ ~lister.once /\ lister' = StartOnce(lister)
  /\ UNCHANGED <<list, open, created, own, answers, acts, faults, hides>>

\* The user asks for a suggestion, or reports, skips or deletes one on the screen; the
\* server does it at once, and refuses one that is closed already.
CreateHere ==
  /\ Mounted /\ Act /\ created < MaxItems
  /\ created' = created + 1 /\ ServerIs(open \cup {created + 1})
  /\ own' = own \cup {created + 1}
  /\ answers' = answers \cup {[kind |-> "created", id |-> created + 1]}
  /\ UNCHANGED <<list, lister, faults, hides>>
CloseHere ==
  /\ Mounted /\ Act
  /\ \E id \in ListedIds :
       /\ ServerIs(open \ {id})
       /\ answers' = IF id \in open
                     THEN answers \cup {[kind |-> "closed", id |-> id]} ELSE answers
  /\ UNCHANGED <<list, lister, created, own, faults, hides>>
\* onCreateSuggestion, onCreateObservation, onSkip
Answer(a) ==
  /\ a \in answers /\ answers' = answers \ {a}
  /\ list' = IF ~Mounted THEN list
             ELSE IF a.kind = "created" THEN AddSuggestion(a.id)
             ELSE RemoveSuggestion(a.id)
  /\ UNCHANGED <<lister, open, created, own, acts, faults, hides>>
AnswerLost(a) ==
  /\ a \in answers /\ answers' = answers \ {a}
  /\ faults < MaxFaults /\ faults' = faults + 1
  /\ UNCHANGED <<list, lister, open, created, own, acts, hides>>

CreateElsewhere ==
  /\ Act /\ created < MaxItems
  /\ created' = created + 1 /\ ServerIs(open \cup {created + 1})
  /\ UNCHANGED <<list, lister, own, answers, faults, hides>>
CloseElsewhere ==
  /\ Act /\ \E id \in open : ServerIs(open \ {id})
  /\ UNCHANGED <<list, lister, created, own, answers, faults, hides>>

ListKeeps == UNCHANGED <<open, created, own, answers, acts>>
ListServed ==
  /\ lister.phase = "sent" /\ lister' = Answered(lister, ServerList)
  /\ ListKeeps /\ UNCHANGED <<list, faults, hides>>
ListArrives ==
  /\ lister.phase = "answered" /\ lister' = PollSuccess(lister)
  /\ list' = IF IsChange(lister) THEN lister.data ELSE list
  /\ ListKeeps /\ UNCHANGED <<faults, hides>>
ListFails ==
  /\ lister.phase = "sent" /\ lister' = PollError(lister)
  /\ faults < MaxFaults /\ faults' = faults + 1
  /\ ListKeeps /\ UNCHANGED <<list, hides>>
ListTick ==
  /\ \/ lister.cooling /\ lister' = WaitEnds(lister)
     \/ lister.deferred /\ lister' = Deferred(lister)
  /\ ListKeeps /\ UNCHANGED <<list, faults, hides>>
\* The browser hides the page and shows it again; the user leaves it.
Visibility ==
  /\ hides < MaxHides /\ hides' = hides + 1
  /\ lister' = SetPaused(lister, ~lister.paused)
  /\ ListKeeps /\ UNCHANGED <<list, faults>>
LeavePage ==
  /\ Mounted /\ lister' = Stop(lister)
  /\ ListKeeps /\ UNCHANGED <<list, faults, hides>>

AnyAnswer == \E a \in answers : Answer(a)
ListStep ==
  \/ CreateHere \/ CloseHere \/ CreateElsewhere \/ CloseElsewhere
  \/ AnyAnswer \/ (\E a \in answers : AnswerLost(a))
  \/ ListServed \/ ListArrives \/ ListFails \/ ListTick \/ Visibility \/ LeavePage
ListNext == MountList \/ ListStep

\* Time passes, and requests are answered.
ListFairness ==
  /\ WF_listVars(ListServed) /\ WF_listVars(ListArrives)
  /\ WF_listVars(ListTick) /\ WF_listVars(AnyAnswer)
ListSpec == ListInit /\ [][ListNext]_listVars /\ ListFairness
-----------------------------------------------------------------------------
\* A page that stays visible shows every open suggestion in the end, and nothing else
\* but what its own user created: of those, one that another client closes before a
\* poll has seen it leaves the poller's data as they were, and stays on the page.
ListCatchesUp ==
  <>[](\/ lister.paused \/ ~Mounted
       \/ open \subseteq ListedIds /\ ListedIds \ open \subseteq own)
=============================================================================

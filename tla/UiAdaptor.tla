----------------------------- MODULE UiAdaptor -----------------------------
(***************************************************************************)
(* The UI adaptor in the execution phase (ioppytest/ui_adaptor/            *)
(* __main__.py): two listener threads that fill bounded queues and a main  *)
(* loop that empties them, fills three queues of its own and empties those *)
(* as well.  Every put blocks while its queue is full.                     *)
(*                                                                         *)
(* A message of the testing tool is known by its number, which stands for  *)
(* the correlation id of the request made from it.  What the translator    *)
(* makes of it is in Translator.                                           *)
(***************************************************************************)
EXTENDS Translator, Sequences, SequencesExt

CONSTANTS
  Contents,     \* messages the testing tool may publish
  Forms,        \* forms of the users' replies (below)
  QueueLimit,   \* maxsize of the queues
  MaxMessages,  \* bound: messages of the testing tool
  MaxReplies    \* bound: replies of the users

\* action: a field with a chained message; confirmation: a field without one
\* or with a value that cannot be read; unexpected: no field, two, or another
\* one than was asked for.
ReplyForms == {"action", "confirmation", "unexpected"}

ASSUME AdaptorAssumption ==
  /\ QueueLimit \in Nat /\ QueueLimit >= 2
  /\ Forms \subseteq ReplyForms
  /\ IsFiniteSet(DOMAIN RoleHolder)
  /\ \A c \in Contents : c.kind = "TestCaseReady" => c.tc # NoTC

VARIABLES
  alive,      \* the main loop runs
  pc,         \* where it is
  log,        \* history: contents of the testing tool's messages, in order
  bus,        \* messages on their way to the first listener
  fromTT,     \* queue_messages_from_tt
  display,    \* queue_messages_display_to_ui
  request,    \* queue_messages_request_to_ui
  pending,    \* _pending_responses
  memory,     \* the translator's _current_tc and session_history_messages
  screen,     \* history: what was published for the users
  uiBus,      \* replies on their way to the second listener
  fromUI,     \* queue_messages_from_ui
  toTT,       \* queue_messages_to_tt
  replies,    \* history: number of replies given
  popped,     \* history: requests taken out of _pending_responses
  delivered   \* history: requests answered to the testing tool

vars == <<alive, pc, log, bus, fromTT, display, request, pending, memory, screen,
          uiBus, fromUI, toTT, replies, popped, delivered>>

Asks(i)  == log[i].kind \in Asking
Shown(i) == Echoed(log[i])

HasRoom(q) == Len(q) < QueueLimit

Init ==
  /\ alive = TRUE /\ pc = "from_tt"
  /\ log = <<>> /\ bus = <<>> /\ fromTT = <<>>
  /\ display = <<>> /\ request = <<>>
  /\ pending = {} /\ popped = {}
  /\ memory = Nothing
  /\ screen = <<>>
  /\ uiBus = <<>> /\ fromUI = <<>> /\ toTT = <<>>
  /\ replies = 0
  /\ delivered = <<>>

-----------------------------------------------------------------------------
(* The testing tool, the users and the listener threads *)

TestingToolPublishes(c) ==
  /\ Len(log) < MaxMessages
  /\ log' = Append(log, c)
  /\ bus' = Append(bus, Len(log) + 1)
  /\ UNCHANGED <<alive, pc, fromTT, display, request, pending, memory, screen,
                 uiBus, fromUI, toTT, replies, popped, delivered>>

\* What is published for the users: made from message i, filed under a tag.
Shows(kind, i, to, tag, files) ==
  [kind |-> kind, id |-> i, to |-> to, tag |-> tag, files |-> files]

Echo(i) == Shows("echo", i, Everyone, NoTag, {})

Waits(i, u) == Shows("waiting", i, u, NoTag, {})

OnScreen(kind, i) == \E k \in DOMAIN screen : screen[k].kind = kind /\ screen[k].id = i

\* A user replies to a request on his screen, maybe not for the first time.
UserReplies(i, form) ==
  /\ replies < MaxReplies
  /\ OnScreen("request", i)
  /\ replies' = replies + 1
  /\ uiBus' = Append(uiBus, [id |-> i, form |-> form])
  /\ UNCHANGED <<alive, pc, log, bus, fromTT, display, request, pending, memory, screen,
                 fromUI, toTT, popped, delivered>>

TTListener ==
  /\ alive
  /\ bus # <<>>
  /\ HasRoom(fromTT)
  /\ bus' = Tail(bus)
  /\ fromTT' = Append(fromTT, Head(bus))
  /\ UNCHANGED <<alive, pc, log, display, request, pending, memory, screen,
                 uiBus, fromUI, toTT, replies, popped, delivered>>

\* A mutant: a listener that finds its queue full does not wait.
UIListenerWithoutWaiting ==
  /\ alive
  /\ uiBus # <<>>
  /\ uiBus' = Tail(uiBus)
  /\ fromUI' = IF HasRoom(fromUI) THEN Append(fromUI, Head(uiBus)) ELSE fromUI
  /\ UNCHANGED <<alive, pc, log, bus, fromTT, display, request, pending, memory, screen,
                 toTT, replies, popped, delivered>>

UIListener ==
  /\ alive
  /\ uiBus # <<>>
  /\ HasRoom(fromUI)
  /\ uiBus' = Tail(uiBus)
  /\ fromUI' = Append(fromUI, Head(uiBus))
  /\ UNCHANGED <<alive, pc, log, bus, fromTT, display, request, pending, memory, screen,
                 toTT, replies, popped, delivered>>

-----------------------------------------------------------------------------
(* The main loop *)

At(here, next) == alive /\ pc = here /\ pc' = next

\* A mutant: a new request takes the place of one with the same content.
EnterByContent(i) == {j \in pending : log[j] # log[i]} \cup {i}

\* add_pending_response
Enter(i) == pending \cup {i}

\* process_message_from_testing_tool: the translator takes note of the message,
\* the message is queued for display, its request is queued, and only then
\* entered among the pending ones; the requests are published by this thread
\* too, later in the same turn.
ProcessFromTT ==
  /\ At("from_tt", "display")
  /\ \/ /\ fromTT = <<>>
        /\ UNCHANGED <<fromTT, display, request, pending, memory>>
     \/ /\ fromTT # <<>>
        /\ LET i == Head(fromTT)
               m == log[i]
           IN
           /\ memory' = Remember(memory, i, m)
           /\ IF Shown(i)
              THEN /\ HasRoom(display)
                   /\ display' = Append(display, Shows("display", i, Addressee(m),
                                    DisplayTag(memory', m), Files(memory', m)))
              ELSE UNCHANGED display
           /\ IF Asks(i)
              THEN /\ HasRoom(request)
                   /\ request' = Append(request, Shows("request", i, Addressee(m),
                                    DefaultTag(memory'), {}))
                   /\ pending' = Enter(i)
              ELSE UNCHANGED <<request, pending>>
        /\ fromTT' = Tail(fromTT)
  /\ UNCHANGED <<alive, log, bus, screen, uiBus, fromUI, toTT,
                 replies, popped, delivered>>

\* A mutant: one display a turn.
PublishOneDisplay ==
  /\ At("display", "request")
  /\ display' = IF display = <<>> THEN display ELSE Tail(display)
  /\ screen' = IF display = <<>> THEN screen ELSE Append(screen, Head(display))
  /\ UNCHANGED <<alive, log, bus, fromTT, request, pending, memory,
                 uiBus, fromUI, toTT, replies, popped, delivered>>

\* All the displays are published, one after the other.
PublishDisplays ==
  /\ \/ /\ display # <<>>
        /\ At("display", "display")
        /\ display' = Tail(display)
        /\ screen' = Append(screen, Head(display))
     \/ /\ display = <<>>
        /\ At("display", "request")
        /\ UNCHANGED <<display, screen>>
  /\ UNCHANGED <<alive, log, bus, fromTT, request, pending, memory,
                 uiBus, fromUI, toTT, replies, popped, delivered>>

\* One request a turn is published, after the others were told to wait.
PublishRequest ==
  /\ At("request", "from_ui")
  /\ \/ /\ request # <<>>
        /\ request' = Tail(request)
        /\ LET r == Head(request) IN
           screen' = screen \o SetToSeq({Waits(r.id, u) : u \in Others(r.to)}) \o <<r>>
     \/ /\ request = <<>>
        /\ UNCHANGED <<request, screen>>
  /\ UNCHANGED <<alive, log, bus, fromTT, display, pending, memory,
                 uiBus, fromUI, toTT, replies, popped, delivered>>

\* A mutant: a reply answers all the requests of the same content.
PoppedWith(i) == {j \in pending : log[j] = log[i]}

\* pop_pending_response
PoppedBy(i) == {i}

\* process_message_from_ui and translate_ui_to_tt_message: the reply is echoed;
\* if its request is pending, the entry is removed and, if there is a message
\* chained to the field, it is queued.  A reply that is not what was asked for
\* raises an exception that ends the adaptor.
ProcessFromUI ==
  /\ At("from_ui", "to_tt")
  /\ \/ /\ fromUI = <<>>
        /\ UNCHANGED <<alive, fromUI, display, pending, popped, toTT>>
     \/ /\ fromUI # <<>>
        /\ HasRoom(display)
        /\ fromUI' = Tail(fromUI)
        /\ LET i == Head(fromUI).id
               form == Head(fromUI).form
           IN
           /\ display' = Append(display, Echo(i))
           /\ \/ /\ i \notin pending
                 /\ UNCHANGED <<alive, pending, popped, toTT>>
              \/ /\ i \in pending
                 /\ pending' = pending \ PoppedBy(i)
                 /\ popped' = popped \cup PoppedBy(i)
                 /\ alive' = (form # "unexpected")
                 /\ IF form = "action"
                    THEN /\ HasRoom(toTT)
                         /\ \E m \in Chained(memory, log[i]) :
                              toTT' = Append(toTT, [id |-> i, msg |-> m])
                    ELSE UNCHANGED toTT
  /\ UNCHANGED <<log, bus, fromTT, request, memory, screen, uiBus, replies, delivered>>

\* All the messages for the testing tool are published; the adaptor listens to
\* the topic they are published under and hears them as well.
PublishToTT ==
  /\ \/ /\ toTT # <<>>
        /\ At("to_tt", "to_tt")
        /\ toTT' = Tail(toTT)
        /\ delivered' = Append(delivered, Head(toTT).id)
        /\ log' = Append(log, Head(toTT).msg)
        /\ bus' = Append(bus, Len(log) + 1)
     \/ /\ toTT = <<>>
        /\ At("to_tt", "users")
        /\ UNCHANGED <<toTT, delivered, log, bus>>
  /\ UNCHANGED <<alive, fromTT, display, request, pending, memory, screen,
                 uiBus, fromUI, replies, popped>>

\* Every 500 turns get_new_user_on_session asks the UI for the users on line;
\* when the answer times out the exception ends the adaptor.
CheckUsers ==
  /\ At("users", "from_tt")
  /\ alive' \in BOOLEAN
  /\ UNCHANGED <<log, bus, fromTT, display, request, pending, memory, screen,
                 uiBus, fromUI, toTT, replies, popped, delivered>>

MainLoop ==
  \/ ProcessFromTT \/ PublishDisplays \/ PublishRequest
  \/ ProcessFromUI \/ PublishToTT \/ CheckUsers

Next ==
  \/ \E c \in Contents : TestingToolPublishes(c)
  \/ \E i \in DOMAIN log, form \in Forms : UserReplies(i, form)
  \/ TTListener \/ UIListener
  \/ MainLoop

Spec == Init /\ [][Next]_vars

\* Threads of the process; nothing is assumed of the testing tool and the users.
FairSpec == /\ Spec
            /\ WF_vars(TTListener)
            /\ WF_vars(UIListener)
            /\ WF_vars(MainLoop)

-----------------------------------------------------------------------------
(* Properties *)

\* The main loop is the only consumer of the queues it fills itself: it must
\* never wait for room in one of them, or it waits for ever.
NeverBlocksItself ==
  alive =>
    /\ pc = "from_tt" /\ fromTT # <<>> =>
         /\ Shown(Head(fromTT)) => HasRoom(display)
         /\ Asks(Head(fromTT)) => HasRoom(request)
    /\ pc = "from_ui" /\ fromUI # <<>> => HasRoom(display) /\ HasRoom(toTT)

\* However fast a user is, his reply finds the entry of the request unless it
\* was replied to before: the entry is made before the request is published.
OnScreenMeansPending ==
  \A i \in DOMAIN log :
    OnScreen("request", i) => i \in pending \cup popped

\* The display of message i is on the screen of whoever gets the request of it.
ShownBefore(k) ==
  \E l \in 1..(k - 1) :
    /\ screen[l].kind = "display" /\ screen[l].id = screen[k].id
    /\ screen[l].to = screen[k].to

AskedAbout(i, k) == \E l \in 1..(k - 1) : screen[l].kind = "request" /\ screen[l].id = i

\* What a request is about is on the screen before the request is, and requests
\* come in the order of the messages they were made from.
ShownInOrder ==
  \A k \in DOMAIN screen : screen[k].kind = "request" =>
    /\ ShownBefore(k)
    /\ \A i \in 1..(screen[k].id - 1) : Asks(i) => AskedAbout(i, k)

LastNamed(i) ==
  LET named == {j \in 1..i : log[j].tc # NoTC} IN
  IF named = {} THEN NoTC ELSE log[Max(named)].tc

\* Whatever waits in the queues meanwhile, a display or a request that is filed
\* under a test case is filed under the one that was named last, in a message
\* that the users may not have seen; only before the first one is it a log.
FiledWithItsTestcase ==
  \A k \in DOMAIN screen : LET e == screen[k] IN
    /\ e.tag.name \in {"testcase", "packets"} => e.tag.tc = LastNamed(e.id)
    /\ e.tag.name = "logs" => LastNamed(e.id) = NoTC

\* A verdict is shown with all the captures of its test case published so far
\* and with no other's, although captures themselves are never shown.
VerdictBringsCaptures ==
  \A k \in DOMAIN screen : LET e == screen[k] IN
    e.kind = "display" /\ log[e.id].kind = "TestCaseVerdict" =>
      e.files = {j \in 1..e.id : log[j].kind = "SniffingGetCaptureReply"
                                  /\ log[j].capture = log[e.id].tc}

\* Messages that call for a user.
Requests == {c \in Contents : c.kind \in Asking}

\* The table of open requests, as the rest of the system sees it: a request is
\* open from the moment its message is published until a reply uses it up.
StillOpen == [r \in Requests |-> Cardinality({i \in DOMAIN log : log[i] = r /\ i \notin popped})]

table == INSTANCE OpenRequests WITH open <- StillOpen

\* The adaptor with its threads and queues keeps the promise that the model of
\* the session (UiSession) builds on.
KeepsTable == table!OpenSpec

\* As long as the adaptor runs, each request reaches the screen, each reply to
\* an open request uses it up, and each chained message reaches the testing tool.
AllArrives ==
  \A i \in 1..MaxMessages :
    /\ i \in DOMAIN log /\ Asks(i) ~> ~alive \/ OnScreen("request", i)
    /\ (\E form \in Forms : Contains(uiBus \o fromUI, [id |-> i, form |-> form]))
         ~> ~alive \/ i \in popped
    /\ (\E k \in DOMAIN toTT : toTT[k].id = i) ~> ~alive \/ Contains(delivered, i)
=============================================================================

----------------------------- MODULE McpServers -----------------------------
(***************************************************************************)
(* The calendar and CRM servers behind the MCP pool                        *)
(* (mcp-servers/calendar, mcp-servers/twenty-crm).  A tool is a coroutine  *)
(* without a suspension between its check and its write, so a request is   *)
(* executed in one step; but its reply may be lost (a timeout or a broken  *)
(* connection of the pool), and an agent that got no reply, or acts on a   *)
(* list it read earlier, asks again.                                       *)
(***************************************************************************)
EXTENDS Naturals, Sequences

CONSTANTS
  Agents,     \* callers of the servers, each for a principal of its own
  Slots,      \* the calendar's slots
  NoSuchSlot, \* a slot id that the calendar does not have
  NobodyHas,  \* booked_by of a free slot
  Requests    \* bound on the requests executed

ASSUME SlotsAssumption == NoSuchSlot \notin Slots /\ NobodyHas \notin Agents /\ Requests \in Nat

VARIABLES
  bookedBy,  \* InMemoryCalendarStore._slots
  contacts,  \* how many contacts the CRM has: their ids are 1, 2, ...
  activities,  \* activities[k]: _activities of contact k, by the request they came from
  journal,   \* history: the requests executed, with their results
  told       \* told[a]: the requests whose reply a has received

mcpServerVars == <<bookedBy, contacts, activities, journal, told>>

McpServersInit ==
  /\ bookedBy = [s \in Slots |-> NobodyHas]
  /\ contacts = 0 /\ activities = <<>>
  /\ journal = <<>> /\ told = [a \in Agents |-> {}]

\* The server executes a request of a; the reply arrives or is lost.
Execute(a, tool, target, ok, arrives) ==
  /\ Len(journal) < Requests
  /\ journal' = Append(journal, [agent |-> a, tool |-> tool, on |-> target, ok |-> ok])
  /\ told' = IF arrives THEN [told EXCEPT ![a] = @ \cup {Len(journal')}] ELSE told

\* Mutant: a booked slot is booked over.
BookOver(a, s, arrives) ==
  LET free == s \in Slots IN
  /\ bookedBy' = IF free THEN [bookedBy EXCEPT ![s] = a] ELSE bookedBy
  /\ Execute(a, "book_slot", s, free, arrives)
  /\ UNCHANGED <<contacts, activities>>

BookSlot(a, s, arrives) ==
  LET free == s \in Slots /\ bookedBy[s] = NobodyHas IN
  /\ bookedBy' = IF free THEN [bookedBy EXCEPT ![s] = a] ELSE bookedBy
  /\ Execute(a, "book_slot", s, free, arrives)
  /\ UNCHANGED <<contacts, activities>>

\* Anybody's booking is cancelled: the tool is not told who asks.
CancelSlot(a, s, arrives) ==
  LET booked == s \in Slots /\ bookedBy[s] # NobodyHas IN
  /\ bookedBy' = IF booked THEN [bookedBy EXCEPT ![s] = NobodyHas] ELSE bookedBy
  /\ Execute(a, "cancel_slot", s, booked, arrives)
  /\ UNCHANGED <<contacts, activities>>

CreateContact(a) ==
  /\ contacts' = contacts + 1
  /\ activities' = Append(activities, <<>>)
  /\ Execute(a, "create_contact", contacts', TRUE, TRUE)
  /\ UNCHANGED bookedBy

\* log_activity() and the CRM's book_slot(): ContactNotFound is an answer.
LogActivity(a, k) ==
  LET known == k \in 1..contacts IN
  /\ activities' = IF known THEN [activities EXCEPT ![k] = Append(@, Len(journal) + 1)] ELSE activities
  /\ Execute(a, "log_activity", k, known, TRUE)
  /\ UNCHANGED <<bookedBy, contacts>>

McpServersNext ==
  \E a \in Agents :
    \/ \E s \in Slots \cup {NoSuchSlot}, arrives \in BOOLEAN :
         BookSlot(a, s, arrives) \/ CancelSlot(a, s, arrives)
    \/ CreateContact(a)
    \/ \E k \in 1..contacts + 1 : LogActivity(a, k)

-----------------------------------------------------------------------------
Succeeded(tool, on) ==
  {n \in DOMAIN journal : journal[n].tool = tool /\ journal[n].on = on /\ journal[n].ok}

\* A slot is given to one principal at a time: of two successful bookings one
\* was cancelled before the other.  Whoever was told that a booking succeeded
\* holds the slot until somebody cancels it, whatever replies were lost and
\* whatever was asked twice; and whoever was refused a slot was refused for a
\* booking that stood.  An activity is on the timeline of its contact once for
\* each request that succeeded, in order, answered or not.
BookingsAreExact ==
  /\ \A s \in Slots : \A m, n \in Succeeded("book_slot", s) :
       m < n => \E k \in Succeeded("cancel_slot", s) : m < k /\ k < n
  /\ \A a \in Agents : \A n \in told[a] :
       LET entry == journal[n]
           cancels == Succeeded("cancel_slot", entry.on)
       IN entry.tool = "book_slot" /\ entry.on \in Slots =>
            IF entry.ok
            THEN bookedBy[entry.on] = a \/ \E k \in cancels : k > n
            ELSE \E m \in Succeeded("book_slot", entry.on) :
                   m < n /\ \A k \in cancels : k < m \/ k > n
  /\ \A k \in 1..contacts :
       /\ {activities[k][i] : i \in DOMAIN activities[k]} = Succeeded("log_activity", k)
       /\ \A i, j \in DOMAIN activities[k] : i < j => activities[k][i] < activities[k][j]
=============================================================================

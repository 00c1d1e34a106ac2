---------------------------- MODULE InternTable ----------------------------
(***************************************************************************)
(* What ConcurrentMap promises its callers: a set of keys with an atomic   *)
(* "insert unless present", of which exactly one caller per key is told    *)
(* that it created the entry.  The table may give up, once and for all.    *)
(***************************************************************************)
CONSTANTS Callers, Keys

VARIABLES
    content,      \* the keys that have an entry
    status,       \* each caller is "idle", "busy" (inside insert) or "done"
    item,         \* the key of its current call
    created,      \* the result of its last call: the entry is new
    full          \* the table has given up

internVars == <<content, status, item, created, full>>

InternInit ==
    /\ content = {}
    /\ status = [c \in Callers |-> "idle"]
    /\ item \in [Callers -> Keys]
    /\ created = [c \in Callers |-> FALSE]
    /\ full = FALSE

Invoke(c, k) ==
    /\ status[c] = "idle"
    /\ status' = [status EXCEPT ![c] = "busy"]
    /\ item' = [item EXCEPT ![c] = k]
    /\ created' = [created EXCEPT ![c] = FALSE]
    /\ UNCHANGED <<content, full>>

Insert(c) ==
    /\ status[c] = "busy"
    /\ status' = [status EXCEPT ![c] = "done"]
    /\ created' = [created EXCEPT ![c] = item[c] \notin content]
    /\ content' = content \cup {item[c]}
    /\ UNCHANGED <<item, full>>

Respond(c) ==
    /\ status[c] = "done"
    /\ status' = [status EXCEPT ![c] = "idle"]
    /\ UNCHANGED <<content, item, created, full>>

GiveUp(c) ==
    /\ status[c] = "busy"
    /\ full' = TRUE
    /\ UNCHANGED <<content, status, item, created>>

InternNext ==
    /\ ~full
    /\ \E c \in Callers :
         \/ \E k \in Keys : Invoke(c, k)
         \/ Insert(c)
         \/ Respond(c)
         \/ GiveUp(c)

InternSpec == InternInit /\ [][InternNext]_internVars
=============================================================================

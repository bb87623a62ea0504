------------------------------- MODULE TuiLoop --------------------------------
(* The event loop of the terminal dashboard (tui.rs): a blocking poll for one  *)
(* key races the 5 s refresh tick, and a poll that loses the race goes on      *)
(* without anybody waiting for it.                                             *)
EXTENDS Integers, Sequences

CONSTANTS
  MaxKeys,      \* bound: keys typed
  MaxTicks      \* bound: ticks that win the race

VARIABLES
  screen,       \* what the loop is doing
  poll,         \* the poll that the loop waits for: its key, when it has one
  orphan,       \* a poll that lost to the tick is still waiting for a key
  keys,         \* keys in the terminal's buffer
  help,         \* show_help
  typed, handled, ticks \* history: keys typed, keys the loop got, ticks that won

history == <<typed, handled, ticks>>
vars == <<screen, poll, orphan, keys, help, history>>

\* newline is Ctrl+J: in raw mode Enter is a carriage return, as any other key.
Kinds == {"q", "r", "u", "?", "newline", "other"}
NoKey == "none"

Init ==
  /\ screen = "draw" /\ poll = NoKey /\ orphan = FALSE
  /\ keys = <<>> /\ help = FALSE
  /\ typed = 0 /\ handled = 0 /\ ticks = 0

-------------------------------------------------------------------------------

Type ==
  /\ typed < MaxKeys
  /\ \E k \in Kinds : keys' = Append(keys, k)
  /\ typed' = typed + 1
  /\ UNCHANGED <<screen, poll, orphan, help, handled, ticks>>

\* draw, and a new poll on the blocking pool.
Draw ==
  /\ screen = "draw"
  /\ screen' = "select" /\ poll' = NoKey
  /\ UNCHANGED <<orphan, keys, help, history>>

PollReads ==
  /\ screen = "select" /\ poll = NoKey /\ keys # <<>>
  /\ poll' = Head(keys) /\ keys' = Tail(keys)
  /\ UNCHANGED <<screen, orphan, help, history>>

PollTimesOut ==
  /\ screen = "select" /\ poll = NoKey
  /\ screen' = "draw"
  /\ UNCHANGED <<poll, orphan, keys, help, history>>

\* Both branches may be ready: select picks one of them.
Handle ==
  /\ screen = "select" /\ poll # NoKey
  /\ screen' = CASE poll = "q" -> "over"
                 [] poll = "r" -> "refresh"
                 [] poll = "u" -> "check"
                 [] OTHER -> "draw"
  /\ help' = (help # (poll = "?"))
  /\ poll' = NoKey
  /\ handled' = handled + 1
  /\ UNCHANGED <<orphan, keys, typed, ticks>>

\* Ticks are 5 s apart (MissedTickBehavior::Delay), longer than an orphan lives.
Tick ==
  /\ screen = "select" /\ ~orphan
  /\ ticks < MaxTicks
  /\ ticks' = ticks + 1
  /\ screen' = "refresh"
  /\ orphan' = (poll = NoKey) /\ poll' = NoKey
  /\ UNCHANGED <<keys, help, typed, handled>>

Refreshed ==
  /\ screen = "refresh"
  /\ screen' = "draw"
  /\ UNCHANGED <<poll, orphan, keys, help, history>>

\* Mutant of OrphanReads: the poll is a loop.
OrphanReadsOn ==
  /\ orphan /\ keys # <<>>
  /\ keys' = Tail(keys)
  /\ UNCHANGED <<screen, poll, orphan, help, history>>

\* It takes one key and is gone; when the loop is over, the runtime waits for it.
OrphanReads ==
  /\ orphan /\ keys # <<>>
  /\ keys' = Tail(keys)
  /\ orphan' = FALSE
  /\ UNCHANGED <<screen, poll, help, history>>

OrphanTimesOut ==
  /\ orphan
  /\ orphan' = FALSE
  /\ UNCHANGED <<screen, poll, keys, help, history>>

\* run_update(true): nothing newer, or a prompt that reads a line in raw mode.
\* Whatever it comes to (SelfUpdate), the dashboard is over.
Check ==
  /\ screen = "check"
  /\ screen' \in {"prompt", "over"}
  /\ UNCHANGED <<poll, orphan, keys, help, history>>

Answer ==
  /\ screen = "prompt" /\ keys # <<>>
  /\ keys' = Tail(keys)
  /\ handled' = handled + 1
  /\ screen' = IF Head(keys) = "newline" THEN "over" ELSE "prompt"
  /\ UNCHANGED <<poll, orphan, help, typed, ticks>>

\* Opened again from the shell, which got the keys that were left.
Reopen ==
  /\ screen = "over" /\ ~orphan
  /\ screen' = "draw" /\ help' = FALSE
  /\ keys' = <<>> /\ handled' = handled + Len(keys)
  /\ UNCHANGED <<poll, orphan, typed, ticks>>

\* The terminal is closed.
HangUp ==
  /\ screen' = "over" /\ orphan' = FALSE /\ poll' = NoKey
  /\ keys' = <<>> /\ typed' = 0 /\ handled' = 0 /\ ticks' = 0
  /\ UNCHANGED help

Next ==
  \/ Type \/ Draw \/ PollReads \/ PollTimesOut \/ Handle \/ Tick \/ Refreshed
  \/ OrphanReads \/ OrphanTimesOut \/ Check \/ Answer \/ Reopen \/ HangUp

Spec == Init /\ [][Next]_vars

-------------------------------------------------------------------------------
(* Properties *)

TypeOK ==
  /\ screen \in {"draw", "select", "refresh", "check", "prompt", "over"}
  /\ poll \in Kinds \cup {NoKey} /\ {orphan, help} \subseteq BOOLEAN
  /\ keys \in Seq(Kinds)
  /\ typed \in 0..MaxKeys /\ handled \in 0..MaxKeys /\ ticks \in 0..MaxTicks

\* "Cancelling that poll when a refresh tick lands is harmless" (tui.rs:91-95):
\* it is not, but each tick costs one key at most, whether the poll had it
\* already, takes it later, or the dashboard was left or is at the prompt.
OneKeyPerTick ==
  LET lost == typed - handled - Len(keys) - (IF poll = NoKey THEN 0 ELSE 1) IN
  0 <= lost /\ lost + (IF orphan THEN 1 ELSE 0) <= ticks

===============================================================================

--------------------------- MODULE FailoverSwitch ---------------------------
(***************************************************************************)
(* tt cluster failover switch (cli/cluster/cmd/failover.go): the command   *)
(* puts a task into etcd for the failover coordinator and, with --wait,    *)
(* follows the key until the coordinator has written a final status.  The  *)
(* watch is opened by a goroutine of its own, so that the put, the answers *)
(* and the opening of the watch happen in any order.                       *)
(***************************************************************************)
EXTENDS Naturals, Sequences

CONSTANTS
    MaxAnswers   \* bound: values the coordinator writes before the final one

VARIABLES
    wait,        \* switchCtx.Wait
    task,        \* the values the key of the task has had, the last is its present one
    command,     \* program point of Switch: "connect", "put", "range" or "ended"
    watcher,     \* the goroutine: "none", "opening", "watching", "sending" or "closed"
    from,        \* the number of values of the key the watch has delivered or passed over
    watch,       \* the etcd watch: "open", "expired" with its context, or "broken"
    shown,       \* the values printed, in order
    outcome      \* what Switch returns: "none", "ok", "timeout" (nil too) or "error"

switchVars == <<wait, task, command, watcher, from, watch, shown, outcome>>

Final == {"success", "failed"}

SwitchInit ==
    /\ wait \in BOOLEAN
    /\ task = << >> /\ shown = << >> /\ from = 0
    /\ command = "connect" /\ watcher = "none" /\ watch = "open" /\ outcome = "none"

Return(out) == command' = "ended" /\ outcome' = out

\* ParseUriOpts, ConnectEtcd, Marshal; with --wait the goroutine is started.
Connect ==
    /\ command = "connect"
    /\ \/ /\ command' = "put" /\ UNCHANGED outcome
          /\ watcher' = IF wait THEN "opening" ELSE "none"
       \/ Return("error") /\ UNCHANGED watcher
    /\ UNCHANGED <<wait, task, from, watch, shown>>

\* etcd.Put: done, refused, or done while the answer comes after the timeout.
Put ==
    /\ command = "put"
    /\ \/ /\ task' = Append(task, "command")
          /\ \/ wait /\ command' = "range" /\ UNCHANGED outcome
             \/ ~wait /\ Return("ok")
             \/ Return("error")
       \/ Return("error") /\ UNCHANGED task
    /\ UNCHANGED <<wait, watcher, from, watch, shown>>

\* etcd.Watch: the watch begins with the next change of the key.
Watch ==
    /\ watcher = "opening" /\ watcher' = "watching"
    /\ from' = Len(task)
    /\ UNCHANGED <<wait, task, command, watch, shown, outcome>>

\* The next event is taken from the channel of the watch.  (An event still in the channel
\* when the watch ends is as good as one before its end.)
TakeEvent ==
    /\ watcher = "watching" /\ from < Len(task) /\ watch = "open"
    /\ watcher' = "sending" /\ from' = from + 1
    /\ UNCHANGED <<wait, task, command, watch, shown, outcome>>

\* Faulty variant: the channel is left open when the watch is over.
EndOfWatchLeavesOpen ==
    /\ watcher = "watching" /\ watch # "open" /\ watcher' = "none"
    /\ UNCHANGED <<wait, task, command, from, watch, shown, outcome>>

\* The channel of the watch is closed; so is outputChan.
EndOfWatch ==
    /\ watcher = "watching" /\ watch # "open" /\ watcher' = "closed"
    /\ UNCHANGED <<wait, task, command, from, watch, shown, outcome>>

\* Faulty variant: any status that is not empty ends the command.
ReadOutputAnyStatus ==
    /\ command = "range"
    /\ \/ /\ watcher = "sending" /\ watcher' = "watching"
          /\ shown' = IF task[from] = "malformed" THEN shown ELSE Append(shown, task[from])
          /\ CASE task[from] = "malformed" -> Return("error")
               [] task[from] # "command" -> Return("ok")
               [] OTHER -> UNCHANGED <<command, outcome>>
       \/ /\ watcher = "closed"
          /\ Return(IF watch = "expired" THEN "timeout" ELSE "ok")
          /\ UNCHANGED <<watcher, shown>>
    /\ UNCHANGED <<wait, task, from, watch>>

\* The loop over outputChan: an event that is YAML is printed and a final status is the
\* end; when the channel is closed, ctx.Err() is the deadline or, if only the watch has
\* broken, nil.
ReadOutput ==
    /\ command = "range"
    /\ \/ /\ watcher = "sending" /\ watcher' = "watching"
          /\ shown' = IF task[from] = "malformed" THEN shown ELSE Append(shown, task[from])
          /\ CASE task[from] = "malformed" -> Return("error")
               [] task[from] \in Final -> Return("ok")
               [] OTHER -> UNCHANGED <<command, outcome>>
       \/ /\ watcher = "closed"
          /\ Return(IF watch = "expired" THEN "timeout" ELSE "ok")
          /\ UNCHANGED <<watcher, shown>>
    /\ UNCHANGED <<wait, task, from, watch>>

\* The context of the watch expires, or etcd ends the watch before.
WatchFails ==
    /\ watcher \in {"opening", "watching", "sending"} /\ watch = "open"
    /\ watch' \in {"expired", "broken"}
    /\ UNCHANGED <<wait, task, command, watcher, from, shown, outcome>>

\* The coordinator takes the task, may report on it, in YAML or not, and ends it.
Coordinator ==
    /\ task # << >> /\ task[Len(task)] \notin Final
    /\ \/ Len(task) <= MaxAnswers /\ \E v \in {"taken", "malformed"} : task' = Append(task, v)
       \/ \E status \in Final : task' = Append(task, status)
    /\ UNCHANGED <<wait, command, watcher, from, watch, shown, outcome>>

SwitchStep == Connect \/ Put \/ ReadOutput
WatchStep == command # "ended" /\ (Watch \/ TakeEvent \/ EndOfWatch)

SwitchNext == SwitchStep \/ WatchStep \/ WatchFails \/ Coordinator

\* Both goroutines run, and the context of the watch has a deadline; the coordinator may be
\* absent.
SwitchFairness ==
    WF_switchVars(SwitchStep) /\ WF_switchVars(WatchStep) /\ WF_switchVars(WatchFails)

SwitchSpec == SwitchInit /\ [][SwitchNext]_switchVars /\ SwitchFairness

-----------------------------------------------------------------------------
(* Properties. *)

\* What has been printed is an unbroken part of the history of the key, and a command that
\* waited and says neither timeout nor error has printed how the task ended.  (Not so when
\* etcd ended the watch: ctx.Err() is nil then, and so is what Switch returns.)
ReportIsTrue ==
    /\ \E i \in 0 .. Len(task) : shown = SubSeq(task, i + 1, i + Len(shown))
    /\ wait /\ outcome = "ok" /\ watch # "broken" =>
          shown # << >> /\ shown[Len(shown)] \in Final /\ shown[Len(shown)] = task[Len(task)]

\* tt cluster failover switch comes to an end with or without an answer of the coordinator,
\* in whatever order the watch is opened, the task is put, the answers are written and the
\* time is over, and its report is true.
SwitchCompletes == <>[](command = "ended" /\ ReportIsTrue)
=============================================================================

------------------------ MODULE MCInputDispatcher ------------------------
(***************************************************************************)
(* Small instances of InputDispatcher for TLC.  A budget lists the calls   *)
(* that the behaviours of one scenario make and how often; "unhandled",    *)
(* "policy", "home" and "monitor" let windows leave keys unhandled, the    *)
(* policy refuse or delay keys, the device send HOME, and monitors listen. *)
(***************************************************************************)
EXTENDS InputDispatcher, TLC

MCDelays == {-1, 0, 1}

FocusMoves == {
  "key" :> 1 @@ "windows" :> 2,
  "windows" :> 2 @@ "filter" :> 1,
  "register" :> 2 @@ "windows" :> 2 @@ "key" :> 1,
  "register" :> 1 @@ "windows" :> 1 @@ "application" :> 1 @@ "key" :> 1 @@ "time" :> 2,
  "register" :> 0 @@ "application" :> 3 @@ "key" :> 2 @@ "time" :> 4,
  "key" :> 1 @@ "motion" :> 1 @@ "windows" :> 1 }
KeyPresses == {
  "key" :> 2 @@ "time" :> 4,
  "key" :> 2 @@ "unhandled" :> 1 @@ "unregister" :> 1,
  "key" :> 2 @@ "unhandled" :> 1 @@ "time" :> 2,
  "key" :> 2 @@ "motion" :> 1 @@ "time" :> 1 @@ "home" :> 1,
  "key" :> 1 @@ "policy" :> 1 @@ "windows" :> 1 @@ "time" :> 1 }
Gestures == {
  "motion" :> 2 @@ "windows" :> 1,
  "motion" :> 4,
  "motion" :> 1 @@ "time" :> 4,
  "motion" :> 3 @@ "close" :> 1 @@ "unregister" :> 1,
  "motion" :> 2 @@ "monitor" :> 1 @@ "pilfer" :> 1,
  "key" :> 1 @@ "home" :> 1 @@ "motion" :> 1 @@ "time" :> 2,
  "key" :> 1 @@ "motion" :> 1 @@ "reset" :> 1 }
Injected == {
  "motion" :> 2 @@ "inject" :> 1,
  "inject" :> 1 @@ "windows" :> 1,
  "inject" :> 1 @@ "close" :> 1 @@ "time" :> 1 }
Modes == {
  "key" :> 1 @@ "motion" :> 1 @@ "mode" :> 2,
  "motion" :> 2 @@ "filter" :> 1 @@ "time" :> 2 }

MCBudgets == FocusMoves \cup KeyPresses \cup Gestures \cup Injected \cup Modes

==========================================================================

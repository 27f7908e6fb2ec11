------------------------------- MODULE Browser -------------------------------
(***************************************************************************)
(* The browser tool (skyclaw-tools, browser.rs): one Chrome with one page  *)
(* for all chats, launched on first use, closed by a call, by an idle      *)
(* watchdog or by dying.  The mutexes of browser and page are taken one    *)
(* after the other by everyone, so they are one lock here; it is held      *)
(* through a launch.  Browsers are numbered as they are launched.          *)
(***************************************************************************)
EXTENDS Integers, FiniteSets

CONSTANTS
  Callers,      \* tool calls that may run at a time
  Sites,        \* places a page can be at, and the cookies they leave
  Names,        \* session names as the callers spell them
  Sanitize,     \* sanitize_session_name, from names to file names
  IdleTimeout,  \* idle_timeout_secs
  MaxLaunch,    \* launches in a behaviour
  MaxNow        \* the end of time

VARIABLES
  browser, page,  \* the two slots: a number, or 0 for None
  cdp,            \* the CDP handler whose handle is kept, or 0
  lastUsed, now,
  lock,           \* who holds the lock, or "free"
  alive,          \* the browser processes that run
  caller,         \* per caller: what it does
  watchdog,       \* the idle watchdog: what it does, and the last_used it read
  cookies,        \* of the running browser
  sessions,       \* the saved cookies per session file
  launched        \* launches so far

browserVars == <<browser, page, cdp, lastUsed, now, lock, alive, caller, watchdog,
                 cookies, sessions, launched>>
slots == <<browser, page, cdp>>

Files == {Sanitize[n] : n \in Names}
None == "none"
Idle == [at |-> "idle", page |-> 0]
Asleep == [at |-> "asleep", read |-> 0, late |-> FALSE]

Steps == {"idle", "ensure", "launch", "page", "stamp", "act", "close"}
CallerStates == [at : Steps, page : 0..MaxLaunch]
WatchdogStates == [at : {"asleep", "lock", "over"}, read : 0..MaxNow, late : BOOLEAN]

TypeOK ==
  /\ browser \in 0..MaxLaunch /\ page \in 0..MaxLaunch /\ cdp \in 0..MaxLaunch
  /\ lastUsed \in 0..MaxNow /\ now \in 1..MaxNow
  /\ lock \in Callers \cup {"free", "watchdog"}
  /\ alive \subseteq 1..MaxLaunch
  /\ caller \in [Callers -> CallerStates]
  /\ watchdog \in WatchdogStates
  /\ cookies \subseteq Sites
  /\ sessions \in [Files -> {{None}} \cup SUBSET Sites]
  /\ launched \in 0..MaxLaunch

Init ==
  /\ browser = 0 /\ page = 0 /\ cdp = 0 /\ lastUsed = 0 /\ now = 1
  /\ lock = "free" /\ alive = {} /\ caller = [c \in Callers |-> Idle]
  /\ watchdog = Asleep /\ cookies = {} /\ sessions = [f \in Files |-> {None}]
  /\ launched = 0

Goto(c, at) == caller' = [caller EXCEPT ![c].at = at]

(* A caller comes between the decision of the watchdog and its lock. *)
Overtaken == watchdog' = [watchdog EXCEPT !.late = @ \/ watchdog.at = "lock"]

-----------------------------------------------------------------------------
Execute(c, what) ==
  /\ caller[c].at = "idle" /\ what \in {"ensure", "close"}
  /\ Goto(c, what)
  /\ UNCHANGED <<slots, lastUsed, now, lock, alive, watchdog, cookies, sessions, launched>>

(* Dropping the Browser value ends its process; the handler is aborted. *)
Dropped == /\ browser' = 0 /\ page' = 0 /\ cdp' = 0
           /\ alive' = alive \ {browser} /\ cookies' = {}

Acquire(c) == caller[c].at = "ensure" /\ lock = "free"

(* A page in the slot is probed; one that does not answer is given up. *)
EnsureBrowser(c) ==
  /\ Acquire(c)
  /\ IF page # 0 /\ page \in alive
     THEN /\ caller' = [caller EXCEPT ![c] = [at |-> "stamp", page |-> page]]
          /\ Overtaken
          /\ UNCHANGED <<slots, lock, alive, cookies>>
     ELSE /\ lock' = c /\ Goto(c, "launch")
          /\ IF page # 0 THEN Dropped ELSE UNCHANGED <<slots, alive, cookies>>
          /\ UNCHANGED watchdog
  /\ UNCHANGED <<lastUsed, now, sessions, launched>>

(* Browser::launch, and the handler task with its handle. *)
Launch(c) ==
  /\ caller[c].at = "launch" /\ launched < MaxLaunch
  /\ launched' = launched + 1 /\ alive' = alive \cup {launched'} /\ cdp' = launched'
  /\ caller' = [caller EXCEPT ![c] = [at |-> "page", page |-> launched']]
  /\ UNCHANGED <<browser, page, lastUsed, now, lock, watchdog, cookies, sessions>>

(* new_page and the patches; then both slots are filled. *)
NewPage(c) ==
  /\ caller[c].at = "page" /\ caller[c].page \in alive
  /\ browser' = caller[c].page /\ page' = caller[c].page
  /\ lastUsed' = now /\ lock' = "free" /\ Overtaken
  /\ Goto(c, "stamp")
  /\ UNCHANGED <<cdp, now, alive, cookies, sessions, launched>>

(* Any of it may fail; a browser that got no page is dropped, its handle   *)
(* stays where it is.                                                      *)
LaunchFails(c) ==
  /\ caller[c].at \in {"launch", "page"}
  /\ alive' = alive \ {caller[c].page}
  /\ lock' = "free" /\ Overtaken
  /\ caller' = [caller EXCEPT ![c] = Idle]
  /\ UNCHANGED <<slots, lastUsed, now, cookies, sessions, launched>>

(* execute stamps last_used once more, without the lock. *)
Stamp(c) ==
  /\ caller[c].at = "stamp"
  /\ lastUsed' = now /\ Goto(c, "act") /\ Overtaken
  /\ UNCHANGED <<slots, now, lock, alive, cookies, sessions, launched>>

CloseBrowser(c) ==
  /\ caller[c].at = "close" /\ lock = "free"
  /\ IF browser # 0 THEN Dropped /\ lastUsed' = 0
                    ELSE UNCHANGED <<slots, alive, cookies, lastUsed>>
  /\ caller' = [caller EXCEPT ![c] = Idle] /\ Overtaken
  /\ UNCHANGED <<now, lock, sessions, launched>>

-----------------------------------------------------------------------------
(* The actions on a page.  They hold no lock, and fail when their page has *)
(* gone.  Navigating and clicking go somewhere and may leave cookies;      *)
(* screenshots, texts, scripts and HTML only read.                         *)
Acts(c) == /\ caller[c].at = "act"
           /\ caller' = [caller EXCEPT ![c] = Idle]
           /\ UNCHANGED <<slots, lastUsed, now, lock, alive, watchdog, launched>>

Works(c) == caller[c].page \in alive

ActFails(c) == Acts(c) /\ UNCHANGED <<cookies, sessions>>

Navigate(c, site) ==
  Acts(c) /\ Works(c) /\ cookies' = cookies \cup {site} /\ UNCHANGED sessions

Interact(c, site) ==
  Acts(c) /\ Works(c) /\ cookies' \in {cookies, cookies \cup {site}} /\ UNCHANGED sessions

Inspect(c) == Acts(c) /\ Works(c) /\ UNCHANGED <<cookies, sessions>>

(* All cookies of the browser, of every chat, go to the file. *)
SaveSession(c, name) ==
  /\ Acts(c) /\ Works(c)
  /\ sessions' = [sessions EXCEPT ![Sanitize[name]] = cookies] /\ UNCHANGED cookies

RestoreSession(c, name) ==
  /\ Acts(c) /\ Works(c) /\ sessions[Sanitize[name]] # {None}
  /\ cookies' = cookies \cup sessions[Sanitize[name]] /\ UNCHANGED sessions

-----------------------------------------------------------------------------
(* Mutant of IsIdle: a browser is idle when the timeout is just reached. *)
IsIdleEager(read) == now - read >= IdleTimeout

(* The watchdog wakes every 30 seconds, decides on what it reads, and only *)
(* then asks for the lock.                                                 *)
IsIdle(read) == now - read > IdleTimeout

WatchdogWakes ==
  /\ watchdog.at = "asleep" /\ lastUsed # 0 /\ IsIdle(lastUsed)
  /\ watchdog' = [at |-> "lock", read |-> lastUsed, late |-> lock # "free"]
  /\ UNCHANGED <<slots, lastUsed, now, lock, alive, caller, cookies, sessions, launched>>

WatchdogCloses ==
  /\ watchdog.at = "lock" /\ lock = "free"
  /\ IF browser # 0 THEN Dropped /\ lastUsed' = 0
                    ELSE UNCHANGED <<slots, alive, cookies, lastUsed>>
  /\ watchdog' = Asleep
  /\ UNCHANGED <<now, lock, caller, sessions, launched>>

(* The tool is dropped: the watchdog task is aborted. *)
SignalShutdown ==
  /\ watchdog.at # "over" /\ \A c \in Callers : caller[c].at = "idle"
  /\ watchdog' = [Asleep EXCEPT !.at = "over"]
  /\ UNCHANGED <<slots, lastUsed, now, lock, alive, caller, cookies, sessions, launched>>

BrowserDies == \E b \in alive :
  /\ alive' = alive \ {b} /\ cookies' = IF b = browser THEN {} ELSE cookies
  /\ UNCHANGED <<slots, lastUsed, now, lock, caller, watchdog, sessions, launched>>

TimePasses ==
  /\ now < MaxNow /\ now' = now + 1
  /\ UNCHANGED <<slots, lastUsed, lock, alive, caller, watchdog, cookies, sessions, launched>>

Next ==
  \/ WatchdogWakes \/ WatchdogCloses \/ SignalShutdown \/ BrowserDies \/ TimePasses
  \/ watchdog.at # "over" /\ \E c \in Callers :
       \/ \E what \in {"ensure", "close"} : Execute(c, what)
       \/ EnsureBrowser(c) \/ Launch(c) \/ NewPage(c) \/ LaunchFails(c) \/ Stamp(c)
       \/ CloseBrowser(c) \/ ActFails(c) \/ Inspect(c)
       \/ \E s \in Sites : Navigate(c, s) \/ Interact(c, s)
       \/ \E n \in Names : SaveSession(c, n) \/ RestoreSession(c, n)

Spec == Init /\ [][Next]_browserVars

-----------------------------------------------------------------------------
(* However calls of several chats, the watchdog and deaths of the browser  *)
(* interleave, there is never more than one browser process, and one that  *)
(* runs is in the slot or in the hands of the caller that launches it.     *)
OneBrowser ==
  /\ Cardinality(alive) <= 1
  /\ \A b \in alive : b = browser \/ \E c \in Callers : lock = c /\ caller[c].page = b

(* Outside the lock the slots agree: browser and page are filled together, *)
(* and the handle that will be aborted is that of this browser's handler.  *)
SlotsAgree == lock = "free" => browser = page /\ browser \in {0, cdp}

(* The watchdog takes a browser away only when nobody has used it for      *)
(* longer than the timeout, except one that a caller used after the        *)
(* watchdog read last_used and before it had the lock.                     *)
IdleBrowserOnly ==
  [][watchdog.at = "lock" /\ watchdog'.at = "asleep" /\ browser # 0 /\ ~watchdog.late =>
       now - lastUsed > IdleTimeout]_browserVars
-----------------------------------------------------------------------------
(***************************************************************************)
(* Proof of these properties for any number of callers and launches.       *)
(***************************************************************************)
(* The lock is held by exactly the caller that launches.                   *)
Launching(c) == caller[c].at \in {"launch", "page"}
LockHeld == /\ lock = "free" \/ (lock \in Callers /\ Launching(lock))
            /\ \A c \in Callers : Launching(c) => lock = c

(* Outside a launch the only process is the one in the slots; before it    *)
(* there is none, and then the one that the launcher holds.                *)
Owned ==
  /\ lock = "free" => /\ browser = page /\ browser \in {0, cdp}
                      /\ alive \subseteq {browser}
  /\ \A c \in Callers :
       /\ Launching(c) => browser = 0 /\ page = 0
       /\ caller[c].at = "launch" => alive = {}
       /\ caller[c].at = "page" => alive \subseteq {caller[c].page} /\ cdp = caller[c].page

(* Unless it was overtaken, the watchdog on its way to the lock is right.  *)
StillIdle == watchdog.at = "lock" /\ ~watchdog.late => now - lastUsed > IdleTimeout

BrowserInv == TypeOK /\ LockHeld /\ Owned /\ StillIdle
=============================================================================

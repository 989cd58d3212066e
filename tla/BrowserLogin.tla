---------------------------- MODULE BrowserLogin ----------------------------
(***************************************************************************)
(* Login.Acquire (internal/browser/login.go): attempts with one browser    *)
(* after the other until the page of SEU has sent a request that carries a *)
(* token.  DevTools reports a request in two events of either order, its   *)
(* URL and then or before its headers; both meet in the maps of attempt.   *)
(* A browser that outlived a killed agent may hold its profile: no other   *)
(* can be controlled with it until that one ends.                          *)
(*                                                                         *)
(* Left out: Progress, redirects (an id names one request), and filling in *)
(* the form, which only decides whether the page sends such a request.     *)
(***************************************************************************)
EXTENDS FiniteSets, Integers

CONSTANTS Requests, Seu, Bearer,   \* of the page, those to SEU, those with a token
          MaxExtra,                \* headers that wait for their URL (256)
          None

Codes == {"ok", "BROWSER_NOT_FOUND", "BROWSER_CONTROL_FAILED", "BROWSER_START_FAILED",
          "SEU_UNREACHABLE", "AUTH_FAILED", "AUTH_REQUIRED", "CANCELED"}

ASSUME RequestKinds == Bearer \subseteq Seu /\ Seu \subseteq Requests
ASSUME NoneAssumption == None \notin Requests \cup Codes

VARIABLES phase,            \* "idle", "starting", "loading", "waiting", "done"
          asked, visible,   \* the caller wants a window; this attempt has one
          profile,          \* "main" or "recovery"
          ctx, expired,     \* "live" or "done"; this attempt's time is up
          held,             \* profiles of browsers a killed agent left
          answer,           \* Acquire's
          announced, ended, \* requests whose URL came, that are over
          headed,           \* requests whose headers came
          allowed, extra, token,   \* the maps and the channel of attempt
          lost              \* headers that found extra full or came too late

attempt == <<visible, profile, expired>>
page == <<announced, ended, headed, allowed, extra, token, lost>>
browserVars == <<phase, asked, attempt, ctx, held, answer, page>>

Profiles == {"main", "recovery"}
Running == phase \in {"starting", "loading", "waiting"}
Dead == ctx = "done" \/ expired

Blank ==
  /\ announced' = {} /\ ended' = {} /\ headed' = {}
  /\ allowed' = {} /\ extra' = {} /\ token' = None /\ lost' = {}

BrowserInit ==
  /\ phase = "idle" /\ asked = FALSE /\ visible = FALSE /\ profile = "main"
  /\ ctx = "live" /\ expired = FALSE /\ held = {} /\ answer = None
  /\ announced = {} /\ ended = {} /\ headed = {}
  /\ allowed = {} /\ extra = {} /\ token = None /\ lost = {}

-----------------------------------------------------------------------------
(* Acquire *)

Attempt(p, v) ==
  /\ phase' = "starting" /\ profile' = p /\ visible' = v /\ expired' = FALSE
  /\ Blank

Answers(code) == phase' = "done" /\ answer' = code /\ Blank /\ UNCHANGED attempt

\* Wrong: only a hidden browser that cannot be controlled is replaced.
AnswersVisible(code) == Answers(code)
VisibleFails(code) ==
  IF code = "BROWSER_CONTROL_FAILED" /\ ctx = "live"
    THEN Attempt("recovery", TRUE) /\ UNCHANGED answer
    ELSE Answers(code)

HiddenFails(code) ==
  IF code \in {"BROWSER_CONTROL_FAILED", "BROWSER_START_FAILED"}
    THEN Attempt("recovery", TRUE) /\ UNCHANGED answer
  ELSE IF code = "SEU_UNREACHABLE" THEN Answers(code)
  ELSE IF ctx = "done" THEN Answers("CANCELED")
  ELSE Attempt("main", TRUE) /\ UNCHANGED answer

Fails(code) ==
  /\ IF profile = "recovery" THEN Answers(code)
     ELSE IF visible THEN VisibleFails(code) ELSE HiddenFails(code)
  /\ UNCHANGED <<asked, ctx, held>>

\* A call of Acquire; Find may not find a browser.
BeginLogin(v) ==
  /\ phase = "idle"
  /\ asked' = v /\ ctx' = "live"
  /\ \/ Attempt("main", v) /\ UNCHANGED answer
     \/ Answers("BROWSER_NOT_FOUND")
  /\ UNCHANGED held

\* The caller has the answer.
EndLogin ==
  /\ phase = "done"
  /\ phase' = "idle" /\ answer' = None /\ asked' = FALSE /\ ctx' = "live"
  /\ visible' = FALSE /\ profile' = "main" /\ expired' = FALSE
  /\ UNCHANGED <<held, page>>

-----------------------------------------------------------------------------
(* attempt *)

Controls ==
  /\ phase = "starting" /\ ~Dead /\ profile \notin held
  /\ phase' = "loading"
  /\ UNCHANGED <<asked, attempt, ctx, held, answer, page>>

\* The browser does not start, or there is no directory for its profile.
ControlFails ==
  /\ phase = "starting"
  /\ \/ Fails(IF Dead THEN "BROWSER_START_FAILED" ELSE "BROWSER_CONTROL_FAILED")
     \/ profile = "recovery" /\ Fails("BROWSER_START_FAILED")

Navigates ==
  /\ phase = "loading" /\ ~Dead
  /\ phase' = "waiting"
  /\ UNCHANGED <<asked, attempt, ctx, held, answer, page>>

NavigateFails == phase = "loading" /\ Fails("SEU_UNREACHABLE")

\* The token is taken; its cookies are there unless the browser is gone.
Captures ==
  /\ phase = "waiting" /\ token # None
  /\ \/ ~Dead /\ Answers("ok") /\ UNCHANGED <<asked, ctx, held>>
     \/ Fails("AUTH_FAILED")

\* The time is up while nobody logs in, or while the form is filled in.
TimesOut ==
  /\ phase = "waiting" /\ Dead
  /\ \E code \in {"AUTH_REQUIRED", "AUTH_FAILED"} : Fails(code)

Expires ==
  /\ Running /\ ~expired
  /\ expired' = TRUE
  /\ UNCHANGED <<phase, asked, visible, profile, ctx, held, answer, page>>

\* Cancels whatever login runs (authCancel).
CancelLogin ==
  /\ ctx' = IF Running THEN "done" ELSE ctx
  /\ UNCHANGED <<phase, asked, attempt, held, answer, page>>

\* The agent is killed; its browser may live on.
KillLogin ==
  /\ held' \in {held} \cup (IF Running THEN {held \cup {profile}} ELSE {})
  /\ phase' = "idle" /\ answer' = None /\ asked' = FALSE /\ ctx' = "live"
  /\ visible' = FALSE /\ profile' = "main" /\ expired' = FALSE
  /\ Blank

BrowserLeaves ==
  /\ \E p \in held : held' = held \ {p}
  /\ UNCHANGED <<phase, asked, attempt, ctx, answer, page>>

-----------------------------------------------------------------------------
(* The listener.  Events come as soon as the network domain is enabled. *)

Listening == phase \in {"loading", "waiting"}

\* offer: the channel has room for one token.
Offer(r) == token' = IF r \in Bearer /\ token = None THEN r ELSE token

NeverWaits(r) == FALSE     \* wrong: headers that came first are forgotten
WaitsForUrl(r) == r \in extra

\* The headers that come with the URL may have the token too.
RequestWillBeSent(r) ==
  /\ Listening /\ r \notin announced
  /\ announced' = announced \cup {r}
  /\ IF r \in Seu
       THEN /\ allowed' = allowed \cup {r} /\ extra' = extra \ {r}
            /\ \/ Offer(r)
               \/ ~WaitsForUrl(r) /\ UNCHANGED token
       ELSE UNCHANGED <<allowed, extra, token>>
  /\ UNCHANGED <<phase, asked, attempt, ctx, held, answer, ended, headed, lost>>

RequestExtraInfo(r) ==
  /\ Listening /\ r \notin headed
  /\ headed' = headed \cup {r}
  /\ IF r \in allowed THEN Offer(r) /\ UNCHANGED <<extra, lost>>
     ELSE IF Cardinality(extra) < MaxExtra
       THEN /\ extra' = extra \cup {r} /\ UNCHANGED token
            /\ lost' = IF r \in ended THEN lost \cup {r} ELSE lost
       ELSE lost' = lost \cup {r} /\ UNCHANGED <<extra, token>>
  /\ UNCHANGED <<phase, asked, attempt, ctx, held, answer, announced, ended, allowed>>

\* Finished or failed.
LoadingEnds(r) ==
  /\ Listening /\ r \in announced \ ended
  /\ ended' = ended \cup {r}
  /\ allowed' = allowed \ {r} /\ extra' = extra \ {r}
  /\ UNCHANGED <<phase, asked, attempt, ctx, held, answer, announced, headed, token, lost>>

Event(r) == RequestWillBeSent(r) \/ RequestExtraInfo(r) \/ LoadingEnds(r)

LoginStep ==
  \/ Controls \/ ControlFails \/ Navigates \/ NavigateFails
  \/ Captures \/ TimesOut \/ Expires
  \/ \E r \in Requests : Event(r)

-----------------------------------------------------------------------------
(* Properties *)

\* A token is never missed though both events of its request came, whichever
\* came first, unless its headers found the map full or the request over.
TokenIsFound ==
  \A r \in Bearer : r \in announced \cap headed => token # None \/ r \in lost

\* A profile that the browser of a killed agent holds does not fail a login: it
\* fails for want of a browser only after it tried the recovery profile, or
\* when it was cancelled or a window spent all of its time starting.
RecoveryIsTried ==
  answer \in {"BROWSER_CONTROL_FAILED", "BROWSER_START_FAILED"} /\ profile = "main"
    => visible /\ Dead
=============================================================================

----------------------------------- MODULE Web -----------------------------------
(***************************************************************************)
(* The HTTP application as a browser sees it (src/app.rs, src/i18n.rs):    *)
(* the routes with their methods and layers, basic authentication and the  *)
(* demo mode, the language of each answer, the language switch with its    *)
(* cookie and its redirect, and the rate limiter of the public routes,     *)
(* which other clients use meanwhile.                                      *)
(*                                                                         *)
(* Routes that differ only in what their handler does are one: `page' is   *)
(* every address that shows a page and takes no form, `both' one that      *)
(* does both, `change' one that only takes a form.                         *)
(***************************************************************************)
EXTENDS RateLimiter

CONSTANT Here   \* the address of the browser

ASSUME WebAssumption == Here \in IP

Absent == "absent"

Lang == {"de", "en"}

\* build_router: the methods of each route.
Methods ==
  [page |-> {"GET"}, both |-> {"GET", "POST"}, change |-> {"POST"}, public |-> {"GET"}]

Route == DOMAIN Methods
Admin == Route \ {"public"}

\* What the address names is gone, or something has failed: answers with a text.
Failed == {404, 500}

VARIABLES demo_mode,   \* KEHRKRAFT_DEMO_MODE
          signedIn,    \* the browser sends the right credentials
          accept,      \* the language of its Accept-Language that we support, or none
          cookie,      \* its `lang' cookie, or none
          shown,       \* the answer it shows: route and method, status and language
          location     \* the address it is being redirected to, or none

browserVars == <<demo_mode, signedIn, accept, cookie, shown, location>>
webVars == <<limiterVars, browserVars>>

NothingShown == [route |-> "page", method |-> "GET", status |-> 0, lang |-> Absent,
                 banner |-> FALSE]

WebTypeOK ==
  /\ LimiterTypeOK
  /\ demo_mode \in BOOLEAN /\ signedIn \in BOOLEAN
  /\ accept \in Lang \cup {Absent} /\ cookie \in Lang \cup {Absent}
  /\ shown \in [route : Route, method : {"GET", "POST"},
                status : {0, 200, 400, 401, 405, 429} \cup Failed, lang : Lang \cup {Absent},
                banner : BOOLEAN]
  /\ location \in Route \cup {Absent}

WebInit ==
  /\ LimiterInit
  /\ demo_mode \in BOOLEAN /\ signedIn \in BOOLEAN
  /\ accept \in Lang \cup {Absent}
  /\ cookie = Absent
  /\ shown = NothingShown
  /\ location = Absent

-----------------------------------------------------------------------------
\* Mutant: the browser's preference is asked first.
NegotiateBrowserFirst(chosen, preferred) ==
  IF preferred # Absent THEN preferred ELSE IF chosen # Absent THEN chosen ELSE "de"

negotiate(chosen, preferred) ==
  IF chosen # Absent THEN chosen ELSE IF preferred # Absent THEN preferred ELSE "de"

\* require_basic_auth, which demo mode leaves out.
MayEnter == demo_mode \/ signedIn

\* demo_banner puts its banner on the full pages, which error texts, the PDF and
\* the feed are not.
Shows(r, method, status) ==
  shown' = [route |-> r, method |-> method, status |-> status,
            lang |-> IF status \in {200, 400} THEN negotiate(cookie, accept) ELSE Absent,
            banner |-> demo_mode /\ r \in Admin /\ status \in {200, 400}]

\* A GET of an admin address.  The layers stand around the methods of a route too:
\* without credentials nobody learns which ones it has.  One address that takes a
\* form sends a GET on to a page (apartments_index_redirect).
GetAdmin(r) ==
  /\ \/ /\ \E status \in IF ~ MayEnter THEN {401}
                         ELSE IF "GET" \notin Methods[r] THEN {405} ELSE {200} \cup Failed :
             Shows(r, "GET", status)
        /\ location' = Absent
     \/ MayEnter /\ r = "both" /\ location' = "page" /\ UNCHANGED shown
  /\ UNCHANGED <<demo_mode, signedIn, accept, cookie, limiterVars>>

\* The PDF or the feed, in the language of the request.
GetPublic(n) ==
  /\ rate_limit(Here, n)
  /\ \E status \in IF Passes(Here, n) THEN {200} \cup Failed ELSE {429} :
       Shows("public", "GET", status)
  /\ location' = Absent
  /\ UNCHANGED <<demo_mode, signedIn, accept, cookie>>

\* The browser follows its redirect, or the user a link, a bookmark or an entry of
\* the address line.
Visit ==
  \/ \E r \in Admin : (location = Absent \/ location = r) /\ GetAdmin(r)
  \/ \E n \in {0, 1} : location \in {Absent, "public"} /\ GetPublic(n)

\* A page that answers a form: with its message if it is refused, and at some
\* addresses that take nothing but a form with a question or a warning first.
Answers(r) == IF r = "change" THEN {200, 400} ELSE {400}

\* Mutant: an accepted form redirects to its own address.
ItsOwnAddress(r) == {r}

\* Where an accepted form redirects to: people_update to its own address, the others
\* to a page that takes no form.
Destinations(r) == IF r = "both" THEN {"page", "both"} ELSE {"page"}

\* A form of a page.  Accepted, it redirects; otherwise the answer is shown at the
\* address that the form was sent to.
Submit ==
  /\ location = Absent /\ shown.status \in {200, 400} /\ shown.route \in Admin
  /\ \E r \in {r \in Admin : "POST" \in Methods[r]} :
       \/ MayEnter /\ location' \in Destinations(r) /\ UNCHANGED shown
       \/ /\ \E status \in IF MayEnter THEN Answers(r) \cup Failed ELSE {401} :
               Shows(r, "POST", status)
          /\ UNCHANGED location
  /\ UNCHANGED <<demo_mode, signedIn, accept, cookie, limiterVars>>

\* The path of the Referer; without one, /admin.
language_redirect_target(referer) == IF referer = Absent THEN "page" ELSE referer

\* The links of base.html, which is on every full page of the admin area; a
\* browser may keep the Referer to itself.
language_switch(lang) ==
  /\ location = Absent /\ shown.status \in {200, 400} /\ shown.route \in Admin
  /\ IF MayEnter
       THEN /\ cookie' = lang
            /\ \E referer \in {shown.route, Absent} : location' = language_redirect_target(referer)
            /\ UNCHANGED shown
       ELSE /\ Shows("page", "GET", 401)
            /\ UNCHANGED <<cookie, location>>
  /\ UNCHANGED <<demo_mode, signedIn, accept, limiterVars>>

\* The browser is given the credentials, or forgets them.
SignIn == signedIn' = ~ signedIn /\ UNCHANGED <<demo_mode, accept, cookie, shown, location, limiterVars>>

OtherClient == \E ip \in IP \ {Here}, n \in {0, 1} : rate_limit(ip, n) /\ UNCHANGED browserVars

WebNext ==
  \/ Visit \/ Submit \/ (\E lang \in Lang : language_switch(lang)) \/ SignIn
  \/ OtherClient
  \/ ClockTick /\ UNCHANGED browserVars

WebSpec == WebInit /\ [][WebNext]_webVars

-----------------------------------------------------------------------------
(* Properties *)

\* negotiate and the cookie: a language once chosen wins, on every page, PDF and
\* feed shown since, over what the browser prefers; the first of them is the page
\* that the switch redirects to.
ShownInChosenLanguage ==
  shown.lang # Absent /\ cookie # Absent /\ location = Absent => shown.lang = cookie

\* language_redirect_target, "the page to return to after a language switch": no
\* redirect ends in `Method Not Allowed', except when the language is switched on a
\* page that answers a form, a refusal, a question or a warning, and whose address
\* takes no GET.  Then it always leads back there.
RedirectsArrive ==
  [][location # Absent /\ location' = Absent /\ shown'.status = 405 =>
       /\ shown.method = "POST" /\ shown.status \in {200, 400}
       /\ location = shown.route /\ "GET" \notin Methods[shown.route]]_webVars
=============================================================================

---------------------------- MODULE InstagramLink ----------------------------
(***************************************************************************)
(* An owner links an Instagram account to a store (owner-app                 *)
(* api/instagram/oauth/start and callback): the store, the account's name as  *)
(* the owner typed it and a nonce go with the browser in a cookie, the owner  *)
(* consents at Meta with whatever account is signed in there, and the callback *)
(* exchanges the code and writes the link of the store.                      *)
(*                                                                         *)
(* Tabs share the cookie and the session, which may be changed meanwhile; a    *)
(* callback takes three calls to Meta, and its page may be loaded again.      *)
(***************************************************************************)
EXTENDS Integers, FiniteSets

CONSTANTS
  Tabs, Stores, None,
  Names,         \* account names: what Meta calls an account
  Typed,         \* what an owner may type: a name and the way it is written
  MaxStarts,     \* bound: flows started
  MaxSwitches,   \* bound: changes of the session, and cookies that expire
  MaxCallbacks   \* bound: callbacks requested

(* What store_channel_links holds of a store.                                *)
Links == [account : Names, requested : Names \cup {None}, linked : Names \cup {None}]

LinkAssumption ==
  /\ None \notin Stores \cup Names \cup Links
  /\ Typed \subseteq [name : Names, way : {"bare", "at", "profile", "post", "words"}]
  /\ MaxStarts \in Nat /\ MaxSwitches \in Nat /\ MaxCallbacks \in Nat

Flows == 1 .. MaxStarts
Calls == 1 .. MaxCallbacks

VARIABLES
  session, cookie,  \* the store signed in with; the state cookie
  tab, call,        \* the tabs, and the callbacks that the server works on
  links,            \* store_channel_links
  switches,         \* how often the session has changed
  started, spent    \* history: what each flow was started for; Meta: codes used

linkVars == <<session, switches, cookie, tab, call, links, started, spent>>

NoFlow == [nonce |-> 0, store |-> None, typed |-> None]
NoTab == [at |-> "panel", flow |-> 0, account |-> None, call |-> 0, flag |-> "none"]
NoCall == [at |-> "none", state |-> 0, account |-> None, binding |-> NoFlow,
           store |-> None, result |-> "none"]

Init ==
  /\ session \in Stores /\ switches = 0 /\ cookie = NoFlow
  /\ tab = [t \in Tabs |-> NoTab] /\ call = [c \in Calls |-> NoCall]
  /\ links = [s \in Stores |-> None]
  /\ started = [n \in Flows |-> NoFlow] /\ spent = {}
-------------------------------------------------------------------------------
(* A link or a name that is written in a way that names no account is none.   *)
Normalized(typed) ==
  IF typed = None \/ typed.way \in {"post", "words"} THEN None ELSE typed.name

\* Plausible bug: no answer is taken for another account.
Unequal(requested, linked) == requested # linked
Mismatch(requested, linked) ==
  requested # None /\ linked # None /\ requested # linked

-------------------------------------------------------------------------------
(* The browser.                                                            *)

FreeFlow(n) == started[n].store = None /\ \A m \in Flows : m < n => started[m].store # None

(* The nonce is new; the cookie is replaced, whatever tab it was for.        *)
StartConnect(t) == \E n \in Flows, typed \in Typed \cup {None} :
  /\ tab[t].at \in {"panel", "result"} /\ session # None /\ FreeFlow(n)
  /\ cookie' = [nonce |-> n, store |-> session, typed |-> typed]
  /\ started' = [started EXCEPT ![n] = cookie']
  /\ tab' = [tab EXCEPT ![t] = [NoTab EXCEPT !.at = "meta", !.flow = n]]
  /\ UNCHANGED <<session, switches, call, links, spent>>

(* No session: back to the entry.  Credentials or keys missing: an error.      *)
StartRefused(t) ==
  /\ tab[t].at \in {"panel", "result"}
  /\ tab' = [tab EXCEPT ![t] = [NoTab EXCEPT !.at = "result",
               !.flag = IF session = None THEN "entry" ELSE "error"]]
  /\ UNCHANGED <<session, switches, cookie, call, links, started, spent>>

FreeCall(c) == call[c].at = "none" /\ \A d \in Calls : d < c => call[d].at # "none"
Calling(t, c) ==
  [tab EXCEPT ![t].at = "calling", ![t].call = c]

(* Meta sends the browser back with a code for the account signed in there.   *)
Consent(t) == \E c \in Calls, a \in Names :
  /\ tab[t].at = "meta" /\ FreeCall(c)
  /\ tab' = [Calling(t, c) EXCEPT ![t].account = a]
  /\ call' = [call EXCEPT ![c] =
       [NoCall EXCEPT !.at = "arrived", !.state = tab[t].flow, !.account = a]]
  /\ UNCHANGED <<session, switches, cookie, links, started, spent>>

(* The page is loaded again before it was answered: the same code and state.  *)
CallAgain(t) == \E c \in Calls :
  /\ tab[t].at = "calling" /\ FreeCall(c)
  /\ tab' = Calling(t, c)
  /\ call' = [call EXCEPT ![c] =
       [NoCall EXCEPT !.at = "arrived", !.state = tab[t].flow, !.account = tab[t].account]]
  /\ UNCHANGED <<session, switches, cookie, links, started, spent>>

(* Another tab signs out or in.                                             *)
Switch ==
  /\ switches < MaxSwitches /\ switches' = switches + 1
  /\ session' \in (Stores \cup {None}) \ {session}
  /\ UNCHANGED <<cookie, tab, call, links, started, spent>>

(* Each redirect expires the cookie, be it this flow's or a later one's.       *)
Return(t) == \E c \in Calls :
  /\ tab[t].at = "calling" /\ c = tab[t].call /\ call[c].at = "answered"
  /\ cookie' = IF call[c].result = "none" THEN cookie ELSE NoFlow
  /\ tab' = [tab EXCEPT ![t] = [NoTab EXCEPT !.at = "result", !.flag = call[c].result,
               !.flow = tab[t].flow, !.account = tab[t].account]]
  /\ UNCHANGED <<session, switches, call, links, started, spent>>

(* The cookie lives for ten minutes.                                        *)
Expire ==
  /\ switches < MaxSwitches /\ switches' = switches + 1
  /\ cookie # NoFlow /\ cookie' = NoFlow
  /\ UNCHANGED <<session, tab, call, links, started, spent>>
-------------------------------------------------------------------------------
(* The callback.                                                           *)

\* Plausible bug: any cookie will do.
AnyBinding(state, binding) == binding.store # None /\ binding.store = session
IsValid(state, binding) ==
  binding.store # None /\ state = binding.nonce /\ binding.store = session

Answers(c, result) == [call EXCEPT ![c].at = "answered", ![c].result = result]

Arrive(c) ==
  /\ call[c].at = "arrived"
  /\ call' = IF session # None /\ IsValid(call[c].state, cookie)
             THEN [call EXCEPT ![c].at = "valid", ![c].binding = cookie, ![c].store = session]
             ELSE Answers(c, IF session = None THEN "entry" ELSE "error")
  /\ UNCHANGED <<session, switches, cookie, tab, links, started, spent>>

(* A code is good once; an account may be a personal one; any of the three     *)
(* calls may fail.                                                         *)
Exchange(c) ==
  /\ call[c].at = "valid"
  /\ \/ call' = Answers(c, "error") /\ spent' \in {spent, spent \cup {call[c].state}}
     \/ /\ call[c].state \notin spent /\ spent' = spent \cup {call[c].state}
        /\ \/ call' = [call EXCEPT ![c].at = "linked"]
           \/ call' = Answers(c, "needs_professional_account")
  /\ UNCHANGED <<session, switches, cookie, tab, links, started>>

\* Plausible bug: the store that is signed in by now.
StoreNow(c) == IF session = None THEN call[c].store ELSE session
StoreOf(c) == call[c].store

(* Meta may leave the name out.                                            *)
UpsertLink(c) == \E linked \in {call[c].account, None} :
  /\ call[c].at = "linked"
  /\ LET requested == Normalized(call[c].binding.typed) IN
     /\ links' = [links EXCEPT ![StoreOf(c)] =
          [account |-> call[c].account, requested |-> requested, linked |-> linked]]
     /\ call' = Answers(c, IF Mismatch(requested, linked)
                           THEN "connected_other_account" ELSE "connected")
  /\ UNCHANGED <<session, switches, cookie, tab, started, spent>>

(* The server fails: an answer that is no page of the app.                   *)
Break(c) ==
  /\ call[c].at \in {"arrived", "valid", "linked"}
  /\ call' = Answers(c, "none")
  /\ UNCHANGED <<session, switches, cookie, tab, links, started, spent>>

Next ==
  \/ Switch \/ Expire
  \/ \E t \in Tabs : StartConnect(t) \/ StartRefused(t) \/ Consent(t) \/ CallAgain(t)
                     \/ Return(t)
  \/ \E c \in Calls : Arrive(c) \/ Exchange(c) \/ UpsertLink(c) \/ Break(c)

Spec == Init /\ [][Next]_linkVars
-------------------------------------------------------------------------------
(* Properties.                                                             *)

Results == {"none", "entry", "error", "needs_professional_account", "connected",
            "connected_other_account"}

(* Type invariant.                                                         *)
TypeOK ==
  /\ session \in Stores \cup {None} /\ cookie.store \in Stores \cup {None}
  /\ \A t \in Tabs : tab[t].at \in {"panel", "meta", "calling", "result"}
                     /\ tab[t].flag \in Results
  /\ \A c \in Calls : call[c].result \in Results
                      /\ call[c].at \in {"none", "arrived", "valid", "linked", "answered"}
  /\ spent \subseteq Flows

(* A link is that of one flow: the store it was started for, the name that was *)
(* typed for it, and the account that consented in it.                       *)
IsOf(s, c) ==
  LET flow == started[call[c].state] IN
  /\ flow.store = s /\ links[s].account = call[c].account
  /\ links[s].requested = Normalized(flow.typed)
LinkIsOfOneFlow ==
  \A s \in Stores : links[s] # None =>
    \E c \in Calls : /\ call[c].result \in {"connected", "connected_other_account"}
                     /\ IsOf(s, c)

(* An owner who is told of a success has a link of the store the flow was      *)
(* begun with; told of another account, has named one and got another.        *)
Told(t) == tab[t].at = "result" /\ tab[t].flag \in {"connected", "connected_other_account"}
SuccessIsTrue ==
  \A t \in Tabs : Told(t) =>
    LET flow == started[tab[t].flow] IN
    /\ links[flow.store] # None
    /\ tab[t].flag = "connected_other_account" =>
         Normalized(flow.typed) \notin {None, tab[t].account}

(* A flow links once, however often its page is loaded.                      *)
LinksOnce ==
  \A c, d \in Calls : c # d /\ call[c].state = call[d].state =>
    {call[c].at, call[d].at} # {"linked"}
    /\ ~({call[c].result, call[d].result} \subseteq {"connected", "connected_other_account"})

LinkIsSound == LinkIsOfOneFlow /\ SuccessIsTrue /\ LinksOnce
===============================================================================

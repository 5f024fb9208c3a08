---------------------------------- MODULE SignIn ----------------------------------
(***************************************************************************)
(* How a user comes to a session (routers/auth.py, oidc.py) and how a       *)
(* session, a bearer token or an API key lets a request in (auth.py).       *)
(*                                                                          *)
(* A sign-in is a walk through the identity provider and back: the login    *)
(* leaves a state in Redis for ten minutes, the callback finds it, deletes  *)
(* it, exchanges its code for an id_token and verifies that with the        *)
(* provider's signing keys.  The keys are cached, for an hour for id_tokens *)
(* and for ever for bearer tokens, while the provider replaces and          *)
(* withdraws them; an id_token may or may not name its key (kid).           *)
(*                                                                          *)
(* An organisation is made by the user or from the command line, and        *)
(* deleted from the command line (cli.py) under the sessions that name it.  *)
(*                                                                          *)
(* One user with several browsers, each with one login at a time, whose     *)
(* callback may be repeated; nonces, PKCE, claims, roles, rate limits, CSRF *)
(* tokens and the expiry of tokens are left out.                            *)
(***************************************************************************)
EXTENDS Integers

CONSTANTS
  Browsers,
  MaxSigning, \* bound on the signing keys ever made
  MaxOrgs,    \* bound on the organisations ever made for the user
  MaxCrashes  \* bound on crashes of the API

ASSUME SignInAssumption ==
  MaxSigning \in Nat \ {0} /\ MaxOrgs \in Nat /\ MaxCrashes \in Nat

SigningKeys == 1 .. MaxSigning

\* What the cookie of a browser may say: nothing, signed in without an organisation, or one
\* of the organisations.
NoSession  == -1
Onboarding == 0

\* An id_token: the key that signed it (0: there is no token), and whether it names that key.
IdTokens  == [key : 0 .. MaxSigning, kid : BOOLEAN]
NoIdToken == [key |-> 0, kid |-> FALSE]

VARIABLES
  signing, published, \* the signing key of the identity provider, and those in its JWKS
  jwks,     \* the signing keys in oidc._jwks_cache, {} when there is none or it is too old
  bearer,   \* the signing keys in auth._jwks_cache
  states,   \* browsers whose login has a state in Redis
  passed,   \* browsers of which some callback has found the state and not yet deleted it
  callback, \* [Browsers -> the id_token that is verified, or NoIdToken]
  made,     \* how many organisations were made for the user: their ids are 1 .. made
  orgs,     \* those that exist; the user is a member of each
  keyed,    \* those with an API key that is not revoked
  known,    \* whether users.keycloak_sub is the user's
  session,  \* [Browsers -> NoSession, Onboarding or an organisation]
  crashes

provider == <<signing, published>>
logins   == <<states, passed>>
users    == <<made, orgs, keyed, known, session>>

signInVars == <<provider, jwks, bearer, logins, callback, users, crashes>>

--------------------------------------------------------------------------------
(* The identity provider                                                      *)

NewSigningKey ==
  /\ signing < MaxSigning
  /\ signing' = signing + 1
  /\ published' = published \cup {signing + 1}
  /\ UNCHANGED <<jwks, bearer, logins, callback, users, crashes>>

WithdrawKeys ==
  /\ published' = {signing}
  /\ UNCHANGED <<signing, jwks, bearer, logins, callback, users, crashes>>

--------------------------------------------------------------------------------
(* Sign-in                                                                    *)

\* One login at a time: no callback of the last one is about to delete the state.
Login(b) ==
  /\ b \notin passed
  /\ states' = states \cup {b}
  /\ UNCHANGED <<provider, jwks, bearer, passed, callback, users, crashes>>

\* The provider reports an error or nothing, or ten minutes pass.
Abandon(b) ==
  /\ b \in states
  /\ states' = states \ {b}
  /\ UNCHANGED <<provider, jwks, bearer, passed, callback, users, crashes>>

\* GET: a state that is found lets the callback on, and any other that comes before the DELETE.
Callback(b) ==
  /\ b \in states
  /\ passed' = passed \cup {b}
  /\ UNCHANGED <<provider, jwks, bearer, states, callback, users, crashes>>

\* DELETE, and the code is exchanged for an id_token or refused.
Exchange(b) ==
  /\ b \in passed /\ callback[b] = NoIdToken
  /\ states' = states \ {b}
  /\ passed' \in {passed, passed \ {b}} \* another callback may have found the state
  /\ \E t \in [key : {0, signing}, kid : BOOLEAN] :
       (t.key = 0 => t = NoIdToken) /\ callback' = [callback EXCEPT ![b] = t]
  /\ UNCHANGED <<provider, jwks, bearer, users, crashes>>

\* Mutant: force is forgotten.
Unforced(force) == IF jwks # {} THEN jwks ELSE published

\* fetch_jwks: what is cached, unless there is none or it is to be fetched again.
Fetched(force) == IF jwks # {} /\ ~force THEN jwks ELSE published

\* verify_id_token, as far as it depends on the signing keys; the token itself is good.  One
\* that does not name its key is tried with the only key there is.
Verified(t, keys) == IF t.kid THEN t.key \in keys ELSE keys = {t.key}

\* The cookie is signed and set.
SetSession(b, s) == session' = [session EXCEPT ![b] = s]

\* The session a user starts with is for the oldest organisation, if there is one.
Starts(s) == IF orgs = {} THEN s = Onboarding ELSE s \in orgs /\ \A o \in orgs : s <= o

\* A token the cached keys do not verify is looked at once more with new ones.
Verify(b) ==
  /\ callback[b] # NoIdToken
  /\ LET t    == callback[b]
         used == IF Verified(t, Fetched(FALSE)) THEN Fetched(FALSE) ELSE Fetched(TRUE)
     IN /\ jwks' = used
        /\ IF Verified(t, used)
           THEN known' = TRUE /\ \E s \in {Onboarding} \cup orgs : Starts(s) /\ SetSession(b, s)
           ELSE UNCHANGED <<known, session>>
  /\ callback' = [callback EXCEPT ![b] = NoIdToken]
  /\ UNCHANGED <<provider, bearer, logins, made, orgs, keyed, crashes>>

\* The provider or the database is away: the callback ends with an error.
VerifyFails(b) ==
  /\ callback[b] # NoIdToken
  /\ callback' = [callback EXCEPT ![b] = NoIdToken]
  /\ jwks' \in {jwks, published}
  /\ UNCHANGED <<provider, bearer, logins, users, crashes>>

\* An hour after it was fetched.
ExpireJwks ==
  /\ jwks # {} /\ jwks' = {}
  /\ UNCHANGED <<provider, bearer, logins, callback, users, crashes>>

--------------------------------------------------------------------------------
(* Sessions                                                                   *)

\* The organisation with its membership, subscription and default workspace.
NewOrg ==
  /\ made < MaxOrgs
  /\ made' = made + 1
  /\ orgs' = orgs \cup {made + 1}

CreateOrg(b) ==
  /\ session[b] # NoSession
  /\ NewOrg
  /\ SetSession(b, made + 1)
  /\ UNCHANGED <<provider, jwks, bearer, logins, callback, keyed, known, crashes>>

\* Mutant: the membership is not looked up.
Anyone(o) == TRUE

Member(o) == o \in orgs

SwitchOrg(b, o) ==
  /\ session[b] # NoSession /\ Member(o)
  /\ SetSession(b, o)
  /\ UNCHANGED <<provider, jwks, bearer, logins, callback, made, orgs, keyed, known, crashes>>

\* Or the cookie expires.
Logout(b) ==
  /\ SetSession(b, NoSession)
  /\ UNCHANGED <<provider, jwks, bearer, logins, callback, made, orgs, keyed, known, crashes>>

--------------------------------------------------------------------------------
(* Requests                                                                   *)

\* A bearer token: the first one makes the process fetch the provider's keys.
FetchBearerKeys ==
  /\ bearer = {} /\ bearer' = published
  /\ UNCHANGED <<provider, jwks, logins, callback, users, crashes>>

\* current_principal: a request for organisation o is let in by an API key of it, by a cookie
\* that names it, or by a bearer token of any of the cached keys, withdrawn since or not.
Principal(o) ==
  \/ o \in keyed
  \/ Member(o) /\ \E b \in Browsers : session[b] = o
  \/ Member(o) /\ known /\ bearer # {}

CreateKey(o) ==
  /\ Principal(o)
  /\ keyed' = keyed \cup {o}
  /\ UNCHANGED <<provider, jwks, bearer, logins, callback, made, orgs, known, session, crashes>>

\* The last API key of the organisation.
RevokeKey(o) ==
  /\ o \in keyed /\ Principal(o)
  /\ keyed' = keyed \ {o}
  /\ UNCHANGED <<provider, jwks, bearer, logins, callback, made, orgs, known, session, crashes>>

--------------------------------------------------------------------------------
(* The command line                                                           *)

\* For the user's address: an organisation with an API key.
Bootstrap ==
  /\ NewOrg
  /\ keyed' = keyed \cup {made + 1}
  /\ UNCHANGED <<provider, jwks, bearer, logins, callback, known, session, crashes>>

\* Memberships and API keys go with the organisation, cookies stay.
PurgeOrg(o) ==
  /\ o \in orgs
  /\ orgs' = orgs \ {o}
  /\ keyed' = keyed \ {o}
  /\ UNCHANGED <<provider, jwks, bearer, logins, callback, made, known, session, crashes>>

--------------------------------------------------------------------------------
\* The API stops: callbacks end where they are, and what the process has cached is gone.
ApiCrash ==
  /\ crashes < MaxCrashes
  /\ crashes' = crashes + 1
  /\ jwks' = {} /\ bearer' = {} /\ passed' = {}
  /\ callback' = [b \in Browsers |-> NoIdToken]
  /\ UNCHANGED <<provider, states, users>>

SignInInit ==
  /\ signing = 1 /\ published = {1} /\ jwks = {} /\ bearer = {}
  /\ states = {} /\ passed = {} /\ callback = [b \in Browsers |-> NoIdToken]
  /\ made = 0 /\ orgs = {} /\ keyed = {} /\ known = FALSE
  /\ session = [b \in Browsers |-> NoSession]
  /\ crashes = 0

SignInNext ==
  \/ NewSigningKey
  \/ WithdrawKeys
  \/ ExpireJwks
  \/ FetchBearerKeys
  \/ Bootstrap
  \/ \E o \in 1 .. MaxOrgs : CreateKey(o) \/ RevokeKey(o) \/ PurgeOrg(o)
  \/ ApiCrash
  \/ \E b \in Browsers :
       \/ Login(b) \/ Abandon(b) \/ Callback(b) \/ Exchange(b)
       \/ Verify(b) \/ VerifyFails(b)
       \/ CreateOrg(b) \/ Logout(b) \/ \E o \in 1 .. MaxOrgs : SwitchOrg(b, o)

SignInSpec == SignInInit /\ [][SignInNext]_signInVars

--------------------------------------------------------------------------------
(* Properties                                                                 *)

\* Every variable keeps its type; the provider publishes the key it signs with; a session names
\* an organisation the user was made a member of, though it may be gone; and an API key lets no
\* one into an organisation that is gone, or never was.
SignInTypeOK ==
  /\ signing \in SigningKeys /\ published \subseteq 1 .. signing /\ signing \in published
  /\ jwks \subseteq 1 .. signing /\ bearer \subseteq 1 .. signing
  /\ states \subseteq Browsers /\ passed \subseteq Browsers
  /\ callback \in [Browsers -> IdTokens] /\ \A b \in Browsers : callback[b].key <= signing
  /\ made \in 0 .. MaxOrgs /\ orgs \subseteq 1 .. made /\ keyed \subseteq orgs /\ known \in BOOLEAN
  /\ session \in [Browsers -> NoSession .. made]
  /\ crashes \in 0 .. MaxCrashes

\* The published keys are enough for the id_token: its key is among them, and is the only one
\* if the token does not name it.
Genuine(t) == t.key \in published /\ (t.kid \/ published = {t.key})

\* A good id_token is refused only if the identity provider has withdrawn the key it was
\* signed with by the time it is verified, or publishes several and the token names none, never
\* because the cached keys are old (the comment at routers/auth.py:136).
SignInSurvivesRotation ==
  [][\A b \in Browsers : Verify(b) /\ Genuine(callback[b]) => session'[b] # NoSession]_signInVars
================================================================================

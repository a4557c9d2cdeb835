------------------------------ MODULE Enrolment ------------------------------
(***************************************************************************)
(* Enrolling agents: the rows and bearer tokens the server keeps, the      *)
(* one-time install links, the Agents page that reveals a token and asks   *)
(* for its link, and the hosts that run the install command.               *)
(* app/agents/service.py and install_links.py, api/routes/agents.py and    *)
(* agent_install.py, ws_agent.py and frontend/src/routes/AgentsPage.tsx.   *)
(*                                                                         *)
(* Tokens and codes are numbered in the order they are generated; a row    *)
(* holds the token whose hash it stores.                                   *)
(***************************************************************************)
EXTENDS Naturals, Sequences, FiniteSets

CONSTANTS
    Agents,     \* ids an agent can get; each is generated once
    NoAgent,
    Hands,      \* handlers of the page that may be under way at once
    Ttl,        \* LINK_TTL_SECONDS
    MaxTokens, MaxCodes, MaxTime    \* bounds

ASSUME EnrolmentAssumption ==
    /\ NoAgent \notin Agents
    /\ Ttl \in Nat /\ MaxTokens \in Nat /\ MaxCodes \in Nat /\ MaxTime \in Nat

VARIABLES
    row,      \* agents.token_hash; 0: no such row
    owner,    \* owner[t]: the agent token t was generated for
    links,    \* InstallLinkStore._links
    born,     \* born[c]: when code c was generated
    now,      \* time.monotonic()
    hand,     \* the handlers of the page
    dialog,   \* revealedToken and installLink
    listed,   \* the agents the page lists
    copied,   \* install commands copied to the hosts of agents
    config,   \* the token in each host's config.toml; 0: not installed
    served,   \* how often a code gave a script
    crossed   \* was a token revealed while a link of another was on its way?

enrolVars == <<row, owner, links, born, now, hand, dialog, listed, copied, config,
               served, crossed>>

Codes == 1..MaxCodes

Idle == [at |-> "idle", what |-> "none", agent |-> NoAgent, token |-> 0, code |-> 0]
Closed == [agent |-> NoAgent, token |-> 0, code |-> 0]

\* _authenticate(): the agent, if any, that connects with a token.
Authenticated(token) == {a \in Agents : row[a] = token}

EnrolInit ==
    /\ row = [a \in Agents |-> 0]
    /\ owner = << >>
    /\ links = << >>
    /\ born = << >>
    /\ now = 0
    /\ hand = [h \in Hands |-> Idle]
    /\ dialog = Closed
    /\ listed = {}
    /\ copied = {}
    /\ config = [a \in Agents |-> 0]
    /\ served = [c \in Codes |-> 0]
    /\ crossed = FALSE

-----------------------------------------------------------------------------
(* The server *)

serverVars == <<row, owner, links, born, served>>
pageVars == <<dialog, listed, crossed>>
hostVars == <<copied, config>>

Answer(h, r) == hand' = [hand EXCEPT ![h] = r]

\* Not found, or any other error, or the answer is lost: the handler ends with the
\* exception and does not refresh.
Fails(h) ==
    /\ hand[h].at \in {"asked", "answered"} /\ Answer(h, Idle)
    /\ UNCHANGED <<serverVars, pageVars, hostVars, now>>

\* enroll_agent()
Create(h) ==
    /\ hand[h].at = "asked" /\ hand[h].what = "create" /\ Len(owner) < MaxTokens
    /\ \E a \in Agents :
          /\ \A t \in 1..Len(owner) : owner[t] # a
          /\ row' = [row EXCEPT ![a] = Len(owner) + 1]
          /\ owner' = Append(owner, a)
          /\ Answer(h, [hand[h] EXCEPT !.at = "answered", !.agent = a,
                                       !.token = Len(owner) + 1])
    /\ UNCHANGED <<links, born, served, pageVars, hostVars, now>>

\* reissue_token(): a connection made with the old token is only sent a message.
Reissue(h) ==
    /\ hand[h].at = "asked" /\ hand[h].what = "reissue" /\ row[hand[h].agent] # 0
    /\ Len(owner) < MaxTokens
    /\ row' = [row EXCEPT ![hand[h].agent] = Len(owner) + 1]
    /\ owner' = Append(owner, hand[h].agent)
    /\ Answer(h, [hand[h] EXCEPT !.at = "answered", !.token = Len(owner) + 1])
    /\ UNCHANGED <<links, born, served, pageVars, hostVars, now>>

\* The links of a deleted agent stay in the store.
Delete(h) ==
    /\ hand[h].at = "asked" /\ hand[h].what = "delete" /\ row[hand[h].agent] # 0
    /\ row' = [row EXCEPT ![hand[h].agent] = 0]
    /\ Answer(h, [hand[h] EXCEPT !.at = "refreshing"])
    /\ UNCHANGED <<owner, links, born, served, pageVars, hostVars, now>>

Unexpired == {c \in DOMAIN links : now <= links[c].expires}

LinkOf(h) == [agent |-> hand[h].agent, token |-> hand[h].token, expires |-> now + Ttl]

\* create_install_link() believes the token in the request; create() sweeps.
CreateLink(h) ==
    /\ hand[h].at = "linking" /\ row[hand[h].agent] # 0 /\ Len(born) < MaxCodes
    /\ LET code == Len(born) + 1
       IN  /\ links' = [c \in Unexpired \union {code} |->
                          IF c = code THEN LinkOf(h) ELSE links[c]]
           /\ Answer(h, [hand[h] EXCEPT !.at = "linked", !.code = code])
    /\ born' = Append(born, now)
    /\ UNCHANGED <<row, owner, served, pageVars, hostVars, now>>

\* Not found, or the request or its answer is lost: setInstallLinkError() brings the
\* manual command into the dialog.
LinkFails(h) ==
    /\ hand[h].at \in {"linking", "linked"}
    /\ Answer(h, [hand[h] EXCEPT !.at = "refreshing"])
    /\ UNCHANGED <<serverVars, pageVars, hostVars, now>>

\* Wrong variant: looked up, not popped.
ConsumeKept(code) == UNCHANGED links

\* consume() removes the link before it looks at the clock.
Consume(code) == links' = [c \in DOMAIN links \ {code} |-> links[c]]

\* download_install_script(): the script runs on the host unless it is lost on
\* its way or the template is missing; the link is spent either way.
Download(d) ==
    /\ d \in copied
    /\ Consume(d.code)
    /\ IF d.code \in Unexpired
       THEN /\ served' = [served EXCEPT ![d.code] = @ + 1]
            /\ config' \in {config, [config EXCEPT ![d.host] = links[d.code].token]}
       ELSE UNCHANGED <<served, config>>
    /\ UNCHANGED <<row, owner, born, now, hand, pageVars, copied>>

ServerRestart ==
    /\ links # << >>
    /\ links' = << >>
    /\ UNCHANGED <<row, owner, born, served, now, hand, pageVars, hostVars>>

Tick ==
    /\ now < MaxTime
    /\ now' = now + 1
    /\ UNCHANGED <<serverVars, hand, pageVars, hostVars>>

-----------------------------------------------------------------------------
(* The page: handleCreate(), handleReissue(), handleDelete(), reveal() *)

Click(h) ==
    /\ hand[h] = Idle /\ dialog.agent = NoAgent
    /\ \/ Answer(h, [Idle EXCEPT !.at = "asked", !.what = "create"])
       \/ \E what \in {"reissue", "delete"}, a \in listed :
             Answer(h, [Idle EXCEPT !.at = "asked", !.what = what, !.agent = a])
    /\ UNCHANGED <<serverVars, pageVars, hostVars, now>>

\* Wrong variant: setInstallLink(null) is forgotten.
OpenedWithLink(h) == [agent |-> hand[h].agent, token |-> hand[h].token, code |-> dialog.code]

Opened(h) == [agent |-> hand[h].agent, token |-> hand[h].token, code |-> 0]

\* reveal() up to the request for a link.
Reveal(h) ==
    /\ hand[h].at = "answered"
    /\ dialog' = Opened(h)
    /\ crossed' = (crossed \/ \E g \in Hands : hand[g].at \in {"linking", "linked"})
    /\ Answer(h, [hand[h] EXCEPT !.at = "linking"])
    /\ UNCHANGED <<serverVars, listed, hostVars, now>>

\* setInstallLink(), whatever dialog is open by now.
LinkShown(h) ==
    /\ hand[h].at = "linked"
    /\ dialog' = [dialog EXCEPT !.code = hand[h].code]
    /\ Answer(h, [hand[h] EXCEPT !.at = "refreshing"])
    /\ UNCHANGED <<serverVars, listed, crossed, hostVars, now>>

\* refresh()
Refresh(h) ==
    /\ hand[h].at = "refreshing"
    /\ listed' = {a \in Agents : row[a] # 0}
    /\ Answer(h, Idle)
    /\ UNCHANGED <<serverVars, dialog, crossed, hostVars, now>>

CloseDialog ==
    /\ dialog.agent # NoAgent
    /\ dialog' = Closed
    /\ UNCHANGED <<serverVars, hand, listed, crossed, hostVars, now>>

(* The hosts *)

\* The command is pasted on the host the dialog is about, now or later.
CopyCommand ==
    /\ dialog.agent # NoAgent /\ dialog.code # 0
    /\ copied' = copied \union {[host |-> dialog.agent, code |-> dialog.code]}
    /\ UNCHANGED <<serverVars, hand, pageVars, config, now>>

\* The manual command of a failed link, or the bare token edited into the file.
InstallByHand ==
    /\ dialog.agent # NoAgent
    /\ config' = [config EXCEPT ![dialog.agent] = dialog.token]
    /\ UNCHANGED <<serverVars, hand, pageVars, copied, now>>

-----------------------------------------------------------------------------

EnrolNext ==
    \/ \E h \in Hands :
          \/ Fails(h) \/ Create(h) \/ Reissue(h) \/ Delete(h) \/ CreateLink(h) \/ LinkFails(h)
          \/ Click(h) \/ Reveal(h) \/ LinkShown(h) \/ Refresh(h)
    \/ \E d \in copied : Download(d)
    \/ ServerRestart \/ Tick \/ CloseDialog \/ CopyCommand \/ InstallByHand

EnrolSpec == EnrolInit /\ [][EnrolNext]_enrolVars

-----------------------------------------------------------------------------

Stages == {"idle", "asked", "answered", "linking", "linked", "refreshing"}

HandType == [at : Stages, what : {"none", "create", "reissue", "delete"},
             agent : Agents \union {NoAgent}, token : Nat, code : Nat]

\* No number is used before it was generated.
Generated ==
    /\ \A a \in Agents : row[a] <= Len(owner) /\ config[a] <= Len(owner)
    /\ \A h \in Hands : hand[h].token <= Len(owner) /\ hand[h].code <= Len(born)
    /\ dialog.token <= Len(owner) /\ dialog.code <= Len(born)
    /\ \A d \in copied : d.code <= Len(born)
    /\ \A c \in DOMAIN links :
          c \in 1..Len(born) /\ links[c].token \in 1..Len(owner)

DialogType == [agent : Agents \union {NoAgent}, token : Nat, code : Nat]

EnrolTypeOK ==
    /\ row \in [Agents -> Nat] /\ config \in [Agents -> Nat]
    /\ owner \in Seq(Agents) /\ born \in Seq(Nat) /\ now \in Nat
    /\ \A c \in DOMAIN links : links[c] \in [agent : Agents, token : Nat, expires : Nat]
    /\ hand \in [Hands -> HandType] /\ dialog \in DialogType
    /\ listed \subseteq Agents /\ copied \subseteq [host : Agents, code : Nat]
    /\ served \in [Codes -> Nat] /\ crossed \in BOOLEAN
    /\ Generated

\* "This install link has already been used or has expired": however often, from
\* wherever and whenever a command is run, its code gives one script at most and
\* none when its time is over, also across sweeps and restarts
\* (install_links.py 45-53, agent_install.py 30-34).
LinkServedOnce ==
    [][\A c \in Codes : served'[c] # served[c] =>
          served[c] = 0 /\ served'[c] = 1 /\ now - born[c] <= Ttl]_enrolVars

\* What a host was given with its dialog's command authenticates as the agent the
\* dialog was about or, when the token was replaced or the agent removed since, as
\* nobody - however late the link was made or used, and whichever handlers of the
\* page overlap, as long as no token is revealed while another's link is still
\* being made (ws_agent.py 59-67, AgentsPage.tsx 161-207).
HostIsItself ==
    \A a \in Agents :
       /\ ~crossed => Authenticated(config[a]) \ {b \in Agents : row[b] = 0} \subseteq {a}
       /\ config[a] # 0 /\ row[a] # 0 /\ owner[config[a]] = a => config[a] <= row[a]

(* What a comment says and the code does not keep *)

\* The token of a dialog "has to be handed back for the one-time install link to
\* embed it" (AgentsPage.tsx 167-169): the link a dialog shows embeds its token.
LinkEmbedsTheToken ==
    dialog.agent # NoAgent /\ dialog.code \in DOMAIN links =>
        links[dialog.code].token = dialog.token
=============================================================================

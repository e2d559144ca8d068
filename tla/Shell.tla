-------------------------------- MODULE Shell --------------------------------
(***************************************************************************)
(* The shell loop of main.c and the two commands that wait for the network *)
(* (`host' and `curl'), composed with the HTTP client, the TCP pcbs and    *)
(* the resolver's promise.  While a command waits, and while getline waits *)
(* for a line, lwip_poll runs the callbacks; nothing else does, so each    *)
(* step below is one handler.  Other commands touch none of this state.    *)
(***************************************************************************)
EXTENDS HttpClient

CONSTANT MaxPolls   \* iterations of the wait loop of `host' (2000000)

ASSUME ShellAssumption == MaxPolls \in Nat /\ "dns_callback" \in Callbacks

VARIABLES
    cmd,       \* "prompt", "host" or "curl"
    polls,     \* timeout in the `host' command
    resolved,  \* dns_resolved
    ip,        \* resolved_ip: the name it is an address of, or Null for 0.0.0.0
    asked,     \* domain: the name of the last `host' command
    shown,     \* what that command printed: "none", "timeout", "error" or the address
    timedOut   \* history: some `host' command gave up waiting

shellVars == <<cmd, polls, resolved, ip, asked, shown, timedOut>>
allVars == <<vars, shellVars>>

ShellInit ==
    /\ Init
    /\ cmd = "prompt" /\ polls = 0
    /\ resolved = FALSE /\ ip = Null
    /\ asked = Null /\ shown = [kind |-> "none"]
    /\ timedOut = FALSE

IP(n) == [kind |-> "IP", ip |-> n]
Said(k) == [kind |-> k]

------------------------------------------------------------------------------
\* `host n': the resolver answers at once, is to call back, or fails.
\* Mutant: dns_resolved is not reset before the wait.
NotCleared == UNCHANGED resolved
ClearResolved == resolved' = FALSE

HostCommand(n) ==
    /\ cmd = "prompt"
    /\ asked' = n
    /\ \/ /\ Resolver!Accept("dns_callback", n)
          /\ ClearResolved
          /\ cmd' = "host" /\ polls' = 0 /\ shown' = Said("none")
       \/ /\ Resolver!Refuse("dns_callback", n)
          /\ shown' = IF out'.err = "OK" THEN IP(out'.ans) ELSE Said("error")
          /\ UNCHANGED <<cmd, polls, resolved>>
    /\ UNCHANGED <<ip, timedOut, clientVars>>

\* One more turn of the wait loop.
HostPoll ==
    /\ cmd = "host" /\ ~resolved /\ polls < MaxPolls
    /\ polls' = polls + 1
    /\ UNCHANGED <<cmd, resolved, ip, asked, shown, timedOut, vars>>

\* The loop ends, and the command prints what it found.
HostDone ==
    /\ cmd = "host" /\ (resolved \/ polls = MaxPolls)
    /\ cmd' = "prompt"
    /\ shown' = IF ~resolved THEN Said("timeout")
                ELSE IF ip # Null THEN IP(ip) ELSE Said("failed")
    /\ timedOut' = (timedOut \/ ~resolved)
    /\ UNCHANGED <<polls, resolved, ip, asked, vars>>

\* `curl n', a turn of its loop on http_is_busy, and the end of the loop.
CurlCommand(n) ==
    /\ cmd = "prompt"
    /\ http_get(n)
    /\ cmd' = "curl"
    /\ UNCHANGED <<polls, resolved, ip, asked, shown, timedOut>>

CurlPoll == cmd = "curl" /\ http_is_busy /\ UNCHANGED allVars

CurlDone ==
    /\ cmd = "curl" /\ ~http_is_busy
    /\ cmd' = "prompt"
    /\ UNCHANGED <<polls, resolved, ip, asked, shown, timedOut, vars>>

\* The resolver calls back: http_dns_cb, dns_callback or both.
Callback(n) ==
    /\ ResolverCalls(n)
    /\ IF out'.to["dns_callback"] > 0
       THEN resolved' = TRUE /\ ip' = out'.ans
       ELSE UNCHANGED <<resolved, ip>>
    /\ UNCHANGED <<cmd, polls, asked, shown, timedOut>>

Poll == TcpStep /\ Resolver!Work /\ UNCHANGED shellVars

ShellNext ==
    \/ \E n \in Names : HostCommand(n) \/ CurlCommand(n) \/ Callback(n)
    \/ HostPoll \/ HostDone \/ CurlPoll \/ CurlDone \/ Poll

ShellSpec == ShellInit /\ [][ShellNext]_allVars

\* main runs for ever, and a command that waits goes on waiting in a loop that
\* polls: the timers run and the resolver keeps its promise.  Memory for a FIN
\* is not refused for ever, and a server ends the connections it answered on.
ShellFairSpec ==
    /\ ShellSpec
    /\ WF_allVars(HostPoll) /\ WF_allVars(HostDone) /\ WF_allVars(CurlDone)
    /\ \A n \in Names : WF_allVars(Callback(n))
    /\ \A p \in Pcbs : /\ WF_allVars(SlowTmr(p) /\ Resolver!Work /\ UNCHANGED shellVars)
                       /\ SF_allVars(/\ FastTmr(p) /\ ~pcbs'[p].closepend
                                     /\ Resolver!Work /\ UNCHANGED shellVars)
                       /\ WF_allVars(/\ In(p, {"ESTABLISHED"}) /\ ServerEnds(p)
                                     /\ UNCHANGED shellVars)

------------------------------------------------------------------------------
ShellTypeOK ==
    /\ TypeOK
    /\ cmd \in {"prompt", "host", "curl"} /\ polls \in 0..MaxPolls
    /\ resolved \in BOOLEAN /\ ip \in Names \cup {Null} /\ asked \in Names \cup {Null}
    /\ shown \in {Said(k) : k \in {"none", "timeout", "error", "failed"}}
                  \cup {IP(n) : n \in Names}
    /\ timedOut \in BOOLEAN

\* Until some `host' command has given up waiting, the address that `host'
\* prints is an address of the name it was given.
HostAnswersUnlessTimedOut == ~timedOut /\ shown.kind = "IP" => shown.ip = asked

\* The address that `host' prints is an address of the name it was given.
HostAnswersAsked == shown.kind = "IP" => shown.ip = asked

\* The prompt never comes back while the client is busy: `curl' is never
\* refused with "Client is already busy", and only one command waits at a time.
PromptMeansIdle == cmd # "curl" => ~busy

\* The three invariants of the shell with those of the HTTP client, in the
\* sequences of calls that the shell really makes.
ShellSound ==
    /\ ShellTypeOK /\ HostAnswersUnlessTimedOut /\ PromptMeansIdle
    /\ BusyMeansPending /\ CallbacksOwned

\* Every command comes back to the prompt.
CommandEnds == cmd # "prompt" ~> cmd = "prompt"
==============================================================================

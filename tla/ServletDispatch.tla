-------------------------- MODULE ServletDispatch --------------------------
(***************************************************************************)
(* ServletDispatch (htttp/servlet.h, htttp/servlet.cc): the servlets by    *)
(* exact name and by pattern, and the one that getMatchedServlet() finds   *)
(* for the path of a request.  Every call holds m_mutex from beginning to  *)
(* end, so each is one step, whichever thread makes it.                    *)
(***************************************************************************)
EXTENDS Integers, Sequences, FiniteSetsExt, SequencesExt

CONSTANTS
    Uris,         \* the paths of requests, and the exact names
    Patterns,
    Fnmatch,      \* the pairs <<pattern, path>> that fnmatch() accepts
    Servlets,
    m_default,
    NoServlet,    \* nullptr
    MaxCalls      \* bound: the calls that change the tables

ASSUME DispatchConstants ==
    /\ Fnmatch \subseteq Patterns \X Uris
    /\ NoServlet \notin Servlets /\ m_default \notin Servlets
    /\ MaxCalls \in Nat

VARIABLES
    m_datas,      \* the servlet of each exact name
    m_globs,      \* the sequence of [pattern, servlet]
    calls         \* history: the calls that were made

dispatchVars == <<m_datas, m_globs, calls>>

DispatchInit ==
    /\ m_datas = [uri \in Uris |-> NoServlet]
    /\ m_globs = <<>>
    /\ calls = <<>>

Called(table, name, slt) ==
    /\ Len(calls) < MaxCalls
    /\ calls' = Append(calls, [table |-> table, name |-> name, servlet |-> slt])
-----------------------------------------------------------------------------
AddServlet(uri, slt) ==
    /\ Called("exact", uri, slt)
    /\ m_datas' = [m_datas EXCEPT ![uri] = slt]
    /\ UNCHANGED m_globs

DelServlet(uri) ==
    /\ Called("exact", uri, NoServlet)
    /\ m_datas' = [m_datas EXCEPT ![uri] = NoServlet]
    /\ UNCHANGED m_globs

\* The loop that erases the first entry of a pattern.
Without(globs, pattern) ==
    LET at == {i \in DOMAIN globs : globs[i].pattern = pattern}
    IN  IF at = {} THEN globs ELSE RemoveAt(globs, Min(at))

\* Faulty variant: an earlier entry of the pattern stays.
AddGlobServletTwice(pattern, slt) ==
    /\ Called("glob", pattern, slt)
    /\ m_globs' = Append(m_globs, [pattern |-> pattern, servlet |-> slt])
    /\ UNCHANGED m_datas

AddGlobServlet(pattern, slt) ==
    /\ Called("glob", pattern, slt)
    /\ m_globs' = Append(Without(m_globs, pattern), [pattern |-> pattern, servlet |-> slt])
    /\ UNCHANGED m_datas

DelGlobServlet(pattern) ==
    /\ Called("glob", pattern, NoServlet)
    /\ m_globs' = Without(m_globs, pattern)
    /\ UNCHANGED m_datas

\* getMatchedServlet(): the exact name, else the first pattern, else the default.
GetMatchedServlet(uri) ==
    LET hits == {i \in DOMAIN m_globs : <<m_globs[i].pattern, uri>> \in Fnmatch}
    IN  IF m_datas[uri] # NoServlet THEN m_datas[uri]
        ELSE IF hits # {} THEN m_globs[Min(hits)].servlet
        ELSE m_default

DispatchNext ==
    \/ \E uri \in Uris : DelServlet(uri) \/ \E slt \in Servlets : AddServlet(uri, slt)
    \/ \E pattern \in Patterns :
         DelGlobServlet(pattern) \/ \E slt \in Servlets : AddGlobServlet(pattern, slt)

DispatchSpec == DispatchInit /\ [][DispatchNext]_dispatchVars
-----------------------------------------------------------------------------
(* Properties.                                                             *)

\* The calls that no later call has overruled.
Standing(table) ==
    {i \in DOMAIN calls :
        /\ calls[i].table = table /\ calls[i].servlet # NoServlet
        /\ \A j \in i + 1 .. Len(calls) : calls[j].table = table => calls[j].name # calls[i].name}

\* What is found for a path is decided by the calls alone: the last registration of
\* the exact name that was not taken back; if there is none, the oldest standing
\* registration of a pattern that matches, where registering a pattern again makes
\* it the newest; else the default (servlet.cc:107-123).
MatchFollowsCalls ==
    \A uri \in Uris :
        LET exact == {i \in Standing("exact") : calls[i].name = uri}
            globs == {i \in Standing("glob") : <<calls[i].name, uri>> \in Fnmatch}
        IN  GetMatchedServlet(uri) =
                IF exact # {} THEN calls[Max(exact)].servlet
                ELSE IF globs # {} THEN calls[Min(globs)].servlet
                ELSE m_default
=============================================================================

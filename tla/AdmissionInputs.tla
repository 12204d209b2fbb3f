-------------------------- MODULE AdmissionInputs --------------------------
(***************************************************************************)
(* The small instances of AccessAdmission that TLC checks: tasks, consents *)
(* and preferences.  One unit of time stands for about five seconds.       *)
(***************************************************************************)
EXTENDS AccessAdmission

Desktop == {"desktop"}
Browser == {"browser"}

DesktopTask(o, k, w, d) ==
  [owner |-> o, key |-> k, surfaces |-> Desktop, profiles |-> {},
   disruptive |-> TRUE, wait |-> w, duration |-> d]
Observation(o, k, w, d) == [DesktopTask(o, k, w, d) EXCEPT !.disruptive = FALSE]
BrowserTask(o, k, w, d) ==
  [owner |-> o, key |-> k, surfaces |-> Browser, profiles |-> {"p1"},
   disruptive |-> TRUE, wait |-> w, duration |-> d]
CompoundTask(o, k, w, d) ==
  [DesktopTask(o, k, w, d) EXCEPT !.surfaces = Surface, !.profiles = {"p1"}]

Consent(m, d) == [mode |-> m, left |-> d, profiles |-> {}]
Consent1(m, d) == [mode |-> m, left |-> d, profiles |-> {"p1"}]

Seen == [ready |-> TRUE, notice |-> TRUE]
Unseen == [ready |-> TRUE, notice |-> FALSE]
Absent == [ready |-> FALSE, notice |-> FALSE]

Warned == [desktop |-> 1, browser |-> 1, yieldWait |-> 2, reapprove |-> FALSE]
Immediate == [Warned EXCEPT !.desktop = 0, !.browser = 0]
Careful == [Immediate EXCEPT !.reapprove = TRUE]

None == {}

Shows(d, b) == [desktop |-> d, browser |-> b]
DesktopSeen == Shows({Seen}, {})
DesktopComesAndGoes == Shows({Seen, Absent}, {})
UnseenOnly == Shows({Unseen}, {Unseen})

\* Handoff: two disruptive desktop tasks of two channels under Automatic, a
\* person who types, an adapter that comes and goes, and a renewal.
HandoffRequests == [t1 |-> DesktopTask("o1", "a", 3, 2), t2 |-> DesktopTask("o2", "a", 3, 2)]
HandoffConsents == [desktop |-> {Consent("automatic", Forever)}, browser |-> {}]

\* Approvals: two tasks for the desktop in either mode, holds, Stop and takeovers,
\* with and without reapproval; no wait runs out.
ApprovalRequests == [t \in {"t1", "t2"} |-> DesktopTask("o1", t, Forever, 1)]
ApprovalConsents == [desktop |-> {Consent("ask", Forever), Consent("automatic", Forever)},
                     browser |-> {}]
WarnedOnly == {Warned}
CarefulOnly == {Careful}

\* Authority: a desktop and a compound task under consents that run out or are
\* withdrawn, put off to a time that these and their lifetimes leave open, with
\* timed pauses and takeovers.
AuthorityRequests == [t1 |-> DesktopTask("o1", "a", 2, 1), t2 |-> CompoundTask("o1", "b", 2, 1)]
AuthorityConsents == [desktop |-> {Consent("automatic", 2)},
                      browser |-> {Consent1("automatic", 99), Consent1("off", 1)}]

\* Surfaces: a desktop task, a browser task and one that needs both, while the
\* person approves and defers them.
SurfaceRequests == [d |-> DesktopTask("o1", "a", Forever, 1), b |-> BrowserTask("o1", "b", Forever, 1),
                    c |-> CompoundTask("o1", "c", Forever, 1)]
SurfaceConsents == [desktop |-> {Consent("automatic", Forever)},
                    browser |-> {Consent1("ask", Forever)}]

\* Channels: four submissions, two of them of one request, on two channels that
\* close, with budgets for one task a channel and little memory of ended tasks.
ChannelRequests == [d |-> Observation("o1", "a", 1, 1), e |-> Observation("o1", "a", 1, 1),
                    f |-> Observation("o1", "b", 1, 1), g |-> BrowserTask("o2", "a", 1, 1)]
ChannelConsents == [desktop |-> {Consent("automatic", Forever)},
                    browser |-> {Consent1("automatic", Forever), Consent("automatic", Forever)}]

\* Waits: one task that renews, is interrupted and held, under a consent that runs
\* out or one that does not.
WaitConsents == [desktop |-> {Consent("automatic", 3), Consent("automatic", Forever)},
                 browser |-> {}]
WaitRequests == [t1 |-> DesktopTask("o1", "a", 2, 1)]
=============================================================================

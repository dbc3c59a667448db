---------------------------- MODULE MCLocalSync ----------------------------
(* Instances of LocalSync for TLC: three tasks, of which c is needed by the *)
(* others and is never stopped.                                             *)
EXTENDS LocalSync, TLC
CONSTANTS a, b, c
Scripts(x, y, z) == (a :> x) @@ (b :> y) @@ (c :> z)
Waiter == <<"lock">> \o CvWait \o <<"unlock">>
Setter == <<"lock", "make_ready", "sleep", "unlock">>
Section == <<"lock", "sleep", "unlock">>
MCScenarios == {
    Scripts(Section, Section, Section),
    Scripts(<<"try_lock", "sleep", "unlock">>, Waiter, Setter \o <<"notify_one">>),
    Scripts(<<"acquire", "release">>, <<"acquire", "release">>, <<"release2", "try_acquire">>),
    Scripts(<<"acquire", "acquire">>, <<"acquire", "release">>, <<"release", "release2">>),
    Scripts(<<"lock", "sleep">> \o CvWait \o <<"unlock">>, <<"try_acquire">>,
            <<"lock", "make_ready", "unlock", "notify_one">>),
    Scripts(Waiter, Waiter, Setter \o <<"notify_all">>),
    Scripts(Waiter, Section, <<"notify_all", "lock", "make_ready", "unlock", "notify_one">>),
    Scripts(Waiter \o <<"release">>, Waiter, Setter \o <<"notify_one", "notify_one">>),
    Scripts(<<"wait", "acquire">>, <<"wait", "sleep", "wait">>,
            <<"set", "reset", "release2", "sleep", "set">>),
    Scripts(Waiter \o <<"wait">>, <<"acquire">> \o Section,
            Setter \o <<"notify_one", "set", "release">>),
    Scripts(<<"lock", "acquire", "unlock">>, Section, <<"sleep", "release">>)}
=============================================================================

------------------------------ MODULE MCFiles ------------------------------
(* Instances of Files for TLC: directory trees and file contents on which two *)
(* tasks meet.                                                               *)
EXTENDS Files, TLC
CONSTANTS t1, t2, F, G
Disk(tree, data) == [tree |-> tree, data |-> data, descs |-> <<>>, fds |-> <<>>]
Scripts(a, b) == (t1 :> a) @@ (t2 :> b)
Scenario(a, b, d) == [script |-> Scripts(a, b), disk |-> d]
a == <<"a">>
ab == <<"a", "b">>
abc == <<"a", "b", "c">>
MCOriginal == <<1, 2, 3>>
Empty == Disk(<<>> :> <<"dir">>, <<>>)
Tree == Disk((<<>> :> <<"dir">>) @@ (a :> <<"dir">>) @@ (ab :> <<"dir">>)
             @@ (abc :> <<"file", 1>>) @@ (<<"a", "l">> :> <<"link", <<"gone">>>>), <<MCOriginal>>)
Linked == Disk((<<>> :> <<"dir">>) @@ (a :> <<"dir">>) @@ (<<"a", "l">> :> <<"link", <<"d">>>>)
               @@ (<<"d">> :> <<"dir">>) @@ (<<"d", "f">> :> <<"file", 1>>), <<MCOriginal>>)
Plain == Disk((<<>> :> <<"dir">>) @@ (a :> <<"file", 1>>), <<MCOriginal>>)
MCScenarios == {
    \* directories: racing creators, removal with a reader, removal with a creator
    Scenario(<< <<"create_directories", abc>> >>, << <<"create_directories", ab>> >>, Empty),
    Scenario(<< <<"create_directory", a>> >>,
             << <<"create_directories", <<>>>>, <<"create_directories", ab>> >>, Empty),
    Scenario(<< <<"create_directory", abc>> >>, << <<"create_directories", abc>> >>, Tree),
    Scenario(<< <<"remove_all", a>> >>, << <<"read_file", abc>> >>, Tree),
    Scenario(<< <<"remove_all", a>> >>,
             << <<"create_directory", <<"a", "d">>>>, <<"rmdir", <<"a", "d">>>> >>, Tree),
    Scenario(<< <<"remove_all", a>> >>, << <<"remove_all", ab>> >>, Tree),
    \* removal of links: a dangling one, one to a directory, read at the same time
    Scenario(<< <<"remove_all", <<"a", "l">>>> >>, << <<"unlink", abc>> >>, Tree),
    Scenario(<< <<"remove_all", a>> >>, << <<"read_file", <<"d", "f">>>> >>, Linked),
    \* one request each
    Scenario(<< <<"lstat", <<"a", "l">>>>, <<"readlink", <<"a", "l">>>>,
                <<"realpath", abc>>, <<"chmod", abc>>, <<"list_directory", a>>,
                <<"copy", abc, <<"a", "f">>, TRUE>>, <<"file_size", <<"a", "f">>>> >>,
             << <<"link", abc, <<"a", "f">>>>, <<"symlink", ab, <<"s">>>>,
                <<"rename", <<"s">>, <<"a", "f">>>>, <<"rename", ab, <<"d">>>>,
                <<"unlink", <<"d", "c">>>>, <<"rmdir", <<"d">>>> >>, Tree),
    \* whole files
    Scenario(<< <<"write_file", a, <<7, 7>>>> >>, << <<"append_file", a, <<8>>>> >>, Plain),
    Scenario(<< <<"append_file", a, <<7>>>> >>, << <<"read_file", a>> >>, Empty),
    \* file objects: reads and sends of one, closed by two tasks, moved and destroyed
    Scenario(<< <<"open", F, a, {}>>, <<"read_some", F, 1>>, <<"read_exact", F, 2>>,
                <<"read_all", F>>, <<"read_at", F, 0, 0>>, <<"close", F>> >>,
             << <<"open", G, ab, {"creat"}>>, <<"close", G>> >>, Plain),
    Scenario(<< <<"open", F, a, {}>>, <<"open", G, a, {}>>, <<"move", F, G>>, <<"destroy", F>> >>,
             << <<"close", F>>, <<"close", G>> >>, Plain),
    Scenario(<< <<"open", F, a, {}>>, <<"close", F>>, <<"open", G, a, {}>> >>,
             << <<"close", F>>, <<"close", G>>, <<"move", F, G>> >>, Plain),
    Scenario(<< <<"open", F, a, {}>>, <<"close", F>> >>,
             << <<"close", F>>, <<"destroy", F>> >>, Plain),
    Scenario(<< <<"open", F, a, {}>> >>, << <<"open", F, a, {}>>, <<"close", F>> >>, Plain),
    Scenario(<< <<"open", F, a, {}>>, <<"move", G, F>>, <<"open_fd", F, G>>, <<"sendfile", G, F, 1>>,
                <<"close", F>> >>, <<>>, Plain),
    Scenario(<< <<"open", F, a, {}>>, <<"open", G, <<"b">>, {"creat", "write"}>>,
                <<"sendfile", G, F, 2>>, <<"read_all", F>>, <<"open_fd", F, G>>,
                <<"read_all", F>>, <<"sendfile", G, F, 0>> >>, <<>>, Plain),
    Scenario(<< <<"open", F, a, {}>>, <<"open", G, <<"b">>, {"creat", "write"}>>,
                <<"sendfile", G, F, 2>> >>, << <<"close", G>> >>, Plain),
    Scenario(<< <<"open_fd", F, G>>, <<"write", F, <<7>>>>, <<"open", F, a, {"write"}>>,
                <<"write", F, <<7, 7>>>>, <<"truncate", F, 1>>, <<"write", F, <<>>>>,
                <<"open", F, a, {}>>, <<"move", F, F>>, <<"close", F>>, <<"truncate", F, 0>>,
                <<"sendfile", F, G, 1>>, <<"read_some", F, 1>>, <<"destroy", F>> >>, <<>>, Plain)}
=============================================================================

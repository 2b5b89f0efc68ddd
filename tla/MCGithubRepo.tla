---------------------------- MODULE MCGithubRepo ------------------------------
(***************************************************************************)
(* Small instances of GithubRepo: one or two cluster types and targets, a  *)
(* config that is a config map, an env file or empty, two promoted commits.*)
(***************************************************************************)
EXTENDS GithubRepo

Package(contentType, text) ==
    [k \in Kinds |-> IF k = "platform-config" THEN [contentType |-> contentType, text |-> text]
                     ELSE [contentType |-> "", text |-> "manifests"]]

Content(types, packages, commit) == [types |-> types, packages |-> packages, commit |-> commit]

Web == <<"edge", "web">>
Api == <<"edge", "api">>
Pkg(d, p) == [x \in {d} |-> p]

\* web alone; then api instead, promoted; then web with an env file, promoted again.
FirstContent  == Content({"edge"}, Pkg(Web, Package("configmap", "a")), "p1")
SecondContent == Content({"edge", "core"}, Pkg(Api, Package("configmap", None)), "p2")
ThirdContent  == Content({"edge"}, Pkg(Web, Package("env", "b")), None)

ThreeContents == {FirstContent, SecondContent, ThirdContent}

\* A file of the users, a cluster type that is gone, and no promoted commit.
Start == [files |-> {[path |-> <<"CODEOWNERS">>, text |-> "users"],
                     [path |-> <<"old", "README.md">>, text |-> "readme"]},
          promoted |-> None]
=============================================================================

------------------------------ MODULE MCImages -----------------------------
(* Instances of Images for TLC: two replicas that are built, a service     *)
(* that shares their image, and one with a containerfile in the file.      *)
EXTENDS Images

CONSTANTS web1, web2, job, db, app, base

Replica(first) == [service |-> "web", first |-> first, image |-> app, build |-> TRUE,
                   inline |-> FALSE, wrong |-> "no", registry |-> FALSE]
Job == [service |-> "job", first |-> TRUE, image |-> app, build |-> FALSE,
        inline |-> FALSE, wrong |-> "no", registry |-> FALSE]
Db(wrong) == [service |-> "db", first |-> TRUE, image |-> base, build |-> TRUE,
              inline |-> TRUE, wrong |-> wrong, registry |-> TRUE]

StackOf(wrong) ==
  [c \in Containers |-> CASE c = web1 -> Replica(TRUE) [] c = web2 -> Replica(FALSE)
                          [] c = job -> Job [] c = db -> Db(wrong)]

Line(op, wrong, services, limit) ==
  [op |-> op, stack |-> StackOf(wrong), services |-> services, limit |-> limit,
   build |-> FALSE, if_not_exists |-> FALSE, force_local |-> FALSE]

AllCommands ==
  {Line("build", "no", {}, 9), Line("build", "early", {}, 9), Line("build", "no", {"web", "gone"}, 9),
   Line("build", "no", {"db", "web"}, 9), Line("up", "no", {}, 9), Line("up", "no", {"job"}, 9), Line("build", "late", {}, 1),
   [Line("up", "no", {}, 9) EXCEPT !.build = TRUE],
   Line("pull", "no", {}, 9), Line("pull", "no", {"job"}, 9),
   [Line("pull", "no", {}, 9) EXCEPT !.force_local = TRUE],
   Line("push", "no", {}, 9), Line("push", "no", {"web"}, 9)}
=============================================================================

---------------------------- MODULE MCGuardService ----------------------------
(* The values of the constants of GuardService for TLC. *)
EXTENDS GuardService

CONSTANTS o1, o2, o3, o4,          \* files of the update list or not
          e1, e2, e3,              \* events
          m1, m2, m3,              \* models
          t1, t2, t3, t4, t5, t6, t7, t8,  \* texts
          c1, c2, c3, c4, c5, c6, c7, c8, c9, c10, c11, c12,  \* updates
          i1, i2, i3, i4, i5,      \* inodes at first
          r1, r2, r3, r4, r5, r6, r7, r8,   \* requests
          p1, p2, p3, d1, d2       \* client processes, plugins

Ev(id, old, rom, audit) == [id |-> id, old |-> old, table |-> id, rom |-> rom, audit |-> audit]
Mo(id, mode) == [id |-> id, mode |-> mode]
EventTexts == (t1 :> <<Ev(e1, None, 5, FALSE), Ev(e2, None, 5, TRUE)>>)
              @@ (t2 :> <<Ev(e3, e1, 1, FALSE), Ev(e2, None, 9, TRUE), Ev(None, e1, 1, FALSE)>>)
ModelTexts == (t3 :> <<Mo(m1, "demand"), Mo(m2, "startup")>>) @@ (t4 :> <<Mo(None, "startup"), Mo(m2, "demand")>>) @@ (t8 :> <<Mo(m1, "startup")>>)
GroupTexts == (t5 :> <<[id |-> t1, ok |-> TRUE]>>) @@ (t7 :> <<[id |-> t1, ok |-> TRUE], [id |-> t2, ok |-> FALSE]>>)
TextDef == ("event" :> EventTexts) @@ ("model" :> ModelTexts) @@ ("group" :> GroupTexts)
NamesDef == {"event", "model", "group", o1, o2, o3, o4}
DstDef == (o1 :> "listed") @@ (o2 :> "unlisted") @@ (o3 :> "empty") @@ (o4 :> "unlisted")
OldDef == ("event" :> i1) @@ ("model" :> i2) @@ ("group" :> i3) @@ (o1 :> i4) @@ (o2 :> i5) @@ (o3 :> i5) @@ (o4 :> i5)
UFileDef == (c1 :> "event") @@ (c2 :> "event") @@ (c3 :> "event") @@ (c4 :> "model") @@ (c5 :> o1) @@ (c6 :> o2) @@ (c7 :> o3) @@ (c8 :> o1) @@ (c9 :> o4) @@ (c10 :> o1) @@ (c11 :> o1) @@ (c12 :> "model")
UTextDef == (c1 :> t2) @@ (c2 :> t1) @@ (c3 :> t6) @@ (c4 :> t4) @@ (c5 :> t6) @@ (c6 :> t6) @@ (c7 :> t6) @@ (c8 :> t5) @@ (c9 :> t5) @@ (c10 :> t5) @@ (c11 :> t5) @@ (c12 :> t8)
UApiDef == [c \in Updates |-> IF c \in {c1, c8, c10} THEN "js" ELSE "c"]
ApiDef == (r6 :> "js") @@ (r7 :> "async") @@ (r8 :> "sync") @@ (r1 :> "sync") @@ (r2 :> "js") @@ (r3 :> "async") @@ (r4 :> "start") @@ (r5 :> "listen")
ModelDef == (r6 :> m3) @@ (r7 :> m3) @@ (r8 :> m1) @@ (r1 :> m1) @@ (r2 :> m1) @@ (r3 :> m2) @@ (r4 :> m1) @@ (r5 :> m1)
ProcDef == (r6 :> p1) @@ (r7 :> p1) @@ (r8 :> p1) @@ (r1 :> p1) @@ (r2 :> p1) @@ (r3 :> p1) @@ (r4 :> p2) @@ (r5 :> p3)

Preset == ("event" :> t1) @@ ("model" :> t3) @@ ("group" :> t5)
Plain == [updates |-> {}, preset |-> Preset, disk |-> <<>>, faults |-> 0, starts |-> 1,
          requests |-> {}, plugins |-> <<>>, stops |-> FALSE]
Ask(R) == [Plain EXCEPT !.preset["event"] = None, !.preset["group"] = None, !.requests = R]
Upd(C, f, n) == [Plain EXCEPT !.updates = C, !.faults = f, !.starts = n]
Just(f, p) == [p EXCEPT !.preset = f :> Preset[f] @@ [g \in {"event", "model", "group"} |-> None]]
Plug(name, deps, ok) == [name |-> name, deps |-> deps, ok |-> ok]

PlansDef == {Just("event", Upd({c1}, 1, 2)), Just("event", Upd({c1, c2}, 0, 1)), Upd({c3}, 0, 1), Upd({c4}, 1, 2),
             Upd({c5}, 1, 1), Upd({c6, c7}, 1, 1), Upd({c8, c9}, 0, 1), Upd({c10, c11}, 0, 1),
             [Upd({c2}, 1, 2) EXCEPT !.disk = "event" :> t6, !.preset["group"] = t7],
             Ask({r1, r2}), Ask({r6, r7, r8}), Ask({r2, r5}), [Ask({r2}) EXCEPT !.faults = 1],
             [Ask({r5}) EXCEPT !.faults = 1], [Ask({r2}) EXCEPT !.updates = {c4}], [Ask({r2}) EXCEPT !.updates = {c12}],
             Ask({r3, r4}), [Ask({r3}) EXCEPT !.faults = 1, !.starts = 2],
             [Ask({r4}) EXCEPT !.faults = 1],
             [Plain EXCEPT !.plugins = <<Plug(d1, {e1, e2}, TRUE), Plug(d1, {}, TRUE), Plug(d2, {e1, None}, TRUE), Plug(d2, {}, TRUE)>>, !.faults = 2, !.stops = TRUE],
             [Plain EXCEPT !.plugins = <<Plug(d1, {e3}, TRUE), Plug(d2, {e1, e3}, FALSE)>>, !.updates = {c1}, !.starts = 2]}
===============================================================================

----------------------------- MODULE BundleCache ----------------------------
(* Bundles loaded while a program runs: polaron_bundle_load compiles the    *)
(* bitcode of a bundle to an image in the temporary directory, and uses the *)
(* image again when it finds one of the same name, whatever made it.        *)
(*                                                                          *)
(* A bundle is its interface, of which the fingerprint is a hash, and its   *)
(* code.  A host is one build of a program: what the host's tag tells       *)
(* apart.  An image that is not whole does not load.                        *)
(*                                                                          *)
(* An operator X_m is a plausible mistake in X, not part of the model.      *)

CONSTANTS
  Loaders,     \* threads that load bundles, of whatever programs
  Hosts,
  Interfaces,
  Bundles,     \* what may be published: records of an interface and a code
  Absent,      \* no image
  Partial,     \* an image that was begun
  NoLoad       \* what a loader has when it is not loading

VARIABLES
  published,  \* the bundle in the file the loaders read
  image,      \* image[key]: Absent, Partial, or what the image was made from
  step,       \* step[l]: where a loader is
  load,       \* load[l]: its host, what that expects, what it read, and whether it found an image
  loaded      \* loaded[l]: what its handle is of

bundleVars == <<published, image, step, load, loaded>>

\* The name of the image: the fingerprint and the tag of the host.
ImageOf_m(b, host) == <<CHOOSE i \in Interfaces : TRUE, host>>
ImageOf(b, host) == <<b.interface, host>>
Keys == Interfaces \X Hosts

Made(b, host) == [bundle |-> b, host |-> host]

\* What an instance must give.
CacheAssumption ==
  /\ Bundles # {} /\ \A b \in Bundles : b.interface \in Interfaces
  /\ \A b \in Bundles, host \in Hosts : Made(b, host) \notin {Absent, Partial}

(* The bundles and the loaders of which the rest holds, where the code     *)
(* stops short: no two bundles have one interface, by which images are     *)
(* named, and nobody else has hands on an image while it is looked for,    *)
(* built and opened.                                                       *)
OneOfAnInterface == \A a, b \in Bundles : a.interface = b.interface => a = b
OneLoader == \A l, m \in Loaders : l = m

KeyOf(l) == ImageOf(load[l].read, load[l].host)
Goto(l, from, to) == step[l] = from /\ step' = [step EXCEPT ![l] = to]

\* An image loads into the host it was linked for.
Loads(i, host) == i \notin {Absent, Partial} /\ i.host = host

BundleInit == /\ published \in Bundles
              /\ image = [k \in Keys |-> Absent]
              /\ step = [l \in Loaders |-> "idle"]
              /\ load = [l \in Loaders |-> NoLoad]
              /\ loaded = [l \in Loaders |-> Absent]

\* The bundle's file is replaced by another.
Publish(b) == /\ b # published /\ published' = b
              /\ UNCHANGED <<image, step, load, loaded>>

\* The first call of a bundle's method, or one after a load that failed: the
\* file is read and its fingerprint compared with the one compiled in.
Read(l, host, expected) ==
  /\ IF published.interface = expected
     THEN Goto(l, "idle", "look") ELSE Goto(l, "idle", "mismatch")
  /\ load' = [load EXCEPT ![l] = [host |-> host, expected |-> expected,
                                  read |-> published, reused |-> FALSE]]
  /\ UNCHANGED <<published, image, loaded>>

\* An image that is there is used; else it is built.
Look(l) ==
  LET found == image[KeyOf(l)] # Absent
  IN  /\ Goto(l, "look", IF found THEN "open" ELSE "build")
      /\ load' = [load EXCEPT ![l].reused = found]
      /\ UNCHANGED <<published, image, loaded>>

\* clang starts on the image, and is done with it.
Begin(l) == /\ Goto(l, "build", "building")
            /\ image' = [image EXCEPT ![KeyOf(l)] = Partial]
            /\ UNCHANGED <<published, load, loaded>>
Finish(l) == /\ Goto(l, "building", "open")
             /\ image' = [image EXCEPT ![KeyOf(l)] = Made(load[l].read, load[l].host)]
             /\ UNCHANGED <<published, load, loaded>>

\* There is no clang, or it fails and takes back what it wrote.
Fail(l) == /\ Goto(l, "building", "no compiler")
           /\ image' = [image EXCEPT ![KeyOf(l)] = Absent]
           /\ UNCHANGED <<published, load, loaded>>

Open(l) == /\ Goto(l, "open", "loaded")
           /\ Loads(image[KeyOf(l)], load[l].host)
           /\ loaded' = [loaded EXCEPT ![l] = image[KeyOf(l)]]
           /\ UNCHANGED <<published, image, load>>

\* An image that was found and does not load is built once more; one that
\* was built here is given up.
Refused_m(l) == /\ Goto(l, "open", "unloadable")
                /\ ~Loads(image[KeyOf(l)], load[l].host)
                /\ UNCHANGED <<published, image, load, loaded>>
Refused(l) == /\ step[l] = "open" /\ ~Loads(image[KeyOf(l)], load[l].host)
              /\ IF load[l].reused
                 THEN /\ Goto(l, "open", "build")
                      /\ image' = [image EXCEPT ![KeyOf(l)] = Absent]
                      /\ load' = [load EXCEPT ![l].reused = FALSE]
                 ELSE /\ Goto(l, "open", "unloadable")
                      /\ UNCHANGED <<image, load>>
              /\ UNCHANGED <<published, loaded>>

\* A program that caught the exception may call again; one that ends, or is
\* killed at any point, leaves the images as they are.
Retry(l) == /\ step[l] \in {"mismatch", "no compiler", "unloadable"}
            /\ step' = [step EXCEPT ![l] = "idle"]
            /\ load' = [load EXCEPT ![l] = NoLoad]
            /\ UNCHANGED <<published, image, loaded>>
Killed(l) == /\ step[l] \in {"look", "build", "building", "open", "loaded"}
             /\ step' = [step EXCEPT ![l] = "idle"]
             /\ load' = [load EXCEPT ![l] = NoLoad]
             /\ loaded' = [loaded EXCEPT ![l] = Absent]
             /\ UNCHANGED <<published, image>>

BundleNext == \/ \E b \in Bundles : Publish(b)
              \/ \E l \in Loaders, h \in Hosts, i \in Interfaces : Read(l, h, i)
              \/ \E l \in Loaders : \/ Look(l) \/ Begin(l) \/ Finish(l) \/ Fail(l)
                                    \/ Open(l) \/ Refused(l)
                                    \/ Retry(l) \/ Killed(l)
BundleSpec == BundleInit /\ [][BundleNext]_bundleVars
-----------------------------------------------------------------------------
\* The cache is never the reason a program cannot run or runs other code:
\* what is loaded was made from the bundle that was read, for this host; and
\* no load comes back without an image while there is a compiler, whatever
\* was killed before and whatever it left behind.
CacheNeverInTheWay ==
  \A l \in Loaders :
    /\ step[l] # "unloadable"
    /\ step[l] = "loaded" => loaded[l] = Made(load[l].read, load[l].host)
=============================================================================

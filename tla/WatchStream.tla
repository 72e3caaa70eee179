---------------------------- MODULE WatchStream ----------------------------
(* The informer cache of one resource kind: changes accepted by the API server
   travel to it in order, each as an event naming the object and what it became.
   Reads of the manager's client come from the cache, so they may be old; writes
   go to the API server.  (External: controller-runtime and the Kubernetes API.) *)
EXTENDS Naturals, Sequences

Event(Names, Objects) == [key : Names, object : Objects]

(* One change of the object called key *)
Emit(stream, key, object) == Append(stream, [key |-> key, object |-> object])

(* Has the object changed in a way the cache has not seen?  An update that sends
   the cached resourceVersion back is refused exactly then. *)
Stale(stream, key) == \E i \in DOMAIN stream : stream[i].key = key

(* What the cache holds once the oldest event is delivered *)
Delivered(cache, stream) == [cache EXCEPT ![Head(stream).key] = Head(stream).object]

-----------------------------------------------------------------------------
(* The cache lags behind the API server but never departs from it: an object
   without a pending event is cached as it is, and the last event of an object
   tells what it is now. *)
LastOf(stream, i) == \A j \in DOMAIN stream : stream[j].key = stream[i].key => j <= i

Coherent(api, cache, stream) ==
    /\ \A key \in DOMAIN api : ~Stale(stream, key) => cache[key] = api[key]
    /\ \A i \in DOMAIN stream : LastOf(stream, i) => stream[i].object = api[stream[i].key]
=============================================================================

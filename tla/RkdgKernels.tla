----------------------------- MODULE RkdgKernels -----------------------------
(* The kernels of a stage of the RKDG discretization on a mesh, which may  *)
(* be partitioned: the flux rules of interfaces, distributed interfaces and*)
(* boundaries between wet and dry elements, the update, wetting and drying,*)
(* and the exchange of averages for the Cockburn-Shu slope limiter.        *)
(*                                                                         *)
(* Elements have equal areas and linear shape functions; fluxes are        *)
(* integrated over a side and in units of mean depth per stage, of the one-*)
(* stage scheme.  The values of the LLF flux, of boundary data and of the  *)
(* shape of the solution are arbitrary; which of them are used is not.     *)
EXTENDS WetDrying, FiniteSets, Functions

CONSTANTS
  Element,
  Interface,      \* interfaces, those between two submeshes included
  Distributed,    \* the interfaces between two submeshes
  In, Ex,         \* the elements IN and EX of an interface
  Boundary,       \* boundaries
  Land,           \* those of type Land
  Side,           \* the interface or boundary at each side of an element
  Bath,           \* depth of the bed at the vertices of an element
  Fluxes,         \* mass fluxes through an interface, out of IN
  OpenFluxes,     \* mass fluxes through an open boundary, out of the mesh
  Flows,          \* depths (less the mean) and momenta at the vertices
  InitialMeans,   \* mean depths at the start
  MaxMean         \* bound on the mean depth

(* bound_id: the sides of a triangle.                                      *)
Bound == 0 .. 2

(* An interface is one side of IN and one side of EX, and of no other      *)
(* element.                                                                *)
ASSUME MeshAssumption ==
  /\ IsFiniteSet(Element) /\ IsFiniteSet(Interface)
  /\ Distributed \subseteq Interface /\ Land \subseteq Boundary
  /\ In \in [Interface -> Element] /\ Ex \in [Interface -> Element]
  /\ \A i \in Interface : In[i] # Ex[i]
  /\ Interface \cap Boundary = {}
  /\ Side \in [Element -> [Bound -> Interface \cup Boundary]]
  /\ \A e \in Element : \A k \in Bound :
       Side[e][k] \in Interface => e \in {In[Side[e][k]], Ex[Side[e][k]]}
  /\ \A i \in Interface : \A e \in {In[i], Ex[i]} :
       \E k \in Bound : {j \in Bound : Side[e][j] = i} = {k}
  /\ Bath \in [Element -> [Vertex -> Int]]
  /\ Fluxes \subseteq Int /\ OpenFluxes \subseteq Int
  /\ Flows \subseteq [h : [Vertex -> Int], q : [Vertex -> Int]]
  /\ \A flow \in Flows : Sum3(flow.h) = 0
  /\ InitialMeans \subseteq Int /\ MaxMean \in Int

VARIABLES
  at,             \* next loop of the stage
  water,          \* per element: depths, momentum, wet flag
  rhs,            \* per element: mean depth gained, and if anything was added
  F_hat,          \* per boundary: the flux out of the mesh
  went_completely_dry,
  q_at_baryctr,   \* per element: its average, for the limiter
  wet_neigh, q_at_baryctr_neigh   \* per side: what it knows of the neighbour

limiterVars == <<q_at_baryctr, wet_neigh, q_at_baryctr_neigh>>
vars == <<at, water, rhs, F_hat, went_completely_dry, limiterVars>>

Wet(e) == water[e].wet

Sides == Element \X Bound

(* The element across a side; at a boundary the element itself.            *)
Across(s) ==
  LET side == Side[s[1]][s[2]]
  IN  IF side \in Boundary THEN s[1] ELSE IF In[side] = s[1] THEN Ex[side] ELSE In[side]

Remote(s) == Side[s[1]][s[2]] \in Distributed

-----------------------------------------------------------------------------
(* The depths of a flow at the vertices.                                   *)
Depths(mean, flow) == [v \in Vertex |-> mean + flow.h[v]]

(* The unit of depth is one in which the means at the start are whole.     *)
ASSUME WholeMeansAssumption ==
  \A mean \in InitialMeans, flow \in Flows :
    Sum3(InitialWater(Depths(mean, flow), flow.q).h) % 3 = 0

NoRhs == [gain |-> 0, touched |-> FALSE]

(* Every depth and every momentum the inputs allow, wet where deep enough. *)
Init ==
  /\ at = "kernels"
  /\ \E mean \in [Element -> InitialMeans], flow \in [Element -> Flows] :
       water = [e \in Element |-> InitialWater(Depths(mean[e], flow[e]), flow[e].q)]
  /\ rhs = [e \in Element |-> NoRhs]
  /\ F_hat = [b \in Boundary |-> 0]
  /\ went_completely_dry = [e \in Element |-> FALSE]
  /\ q_at_baryctr = [e \in Element |-> 0]
  /\ wet_neigh = [s \in Sides |-> FALSE]
  /\ q_at_baryctr_neigh = [s \in Sides |-> 0]

(* Mutant: the wet flags are not looked at.                                *)
InternalFlux_Unguarded(f, wet_in, wet_ex) == [in |-> f, ex |-> -f]

(* Internal::ComputeFlux: the mass fluxes out of both elements, where f is *)
(* the LLF flux.  Water that would leave a dry element stays: no flux on   *)
(* its side, and the reflective flux, which has no mass, on the other.     *)
InternalFlux(f, wet_in, wet_ex) ==
  IF (f > 0 /\ ~wet_in) \/ (f < 0 /\ ~wet_ex) THEN [in |-> 0, ex |-> 0] ELSE [in |-> f, ex |-> -f]

(* Mutant: only the own wet flag is looked at.                             *)
DistributedFlux_OwnFlag(f, wet_in, wet_ex) ==
  IF f > 0 /\ ~wet_in THEN 0 ELSE f

(* Distributed::ComputeFlux of one side, from the neighbour's message; the *)
(* other side computes from the same data with the normal reversed.        *)
DistributedFlux(f, wet_in, wet_ex) ==
  IF (f > 0 /\ ~wet_in) \/ (f < 0 /\ ~wet_ex) THEN 0 ELSE f

(* The fluxes out of In and Ex with the numerical flux f.                  *)
SideFlux(i, f) ==
  IF i \in Distributed
  THEN [in |-> DistributedFlux(f, Wet(In[i]), Wet(Ex[i])),
        ex |-> DistributedFlux(-f, Wet(Ex[i]), Wet(In[i]))]
  ELSE InternalFlux(f, Wet(In[i]), Wet(Ex[i]))

(* interface_kernel and distributed_boundary_kernel do nothing between two *)
(* dry elements.                                                           *)
Active(i) == Wet(In[i]) \/ Wet(Ex[i])

(* A land boundary has no mass flux, the other types are not restricted.   *)
BoundaryFluxes(b) == IF b \in Land THEN {0} ELSE OpenFluxes

(* The flux out of an element through a side of it, which is that of an    *)
(* interface, from its numerical flux in f, or of a boundary, in g.        *)
SideLoss(e, side, f, g) ==
  IF side \in Boundary THEN IF Wet(e) THEN g[side] ELSE 0
  ELSE IF ~Active(side) THEN 0
  ELSE IF In[side] = e THEN SideFlux(side, f[side]).in ELSE SideFlux(side, f[side]).ex

(* Volume, source and boundary kernels add to the rhs of a wet element,    *)
(* interface kernels to both when one is wet.                              *)
Touched(e) ==
  Wet(e) \/ \E k \in Bound : Side[e][k] \in Interface /\ Active(Side[e][k])

(* volume_kernel (which clears the rhs of every element), source_kernel,   *)
(* interface_kernel, boundary_kernel, distributed_boundary_kernel.         *)
Kernels ==
  /\ at = "kernels"
  /\ \E f \in [Interface -> Fluxes], g \in [Boundary -> OpenFluxes \cup {0}] :
       /\ \A e \in Element : \A k \in Bound : Side[e][k] \in Boundary =>
            g[Side[e][k]] \in IF Wet(e) THEN BoundaryFluxes(Side[e][k]) ELSE {F_hat[Side[e][k]]}
       /\ F_hat' = g
       /\ rhs' = [e \in Element |->
            [gain |-> -Sum3([k \in Bound |-> SideLoss(e, Side[e][k], f, g)]),
             touched |-> Touched(e)]]
  /\ \A e \in Element : Mean(water[e].h) + rhs'[e].gain <= MaxMean
  /\ at' = "update"
  /\ UNCHANGED <<water, went_completely_dry, limiterVars>>

(* ApplyMinv, UpdateState and ++stepper.  What was added to an element may *)
(* change the shape of its water and its momentum in any way.              *)
Update ==
  /\ at = "update"
  /\ \E flow \in [Element -> Flows] :
       water' = [e \in Element |->
         IF rhs[e].touched
         THEN [water[e] EXCEPT !.h = Depths(Mean(@) + rhs[e].gain, flow[e]), !.q = flow[e].q]
         ELSE water[e]]
  /\ at' = "wet_dry"
  /\ UNCHANGED <<rhs, F_hat, went_completely_dry, limiterVars>>

(* wetting_drying_kernel of every element; an element found dry also gets  *)
(* its rhs cleared.                                                        *)
WetDry ==
  /\ at = "wet_dry"
  /\ water' = [e \in Element |-> WettingDrying(water[e], Bath[e])]
  /\ went_completely_dry' = [e \in Element |-> CompletelyDry(water[e].h)]
  /\ rhs' = [e \in Element |-> IF water'[e].wet THEN rhs[e] ELSE NoRhs]
  /\ at' = "limit"
  /\ UNCHANGED <<F_hat, limiterVars>>

(* slope_limiting_prepare_element_kernel, of wet elements only.            *)
PrepareAverages ==
  q_at_baryctr' = [e \in Element |-> IF Wet(e) THEN Mean(water[e].h) ELSE q_at_baryctr[e]]

(* Mutant: the loop over boundaries is missing, and so is its slot.        *)
PrepareSides_NoBoundaries ==
  /\ wet_neigh' = [s \in Sides |-> Wet(Across(s))]
  /\ q_at_baryctr_neigh' = [s \in {s \in Sides : Side[s[1]][s[2]] \notin Boundary} |->
       IF Wet(Across(s)) /\ (Wet(s[1]) \/ Remote(s))
       THEN q_at_baryctr'[Across(s)] ELSE q_at_baryctr_neigh[s]]

(* slope_limiting_prepare_interface_kernel and ..._boundary_kernel, and the*)
(* exchange over distributed interfaces, where the neighbour's slot is     *)
(* overwritten even if this side is dry; a dry neighbour sends no average, *)
(* and the receive buffer still holds the one before.                      *)
PrepareSides ==
  /\ wet_neigh' = [s \in Sides |-> Wet(Across(s))]
  /\ q_at_baryctr_neigh' = [s \in Sides |->
       IF Wet(Across(s)) /\ (Wet(s[1]) \/ Remote(s))
       THEN q_at_baryctr'[Across(s)] ELSE q_at_baryctr_neigh[s]]

(* Mutant: the neighbours need not be wet.                                 *)
Limited_Any(e) == Wet(e)

(* The guard of slope_limiting_kernel.                                     *)
Limited(e) == Wet(e) /\ \A s \in Sides : s[1] = e => wet_neigh'[s]

(* CS_slope_limiter: a limited solution keeps its means; it may stay as it *)
(* is or get any shape and any momentum with the same mean.                *)
Limit ==
  /\ at = "limit"
  /\ PrepareAverages
  /\ PrepareSides
  /\ \E changed \in SUBSET {e \in Element : Limited(e)}, flow \in [Element -> Flows] :
       water' = [e \in Element |->
         IF e \in changed
         THEN [water[e] EXCEPT !.h = Depths(Mean(@), flow[e]),
                               !.q = IF Sum3(flow[e].q) = Sum3(@) THEN flow[e].q ELSE @]
         ELSE water[e]]
  /\ at' = "kernels"
  /\ UNCHANGED <<rhs, F_hat, went_completely_dry>>

Next == Kernels \/ Update \/ WetDry \/ Limit

Spec == Init /\ [][Next]_vars

-----------------------------------------------------------------------------
TypeOK ==
  /\ at \in {"kernels", "update", "wet_dry", "limit"}
  /\ water \in [Element -> WaterColumn]
  /\ rhs \in [Element -> [gain : Int, touched : BOOLEAN]]
  /\ F_hat \in [Boundary -> Int]
  /\ went_completely_dry \in [Element -> BOOLEAN]
  /\ q_at_baryctr \in [Element -> Int]
  /\ wet_neigh \in [Sides -> BOOLEAN]
  /\ q_at_baryctr_neigh \in [Sides -> Int]

Total(w) == SumFunction([e \in Element |-> Sum3(w[e].h)])

(* The sides of wet elements at boundaries.                                *)
OpenSides == {s \in Sides : Wet(s[1]) /\ Side[s[1]][s[2]] \in Boundary}

(* Water enters and leaves the mesh through boundaries of wet elements     *)
(* only: what an interface or a distributed interface takes from one side  *)
(* it gives to the other, wetting and drying adds water only to elements   *)
(* that went completely dry, and the limiter moves none between elements.  *)
WaterKept ==
  [][Total(water') - Total(water) =
       CASE at = "update" ->
              -3 * SumFunction([s \in OpenSides |-> F_hat[Side[s[1]][s[2]]]])
         [] at = "wet_dry" ->
              SumFunction([e \in {d \in Element : went_completely_dry'[d]} |->
                             3 * h_o_threshold - Sum3(water[e].h)])
         [] OTHER -> 0]_vars

(* A dry element never loses water to its neighbours, wherever they are.   *)
DryKeepsWater ==
  [][at = "update" =>
       \A e \in Element : ~Wet(e) => Mean(water'[e].h) >= Mean(water[e].h)]_vars

(* The assertion of the kernel holds, and after it the fluxes may divide by*)
(* the depth of a wet element, and a dry one is at rest.                   *)
WettingDryingSound ==
  /\ at = "wet_dry" => \A e \in Element : AssertHolds(water[e].h)
  /\ at = "limit" => \A e \in Element :
       IF Wet(e) THEN \A v \in Vertex : water[e].h[v] >= h_o ELSE water[e].q = AtRest

(* A solution is limited only if all neighbours are wet, and with their    *)
(* averages of this stage, though averages of dry elements and of dry      *)
(* neighbours are left from earlier stages.                                *)
LimiterFresh ==
  [][at = "limit" =>
       \A s \in Sides : water'[s[1]] # water[s[1]] =>
         /\ Wet(Across(s))
         /\ q_at_baryctr_neigh'[s] = Mean(water[Across(s)].h)]_vars
=============================================================================

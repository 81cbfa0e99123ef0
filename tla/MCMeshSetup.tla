------------------------------ MODULE MCMeshSetup ------------------------------
(* Small meshes: rectangles of two cells in every pattern and with every   *)
(* kind of side, a levee with two faces, and a mesh with an island.        *)
EXTENDS MeshSetup

Quad == INSTANCE QuadMesh

TypeNumber == [type \in Quad!BoundaryTypesOfInput |->
  CASE type = "land" -> land [] type = "tide" -> tide [] type = "flow" -> flow
    [] type = "function" -> function [] type = "outflow" -> outflow]

SidesOfPath(nodes, type) == [pair \in {{nodes[i], nodes[i + 1]} : i \in 1 .. Len(nodes) - 1} |-> type]

(* An input file with every section, and one with only what is needed.     *)
SWE_Problem ==
  [name |-> "rkdg_swe", gravity |-> "moon", density_air |-> "thin", density_water |-> "salt",
   spherical_projection |-> [longitude_o |-> "lon", latitude_o |-> "lat", R |-> "radius"],
   initial_conditions |-> [type |-> "Function"],
   function_source |-> "Enable",
   bottom_friction |-> [type |-> "Manning", coefficient |-> "positive", input_file |-> "manning"],
   meteo_forcing |-> [type |-> "Test", raw_input_file |-> "raw", input_file |-> "meteo", frequency |-> "hourly"],
   tide_potential |-> [type |-> "Test"],
   coriolis |-> "Enable",
   wetting_drying |-> [h_o |-> "thin"],
   slope_limiting |-> [type |-> "Cockburn-Shu", M |-> "M", nu |-> "nu"]]
Full ==
  [polynomial_order |-> 1,
   mesh |-> [format |-> "Adcirc", file_name |-> "mesh.14", coordinate_system |-> "polar"],
   timestepping |-> [start_time |-> "start", end_time |-> "end", dt |-> 5, order |-> 2, nstages |-> 2,
                     ramp_duration |-> 3],
   problem |-> SWE_Problem,
   load_balancer |-> [name |-> "random", rebalance_frequency |-> "often"],
   output |-> [path |-> <<"out">>, logfile |-> [name |-> "log", verbose |-> TRUE],
               vtk |-> [frequency |-> 60], vtu |-> [frequency |-> 30], modal |-> [frequency |-> 20]]]
Without(node, keys) == [k \in DOMAIN node \ keys |-> node[k]]
Named(name) == [Full EXCEPT !.problem = [@ EXCEPT !.name = name]]
ParamsOf(program) ==
  Named(CASE program = "RKDG" -> "rkdg_swe" [] program = "EHDG" -> "ehdg_swe"
          [] program = "IHDG" -> "ihdg_swe" [] program = "GN" -> "ehdg_gn")

(* Well-formed variants of it: sections left out, and problem options the  *)
(* reader ignores with a warning.                                          *)
Variants ==
  {Without(Full, {key}) : key \in {"load_balancer", "output"}} \cup
  {[Full EXCEPT !.timestepping = Without(@, {"ramp_duration"})]} \cup
  {[Full EXCEPT !.output = Without(@, {key})] : key \in {"logfile", "vtk", "vtu", "modal"}} \cup
  {[Full EXCEPT !.output = [@ EXCEPT !.path = <<"out", "/">>]]} \cup
  {[Full EXCEPT !.problem = Without(@, {key})] : key \in DOMAIN SWE_Problem \ {"name"}} \cup
  {[Full EXCEPT !.problem = [@ EXCEPT ![key] = Without(@, {part})]] :
     <<key, part>> \in {kp \in {"spherical_projection", "initial_conditions", "bottom_friction",
                                "meteo_forcing", "tide_potential", "wetting_drying", "slope_limiting"}
                              \X {"R", "type", "h_o", "nu", "coefficient", "frequency"} :
                        kp[2] \in DOMAIN SWE_Problem[kp[1]]}} \cup
  {[Full EXCEPT !.problem = [@ EXCEPT !.coriolis = "disable"]],
   [Full EXCEPT !.problem = [@ EXCEPT !.bottom_friction = [type |-> "Chezy", coefficient |-> "positive"]]]}

(* Files that end every program, or the partitioned one only when it runs. *)
Malformed ==
  {Without(Full, {key}) : key \in {"polynomial_order", "mesh", "timestepping", "problem"}} \cup
  {[Full EXCEPT !.mesh = Without(@, {"coordinate_system"})],
   [Full EXCEPT !.mesh = [@ EXCEPT !.format = "Gmsh"]],
   [Full EXCEPT !.timestepping = Without(@, {"nstages"})],
   [Full EXCEPT !.load_balancer = Without(@, {"name"})],
   [Full EXCEPT !.output = Without(@, {"path"})],
   [Full EXCEPT !.output = [@ EXCEPT !.logfile = Without(@, {"name"})]],
   [Full EXCEPT !.output = [@ EXCEPT !.vtu = Without(@, {"frequency"})]],
   [Full EXCEPT !.problem = [@ EXCEPT !.bottom_friction = [@ EXCEPT !.coefficient = "negative"]]],
   Named("ehdg_gn"), Named("swe")}

Rectangle(m, n, elements, types) ==
  LET side(b) == SidesOfPath(Quad!boundaries(m, n)[b], TypeNumber[types[b]])
  IN  [file |-> Quad!MeshFile(m, n, elements, types), bcis |-> Quad!WriteBCISFile(m, n, types),
       sides |-> side(1) @@ side(2) @@ side(3) @@ side(4)]

(* Two triangles on either side of a levee along 1, 2, 3 and 4, 5, 6.      *)
Levee ==
  [file |-> [elements |-> (0 :> <<0, 1, 2>>) @@ (1 :> <<0, 2, 3>>) @@ (2 :> <<7, 5, 4>>) @@ (3 :> <<7, 6, 5>>),
             NBDV |-> << <<4, 7, 6>> >>,
             NBVV |-> << <<1, 2, 3>> >>,
             IBTYPE |-> <<24>>,
             IBCONN |-> << <<4, 5, 6>> >>,
             NBGN |-> << <<3, 0, 1>> >>],
   bcis |-> <<[type |-> "tide", nodes |-> <<4, 7, 6>>],
              [type |-> "levee",
               heights |-> (<<1, 4>> :> "low") @@ (<<2, 5>> :> "middle") @@ (<<3, 6>> :> "high")]>>,
   sides |-> SidesOfPath(<<4, 7, 6>>, tide) @@ SidesOfPath(<<3, 0, 1>>, land)]

(* A ring of triangles around the island 3, 4, 5.                          *)
Island ==
  [file |-> [elements |-> (0 :> <<0, 1, 3>>) @@ (1 :> <<1, 4, 3>>) @@ (2 :> <<1, 2, 4>>) @@
                          (3 :> <<2, 5, 4>>) @@ (4 :> <<2, 0, 5>>) @@ (5 :> <<0, 3, 5>>),
             NBDV |-> << >>,
             NBVV |-> << <<0, 1, 2, 0>>, <<3, 4, 5, 3>> >>,
             IBTYPE |-> <<10, 11>>, IBCONN |-> << >>, NBGN |-> << >>],
   bcis |-> << >>,
   sides |-> SidesOfPath(<<0, 1, 2, 0>>, land) @@ SidesOfPath(<<3, 4, 5, 3>>, NoType)]

(* One cell, with every variant of the input file.                         *)
OneCell == Rectangle(1, 1, Quad!simple_pattern_tri(1, 1), <<"land", "tide", "land", "land">>)

Case(world, program, params, wellformed) ==
  [file |-> world.file, bcis |-> world.bcis, sides |-> world.sides,
   program |-> program, params |-> params, wellformed |-> wellformed]
Run(world, program) == Case(world, program, ParamsOf(program), TRUE)

MCInputs ==
  {Run(Rectangle(2, 1, Quad!simple_pattern_tri(2, 1), <<"land", "tide", "flow", "land">>), "RKDG"),
   Run(Rectangle(1, 2, Quad!zigzag_pattern_tri(1, 2), <<"flow", "function", "outflow", "tide">>), "EHDG"),
   Run(Rectangle(2, 1, Quad!checker_pattern_tri(2, 1), <<"tide", "land", "tide", "flow">>), "GN"),
   Run(Rectangle(2, 1, Quad!checker_pattern_tri(2, 1), <<"tide", "function", "land", "land">>), "GN"),
   Run(Levee, "IHDG"),
   Run(Island, "RKDG")} \cup
  {Case(OneCell, "RKDG", p, TRUE) : p \in Variants} \cup
  {Case(OneCell, "RKDG", p, FALSE) : p \in Malformed}
MCPartitions == {3}
================================================================================

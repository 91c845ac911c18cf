-------------------------------- MODULE Hexes ----------------------------------
(***************************************************************************)
(* Axial hex coordinates as the hexx crate that src/map.rs and             *)
(* src/command/admin.rs build on computes them: <<x, y>> with z = -x - y,  *)
(* directions numbered clockwise.  hexx is not part of the repository.     *)
(***************************************************************************)
EXTENDS Integers

Hex == Int \X Int
Direction == 0..5

HexAdd(a, b) == <<a[1] + b[1], a[2] + b[2]>>

\* Hex::rotate_cw for n in 0..5.
RotateCw(h, n) ==
  LET x == h[1]
      y == h[2]
  IN  CASE n = 0 -> <<x, y>>
        [] n = 1 -> <<-y, x + y>>
        [] n = 2 -> <<-x - y, x>>
        [] n = 3 -> <<-x, -y>>
        [] n = 4 -> <<y, -x - y>>
        [] OTHER -> <<x + y, -x>>

\* EdgeDirection::rotate_cw.
TurnCw(d, n) == (d + n) % 6

\* Hex::to_lower_res: the centre, in the coarser grid, of the hexagon of the
\* given radius that h falls into.  \div rounds down, as floor does there.
ToLowerRes(h, radius) ==
  LET x == h[1]
      y == h[2]
      z == -x - y
      area == 3 * radius * (radius + 1) + 1
      shift == 3 * radius + 2
      u == (y + shift * x) \div area
      v == (z + shift * y) \div area
      w == (x + shift * z) \div area
  IN  <<(1 + u - v) \div 3, (1 + v - w) \div 3>>
================================================================================

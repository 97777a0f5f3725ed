--------------------------- MODULE ClientGeometry ---------------------------
(***************************************************************************)
(* The geometry the client applies to what the server sends: the axis      *)
(* mapping the caller asked for and the conversions of a rotation matrix.  *)
(*                                                                         *)
(* Coordinates are integers and a matrix is the nine of its rows, so that  *)
(* the axis rotations are exact.  A direction that would be divided by its *)
(* length is kept whole: a quaternion <<x, y, z, w>> stands for itself     *)
(* divided by its length, and the components of a helical angle, the axis  *)
(* <<x, y, z>> turned about by twice atan2 of its length and w, are the    *)
(* pairs <<x, w>>, <<y, w>> and <<z, w>>.  Euler angles count quarter      *)
(* turns, modulo 4.                                                        *)
(***************************************************************************)
EXTENDS Integers, Sequences

Entry(m, i, j) == m[3 * i + j + 1]
Matrix(E(_, _)) ==
    <<E(0, 0), E(0, 1), E(0, 2), E(1, 0), E(1, 1), E(1, 2), E(2, 0), E(2, 1), E(2, 2)>>
Triple(C(_)) == <<C(1), C(2), C(3)>>
SumOver3(T(_)) == T(0) + T(1) + T(2)

Product(m, n) ==
    Matrix(LAMBDA i, j : SumOver3(LAMBDA k : Entry(m, i, k) * Entry(n, k, j)))
Apply(m, v) == Triple(LAMBDA i : SumOver3(LAMBDA k : Entry(m, i - 1, k) * v[k + 1]))
Transpose(m) == Matrix(LAMBDA i, j : Entry(m, j, i))
Plus(v, w) == Triple(LAMBDA i : v[i] + w[i])
CrossProduct(a, b) ==
    <<a[2] * b[3] - a[3] * b[2], a[3] * b[1] - a[1] * b[3], a[1] * b[2] - a[2] * b[1]>>
Identity == Matrix(LAMBDA i, j : IF i = j THEN 1 ELSE 0)

\* A rotation is undone by its transpose, and keeps right hands right.
Matrices == Int \X Int \X Int \X Int \X Int \X Int \X Int \X Int \X Int
Vectors == Int \X Int \X Int
Determinant(m) ==
    m[1] * (m[5] * m[9] - m[6] * m[8]) - m[2] * (m[4] * m[9] - m[6] * m[7])
      + m[3] * (m[4] * m[8] - m[5] * m[7])
ProperRotations ==
    {m \in Matrices : /\ Product(m, Transpose(m)) = Identity
                      /\ Product(Transpose(m), m) = Identity
                      /\ Determinant(m) = 1}

------------------------------------------------------------------------------
(* Axis mappings                                                              *)

Direction == {"Forward", "Backward", "Left", "Right", "Up", "Down"}
ComponentSign(d) == IF d \in {"Forward", "Left", "Up"} THEN 1 ELSE -1
ComponentIndex(d) ==
    CASE d \in {"Forward", "Backward"} -> 0
      [] d \in {"Left", "Right"}       -> 1
      [] d \in {"Up", "Down"}          -> 2
AxisVector(d) == [i \in 1..3 |-> IF i = ComponentIndex(d) + 1 THEN ComponentSign(d) ELSE 0]

\* What SetAxisMapping makes of three directions.
AxisMappingResult(axes) ==
    IF {ComponentIndex(axes[i]) : i \in 1..3} # 0..2 THEN "CoLinearAxes"
    ELSE IF AxisVector(axes[3]) # CrossProduct(AxisVector(axes[1]), AxisVector(axes[2]))
    THEN "LeftHandedAxes"
    ELSE "Success"

\* m_Transform: the chosen directions are its rows.
Transform(axes) == Matrix(LAMBDA i, j : AxisVector(axes[i + 1])[j + 1])

ZUpAxes == <<"Forward", "Left", "Up">>
YUpAxes == <<"Forward", "Up", "Right">>

\* VClient's mapping of a translation and of a rotation from a server whose
\* vertical axis is Y or Z.  Equal axes are a plain copy.
CopyAndTransformT(axes, yUp, t) ==
    IF axes = (IF yUp THEN YUpAxes ELSE ZUpAxes) THEN t
    ELSE IF yUp THEN Apply(Product(Transform(axes), Transpose(Transform(YUpAxes))), t)
    ELSE Apply(Transform(axes), t)

\* Mutant of CopyAndTransformR: a rotation is mapped from the left only.
CopyAndTurn(axes, yUp, r) ==
    IF axes = (IF yUp THEN YUpAxes ELSE ZUpAxes) THEN r
    ELSE Product(IF yUp THEN Product(Transform(axes), Transpose(Transform(YUpAxes)))
                 ELSE Transform(axes), r)

CopyAndTransformR(axes, yUp, r) ==
    LET T == Transform(axes) Q == Transform(YUpAxes) IN
    IF axes = (IF yUp THEN YUpAxes ELSE ZUpAxes) THEN r
    ELSE IF yUp
    THEN Product(Product(Product(Product(T, Transpose(Q)), r), Q), Transpose(T))
    ELSE Product(Product(T, r), Transpose(T))

------------------------------------------------------------------------------
(* Conversions of a rotation matrix                                           *)

\* Mutant of MatrixToQuaternion: the formula for positive traces is used for all.
TraceToQuaternion(m) ==
    <<Entry(m, 2, 1) - Entry(m, 1, 2), Entry(m, 0, 2) - Entry(m, 2, 0),
      Entry(m, 1, 0) - Entry(m, 0, 1), Entry(m, 0, 0) + Entry(m, 1, 1) + Entry(m, 2, 2) + 1>>

MatrixToQuaternion(m) ==
    LET D(i) == Entry(m, i, i)
        i0   == IF D(1) > D(0) THEN 1 ELSE 0
        i    == IF D(2) > D(i0) THEN 2 ELSE i0
        j    == (i + 1) % 3
        k    == (j + 1) % 3
        part == [n \in {i, j, k} |->
                   CASE n = i -> D(i) - D(j) - D(k) + 1
                     [] n = j -> Entry(m, j, i) + Entry(m, i, j)
                     [] n = k -> Entry(m, k, i) + Entry(m, i, k)]
    IN  IF D(0) + D(1) + D(2) > 0
        THEN <<Entry(m, 2, 1) - Entry(m, 1, 2), Entry(m, 0, 2) - Entry(m, 2, 0),
               Entry(m, 1, 0) - Entry(m, 0, 1), D(0) + D(1) + D(2) + 1>>
        ELSE <<part[0], part[1], part[2], Entry(m, k, j) - Entry(m, j, k)>>

\* The helical angle keeps the quaternion's axis and its half angle.
QuaternionToHelical(q) == [i \in 1..3 |-> <<q[i], q[4]>>]
MatrixToHelical(m) == QuaternionToHelical(MatrixToQuaternion(m))
HelicalToQuaternion(h) == <<h[1][1], h[2][1], h[3][1], h[1][2]>>

\* Mutant of HelicalToMatrix: the angle's sign is lost.
HelicalToInverse(h) ==
    LET x == -h[1][1]  y == -h[2][1]  z == -h[3][1]  w == h[1][2]
        n == w * w + (x * x + y * y + z * z)
        c == 2 * w * w - n
    IN  [e \in 1..9 |->
          <<c + 2 * x * x,         2 * (x * y - w * z),   2 * (x * z + w * y),
            2 * (x * y + w * z),   c + 2 * y * y,         2 * (y * z - w * x),
            2 * (x * z - w * y),   2 * (y * z + w * x),   c + 2 * z * z>>[e] \div n]

\* HelicalToMatrix, with cos and sin of the angle over the common denominator
\* w^2 + x^2 + y^2 + z^2.
HelicalToMatrix(h) ==
    LET x == h[1][1]  y == h[2][1]  z == h[3][1]  w == h[1][2]
        c == w * w - (x * x + y * y + z * z)
        n == w * w + (x * x + y * y + z * z)
    IN  [e \in 1..9 |->
          <<c + 2 * x * x,         2 * (x * y - w * z),   2 * (x * z + w * y),
            2 * (x * y + w * z),   c + 2 * y * y,         2 * (y * z - w * x),
            2 * (x * z - w * y),   2 * (y * z + w * x),   c + 2 * z * z>>[e] \div n]

\* atan2 and asin where their arguments are -1, 0 or 1.
QuarterTurns(y, x) ==
    CASE y = 0 /\ x >= 0 -> 0  []  y > 0 -> 1  []  y = 0 /\ x < 0 -> 2  []  y < 0 -> 3
MatrixToEulerXYZ(m) ==
    LET s == Entry(m, 0, 2) IN
    CASE s = 0 -> <<QuarterTurns(-Entry(m, 1, 2), Entry(m, 2, 2)), 0,
                    QuarterTurns(-Entry(m, 0, 1), Entry(m, 0, 0))>>
      [] s > 0 -> <<(4 - QuarterTurns(-Entry(m, 1, 0), -Entry(m, 2, 0))) % 4, 1, 0>>
      [] s < 0 -> <<(4 - QuarterTurns(Entry(m, 1, 0), Entry(m, 2, 0))) % 4, 3, 0>>
==============================================================================

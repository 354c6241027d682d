----------------------------- MODULE TypesSchema -----------------------------
(* The structs of package types and of the small files of resolved_ast: the  *)
(* getters each declares and the conversion each getter makes, and how an    *)
(* address becomes a wrapper and a wrapper an address again.                 *)
EXTENDS Shapes, TLC

TypeKinds ==
  [Kind |-> ReadOnly(Enum("TypeKind")), IsInt32 |-> ReadOnly(Flag), IsInt64 |-> ReadOnly(Flag),
   IsUint32 |-> ReadOnly(Flag), IsUint64 |-> ReadOnly(Flag), IsBool |-> ReadOnly(Flag),
   IsFloat |-> ReadOnly(Flag), IsDouble |-> ReadOnly(Flag), IsString |-> ReadOnly(Flag),
   IsBytes |-> ReadOnly(Flag), IsDate |-> ReadOnly(Flag), IsTimestamp |-> ReadOnly(Flag),
   IsTime |-> ReadOnly(Flag), IsDatetime |-> ReadOnly(Flag), IsInterval |-> ReadOnly(Flag),
   IsNumericType |-> ReadOnly(Flag)]

TypeFeatures ==
  [IsBigNumericType |-> ReadOnly(Flag), IsJsonType |-> ReadOnly(Flag),
   IsFeatureV12CivilTimeType |-> ReadOnly(Flag), UsingFeatureV12CivilTimeType |-> ReadOnly(Flag),
   IsCivilDateOrTimeType |-> ReadOnly(Flag), IsGeography |-> ReadOnly(Flag),
   IsJson |-> ReadOnly(Flag), IsEnum |-> ReadOnly(Flag), IsArray |-> ReadOnly(Flag),
   IsStruct |-> ReadOnly(Flag), IsProto |-> ReadOnly(Flag), IsStructOrProto |-> ReadOnly(Flag),
   IsFloatingPoint |-> ReadOnly(Flag), IsNumerical |-> ReadOnly(Flag),
   IsInteger |-> ReadOnly(Flag), IsInteger32 |-> ReadOnly(Flag)]

TypeFacts ==
  [IsInteger64 |-> ReadOnly(Flag), IsSignedInteger |-> ReadOnly(Flag),
   IsUnsignedInteger |-> ReadOnly(Flag), IsSimpleType |-> ReadOnly(Flag),
   IsExtendedType |-> ReadOnly(Flag), AsArray |-> ReadOnly(Obj("ArrayType")),
   AsStruct |-> ReadOnly(Obj("StructType")), AsEnum |-> ReadOnly(Obj("EnumType")),
   SupportsGrouping |-> ReadOnly(Flag), SupportsPartitioning |-> ReadOnly(Flag),
   SupportsOrdering |-> ReadOnly(Flag), SupportsEquality |-> ReadOnly(Flag),
   HasAnyFields |-> ReadOnly(Flag), NestingDepth |-> ReadOnly(Num)]

ValueScalars ==
  [Type |-> ReadOnly(Obj("Type")), TypeKind |-> ReadOnly(Enum("TypeKind")),
   PhysicalByteSize |-> ReadOnly(Word), IsNull |-> ReadOnly(Flag), IsEmptyArray |-> ReadOnly(Flag),
   IsValid |-> ReadOnly(Flag), HasContent |-> ReadOnly(Flag), Int32Value |-> ReadOnly(Word),
   Int64Value |-> ReadOnly(Word), Uint32Value |-> ReadOnly(Word), Uint64Value |-> ReadOnly(Word),
   BoolValue |-> ReadOnly(Flag), FloatValue |-> ReadOnly(Word), DoubleValue |-> ReadOnly(Word),
   StringValue |-> ReadOnly(Text), BytesValue |-> ReadOnly(Text), DateValue |-> ReadOnly(Word),
   EnumValue |-> ReadOnly(Word), EnumName |-> ReadOnly(Text), ToUnixMicros |-> ReadOnly(Word)]

ValueParts ==
  [ToPacked64TimeMicros |-> ReadOnly(Word), ToPacked64DatetimeMicros |-> ReadOnly(Word),
   IsValidatedJSON |-> ReadOnly(Flag), IsUnparsedJSON |-> ReadOnly(Flag),
   JSONValueUnparsed |-> ReadOnly(Text), JSONString |-> ReadOnly(Text), ToInt64 |-> ReadOnly(Word),
   ToUint64 |-> ReadOnly(Word), ToDouble |-> ReadOnly(Word), NumFields |-> ReadOnly(Num),
   Fields |-> Stub(Objs("Value")), Empty |-> ReadOnly(Flag),
   NumElements |-> ReadOnly(Num), Elements |-> Stub(Objs("Value")),
   HashCode |-> ReadOnly(Word), ShortDebugString |-> ReadOnly(Text),
   FullDebugString |-> ReadOnly(Text), DebugString |-> ReadOnly(Text), Format |-> ReadOnly(Text)]

OptionLimits ==
  [Cardinality |-> Enum("ArgumentCardinality"), MustBeConstant |-> Flag, MustBeNonNull |-> Flag,
   IsNotAggregate |-> Flag, MustSupportEquality |-> Flag, MustSupportOrdering |-> Flag,
   MustSupportGrouping |-> Flag, HasMinValue |-> ReadOnly(Flag), HasMaxValue |-> ReadOnly(Flag),
   MinValue |-> Word, MaxValue |-> Word, HasRelationInputSchema |-> ReadOnly(Flag),
   ResolveDescriptorNamesTableOffset |-> Num]

OptionNames ==
  [ExtraRelationInputColumnsAllowed |-> Flag, HasArgumentName |-> ReadOnly(Flag),
   ArgumentName |-> Text, ArgumentNameIsMandatory |-> Flag,
   ProcedureArgumentMode |-> Enum("ProcedureArgumentMode"), OptionsDebugString |-> ReadOnly(Text),
   ArgumentNameParseLocation |-> Obj("ParseLocationRange"),
   ArgumentTypeParseLocation |-> Obj("ParseLocationRange"), HasDefault |-> ReadOnly(Flag),
   Default |-> Obj("Value"), ArgumentCollationMode |-> Enum("ArgumentCollationMode"),
   UsesArrayElementForCollation |-> Flag]

ArgumentFacts ==
  [Options |-> ReadOnly(Obj("FunctionArgumentTypeOptions")), Required |-> ReadOnly(Flag),
   Repeated |-> ReadOnly(Flag), Optional |-> ReadOnly(Flag),
   Cardinality |-> ReadOnly(Enum("ArgumentCardinality")), MustBeConstant |-> ReadOnly(Flag),
   HasArgumentName |-> ReadOnly(Flag), ArgumentName |-> ReadOnly(Text), NumOccurrences |-> Num,
   Type |-> ReadOnly(Obj("Type")), Kind |-> ReadOnly(Enum("SignatureArgumentKind")),
   Lambda |-> ReadOnly(Obj("ArgumentTypeLambda"))]

ArgumentTemplates ==
  [IsConcrete |-> ReadOnly(Flag), IsTemplated |-> ReadOnly(Flag), IsScalar |-> ReadOnly(Flag),
   IsRelation |-> ReadOnly(Flag), IsModel |-> ReadOnly(Flag), IsConnection |-> ReadOnly(Flag),
   IsLambda |-> ReadOnly(Flag), IsFixedRelation |-> ReadOnly(Flag), IsVoid |-> ReadOnly(Flag),
   IsDescriptor |-> ReadOnly(Flag), HasDefault |-> ReadOnly(Flag),
   Default |-> ReadOnly(Obj("Value"))]

SignatureTypes ==
  [Arguments |-> ReadOnly(Objs("FunctionArgumentType")),
   ConcreteArguments |-> ReadOnly(Objs("FunctionArgumentType")),
   ResultType |-> ReadOnly(Obj("FunctionArgumentType")), IsConcrete |-> ReadOnly(Flag),
   HasConcreteArguments |-> ReadOnly(Flag), FirstRepeatedArgumentIndex |-> ReadOnly(Num),
   LastRepeatedArgumentIndex |-> ReadOnly(Num), NumRequiredArguments |-> ReadOnly(Num)]

SignatureFacts ==
  [NumRepeatedArguments |-> ReadOnly(Num), NumOptionalArguments |-> ReadOnly(Num),
   IsDeprecated |-> Flag, IsInternal |-> ReadOnly(Flag),
   Options |-> ReadOnly(Obj("FunctionSignatureOptions")), IsTemplated |-> ReadOnly(Flag),
   AllArgumentsHaveDefaults |-> ReadOnly(Flag)]

FunctionNames ==
  [Name |-> ReadOnly(Text), FunctionNamePath |-> ReadOnly(Texts), SQLName |-> ReadOnly(Text),
   Group |-> ReadOnly(Text), IsGoogleSQLBuiltin |-> ReadOnly(Flag),
   ArgumentsAreCoercible |-> ReadOnly(Flag), NumSignatures |-> ReadOnly(Num),
   Signatures |-> ReadOnly(Objs("FunctionSignature")), Mode |-> ReadOnly(Enum("Mode")),
   IsScalar |-> ReadOnly(Flag), IsAggregate |-> ReadOnly(Flag), IsAnalytic |-> ReadOnly(Flag),
   SupportsOverClause |-> ReadOnly(Flag)]

FunctionFacts ==
  [SupportsWindowOrdering |-> ReadOnly(Flag), RequiresWindowOrdering |-> ReadOnly(Flag),
   SupportsWindowFraming |-> ReadOnly(Flag), SupportsOrderingArguments |-> ReadOnly(Flag),
   SupportsLimitArguments |-> ReadOnly(Flag), SupportsNullHandlingModifier |-> ReadOnly(Flag),
   SupportsSafeErrorMode |-> ReadOnly(Flag), SupportsHavingModifier |-> ReadOnly(Flag),
   SupportsDistinctModifier |-> ReadOnly(Flag), SupportsClampedBetweenModifier |-> ReadOnly(Flag),
   IsDeprecated |-> ReadOnly(Flag), AliasName |-> ReadOnly(Text)]

ModelGetters ==
  [Name |-> ReadOnly(Text), FullName |-> ReadOnly(Text), NumInputs |-> ReadOnly(Num),
   NumOutputs |-> ReadOnly(Num), SerializationID |-> ReadOnly(Num)]

TvfGetters ==
  [Name |-> ReadOnly(Text), FullName |-> ReadOnly(Text), FunctionNamePath |-> ReadOnly(Texts),
   NumSignatures |-> ReadOnly(Num), Signatures |-> ReadOnly(Objs("FunctionSignature")),
   SupportedSignaturesUserFacingText |-> ReadOnly(Text), DebugString |-> ReadOnly(Text),
   AnonymizationInfo |-> ReadOnly(Obj("AnonymizationInfo"))]

TypeClasses ==
  [AnnotatedType |-> Class(NoBase, [Type |-> Stub(Obj("Type")),
       AnnotationMap |-> Stub(Obj("AnnotationMap"))]),
   Type |-> Class(NoBase, TypeKinds @@ TypeFeatures @@ TypeFacts),
   StructField |-> Class(NoBase, [Name |-> ReadOnly(Text), Type |-> ReadOnly(Obj("Type"))]),
   StructType |-> Class("Type", [NumFields |-> ReadOnly(Num),
       Fields |-> ReadOnly(Objs("StructField"))]),
   ArrayType |-> Class("Type", [ElementType |-> ReadOnly(Obj("Type"))]),
   EnumType |-> Class("Type", [FindName |-> Stub(Text),
       FindNumber |-> Stub(Num)])]

ValueClasses ==
  [Value |-> Class(NoBase, ValueScalars @@ ValueParts)]

FunctionClasses ==
  [FunctionArgumentTypeOptions |-> Class(NoBase, OptionLimits @@ OptionNames),
   FunctionArgumentType |-> Class(NoBase, ArgumentFacts @@ ArgumentTemplates),
   ArgumentTypeLambda |-> Class(NoBase, [ArgumentTypes |-> ReadOnly(Objs("FunctionArgumentType")),
       BodyType |-> ReadOnly(Obj("FunctionArgumentType"))]),
   FunctionSignature |-> Class(NoBase, SignatureTypes @@ SignatureFacts),
   Function |-> Class(NoBase, FunctionNames @@ FunctionFacts)]

ColumnClasses ==
  [BaseColumn |-> Class(NoBase, [Name |-> ReadOnly(Text), FullName |-> ReadOnly(Text),
       Type |-> ReadOnly(Obj("Type")),
       TypeAnnotationMap |-> Stub(Obj("AnnotationMap")),
       IsPseudoColumn |-> ReadOnly(Flag), IsWritableColumn |-> ReadOnly(Flag)]),
   SimpleColumn |-> Class("BaseColumn", [AnnotatedType |-> ReadOnly(Obj("AnnotatedType"))])]

ConnectionClasses ==
  [Connection |-> Class(NoBase, [Name |-> Stub(Text),
       FullName |-> Stub(Text)])]

ConstantClasses ==
  [Constant |-> Class(NoBase, [Name |-> ReadOnly(Text), FullName |-> ReadOnly(Text),
       Type |-> ReadOnly(Obj("Type")), DebugString |-> ReadOnly(Text),
       NamePath |-> ReadOnly(Texts)])]

AnnotationClasses ==
  [AnnotationMap |-> Class(NoBase, [IsStructMap |-> Stub(Flag),
       IsArrayMap |-> Stub(Flag)])]

ModelClasses ==
  [BaseModel |-> Class(NoBase, ModelGetters)]

ProcedureClasses ==
  [Procedure |-> Class(NoBase, [Name |-> ReadOnly(Text), FullName |-> ReadOnly(Text),
       NamePath |-> ReadOnly(Texts), Signature |-> ReadOnly(Obj("FunctionSignature"))])]

TvfClasses ==
  [TableValuedFunction |-> Class(NoBase, TvfGetters)]

LocationClasses ==
  [ParseLocationPoint |-> Class(NoBase, [Filename |-> ReadOnly(Text), ByteOffset |-> ReadOnly(Num),
       String |-> ReadOnly(Text)]),
   ParseLocationRange |-> Class(NoBase, [Start |-> ReadOnly(Obj("ParseLocationPoint")),
       End |-> ReadOnly(Obj("ParseLocationPoint")), String |-> ReadOnly(Text)])]

ResolvedColumnClasses ==
  [ResolvedColumn |-> Class(NoBase, [IsInitialized |-> ReadOnly(Flag),
       DebugString |-> ReadOnly(Text), ShortDebugString |-> ReadOnly(Text),
       ColumnID |-> ReadOnly(Num), TableName |-> ReadOnly(Text), Name |-> ReadOnly(Text),
       TableNameID |-> ReadOnly(Text), NameID |-> ReadOnly(Text), Type |-> ReadOnly(Obj("Type")),
       TypeAnnotationMap |-> ReadOnly(Obj("AnnotationMap")),
       AnnotatedType |-> ReadOnly(Obj("AnnotatedType"))])]

CollationClasses ==
  [Collation |-> Class(NoBase, [Empty |-> ReadOnly(Flag), HasCollation |-> ReadOnly(Flag),
       CollationName |-> ReadOnly(Text), ChildList |-> ReadOnly(Objs("Collation")),
       DebugString |-> ReadOnly(Text)])]

CallInfoClasses ==
  [FunctionCallInfo |-> Class(NoBase, [DebugString |-> ReadOnly(Text)])]

TypesClasses ==
  TypeClasses @@ ValueClasses @@ FunctionClasses @@ ColumnClasses @@ ConnectionClasses @@
    ConstantClasses @@ AnnotationClasses @@ ModelClasses @@ ProcedureClasses @@ TvfClasses @@
    LocationClasses @@ ResolvedColumnClasses @@ CollationClasses @@ CallInfoClasses

-----------------------------------------------------------------------------
(* How package types, and the structs beside the nodes of package            *)
(* resolved_ast, wrap their objects.                                         *)

AnnotatedWrappers ==
  [AnonymizationInfo |-> NilIsNil, AnnotatedType |-> NilIsNil]

TypeParts == [TypeParameters |-> NilIsEmpty, StructField |-> NilIsNil]

\* AsEnum makes its struct without asking for nil.
EnumWrapper == [EnumType |-> NilIsEmpty]

TypeWrapper == [Type |-> NilIsNil]

CompositeWrappers == [StructType |-> NilIsNil, ArrayType |-> NilIsNil]

ValueWrapper == [Value |-> NilIsNil]

FunctionWrappers ==
  [x \in {"Function", "FunctionSignature", "FunctionArgumentType", "ArgumentTypeLambda",
          "FunctionSignatureOptions"} |-> NilIsEmpty]
    @@ [FunctionArgumentTypeOptions |-> Wrapping(TRUE, TRUE, "same")]

AnnotationMapWrapper == [AnnotationMap |-> NilIsEmpty]

ConnectionWrapper == [Connection |-> NilIsEmpty]

ConstantWrapper == [Constant |-> NilIsEmpty]

LocationWrappers == [ParseLocationPoint |-> NilIsNil, ParseLocationRange |-> NilIsNil]

\* A table C++ does not have becomes a SimpleTable around the null address.
TableWrapper == [Table |-> Wrapping(FALSE, TRUE, "same")]

ModelWrapper == [Model |-> Wrapping(TRUE, FALSE, "interface")]

TvfWrappers ==
  [TableValuedFunction |-> Wrapping(TRUE, FALSE, "interface"), TVFSignature |-> NilIsEmpty]

ProcedureWrapper == [Procedure |-> Wrapping(FALSE, FALSE, "struct")]

ColumnWrapper == [Column |-> NilIsNil]

CollationWrapper == [Collation |-> NilIsNil]

CallInfoWrapper == [FunctionCallInfo |-> NilIsNil]

\* What resolved_ast links to by name, and its own.
ObjectWrappers ==
  AnnotatedWrappers @@ TypeParts @@ EnumWrapper @@ TypeWrapper @@ CompositeWrappers
    @@ ValueWrapper @@ FunctionWrappers @@ AnnotationMapWrapper @@ ConnectionWrapper
    @@ ConstantWrapper @@ LocationWrappers @@ TableWrapper @@ ModelWrapper @@ TvfWrappers
    @@ ProcedureWrapper @@ ColumnWrapper @@ CollationWrapper @@ CallInfoWrapper

=============================================================================
